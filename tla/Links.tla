------------------------------- MODULE Links -------------------------------
(***************************************************************************)
(* The transmitting side of one link: who may use it, in which order, and  *)
(* what time-outs, flow control and reconfiguration do to them.            *)
(* kernel/link1.c, the surrogate branches of _PutMsg() (putmsg1.c) and     *)
(* _AbortPort() (kill1.c), the link pass of TimeoutHandler() (port1.c) and *)
(* LinkTx(), AbortLinkTx() (glinkio.c).                                    *)
(*                                                                         *)
(* The functions run at HIGHPRI, so a step lasts until a thread suspends;  *)
(* `high' is the HIGHPRI run queue, a Resume()d thread goes to its tail,   *)
(* and programs run while it is empty.  The end of a transfer and the      *)
(* arrival of a byte are interrupts and come at any time.                  *)
(*                                                                         *)
(* What the neighbour sends is arbitrary.  One program, the processor      *)
(* manager, configures the link.  A step that follows a NULL pointer or    *)
(* resumes a thread that does not wait there sets `astray' and is the last *)
(* one modelled: C gives no meaning to what follows.                       *)
(***************************************************************************)
EXTENDS Integers, Sequences, Lists

CONSTANTS
  Programs,  \* threads that send messages through the link
  Manager,   \* the processor manager: it configures the link and aborts messages
  Workers,   \* bound of the model: the workers that can exist at once
  Guardian,  \* LinkGuardian()
  None       \* no thread

ASSUME ThreadAssumption  == /\ Programs \cap Workers = {}
                            /\ Guardian \notin Programs \cup Workers
                            /\ Manager \notin Programs \cup Workers \cup {Guardian}
                            /\ None \notin Programs \cup Workers \cup {Guardian, Manager}

Threads == Programs \cup Workers \cup {Manager, Guardian}

(* What a thread does with the link: _PutMsg(), ReadReply(), _SendInfo()   *)
(* or Probe(), FlowControl() of either code, HandleXoff(), _Configure().   *)
Transfers == {"put", "reply", "info", "flow_xoff", "flow_xon"}
Jobs      == Transfers \cup {"none", "hold", "dumb"}
Places    == {"idle", "start", "queue", "tx", "stop", "sync", "clear", "receive", "message", "asleep"}
Results   == {"null", "timeout", "abort", "badroute", "FC_Xon", "FC_LinkTx", "flow_xoff", "flow_xon"}

VARIABLES
  mode,      \* link->Mode: intelligent or dumb
  running,   \* link->State is Link_State_Running
  stopped,   \* Link_Flags_stopped
  xoffed,    \* Root_Flags_xoffed
  txUser,    \* link->TxUser: whose Id it points at
  txQueue,   \* link->TxQueue
  txThread,  \* link->TxThread: who is suspended in LinkTx()
  sync,      \* link->Sync: whose Id it points at
  high,      \* ExecRoot.Queues[HIGHPRI]
  th,        \* each thread: its job, where it suspended, its Id, what is left to
             \* send, Link_Flags_stopped as its _Configure() saw it
  heard,     \* history: the neighbour's last flow control code, an Xon as
             \* "missed" if a HandleXoff() has not been told of it
  astray     \* the step after which the code's behaviour is undefined

flags   == <<mode, running, stopped>>
vars    == <<flags, xoffed, txUser, txQueue, txThread, sync, high, th, heard, astray>>

----------------------------------------------------------------------------
First(t)   == high # <<>> /\ Head(high) = t
Runs(t)    == high = <<>> /\ th[t].at = "idle"
Open       == mode = "intelligent" /\ running
Suspended(t, p) == th[t].at = p /\ ~In(high, t)

At(j, p, d, n) == [job |-> j, at |-> p, rc |-> "null", endtime |-> d, left |-> n, saw |-> FALSE]
Idle     == At("none", "idle", "none", 0)

(* Fault: the last part of a message is not counted.                       *)
PartsNot(j) == 0

Parts(j) == IF j = "put" THEN 2 ELSE 1   \* protocol byte, then header and body

(* A step whose only effects on threads are t's record and the run queue.  *)
Becomes(t, r, H) == th' = [th EXCEPT ![t] = r] /\ high' = H

----------------------------------------------------------------------------
(* The transmitter.                                                        *)

(* Fault: the successor is resumed, but TxUser cleared.                    *)
NoSuccessor == None

Successor == IF txQueue = <<>> THEN None ELSE Head(txQueue)

(* _SignalLink() and the end of a thread's use of the link.                *)
Done(t, H) ==
  /\ txUser' = Successor
  /\ txQueue' = IF txQueue = <<>> THEN <<>> ELSE Tail(txQueue)
  /\ Becomes(t, Idle, IF txQueue = <<>> THEN H ELSE Append(H, Head(txQueue)))
  /\ UNCHANGED <<txThread, sync>>

(* LinkTx(): o is in charge of the link, which should be t.                *)
Transmit(t, o, r, H) ==
  /\ txUser' = o
  /\ txThread' = t
  /\ Becomes(t, r, H)
  /\ UNCHANGED <<txQueue, sync>>

(* LinkGuardian() comes round: the thread AbortLinkTx() returns, if any,   *)
(* is not resumed.  `now' is th as it stands.                              *)
Restart(now, H) ==
  /\ txUser' = None
  /\ txThread' = None
  /\ sync' = IF mode' = "dumb" THEN Guardian ELSE sync
  /\ th' = [now EXCEPT ![Guardian] =
              At("none", IF mode' = "dumb" THEN "asleep" ELSE "receive", "none", 0)]
  /\ high' = H

(* Link_Flags_stopped as t's _Configure() read it at its beginning.        *)
Saw(t) == IF th[t].job = "dumb" THEN th[t].saw ELSE stopped

(* The record of a thread that goes on with j.                             *)
For(t, j, p, d, n) == [At(j, p, d, n) EXCEPT !.saw = j = "dumb" /\ Saw(t)]

(* _Configure() aborts the guardian's reception, leaves the link and goes  *)
(* into ClearPorts().                                                      *)
EndDumb(t, now, H) ==
  LET clears == [now EXCEPT ![t] = For(t, "dumb", "clear", "none", 0)] IN
  /\ txUser' = None
  /\ IF t # Guardian /\ Suspended(Guardian, "receive")
       THEN /\ th' = [clears EXCEPT ![Guardian].rc = "timeout"]
            /\ high' = Append(H, Guardian)
       ELSE th' = clears /\ high' = H
  /\ UNCHANGED <<stopped, txThread, sync>>

Evicted == [u \in Threads |-> IF In(txQueue, u) THEN [th[u] EXCEPT !.rc = "badroute"] ELSE th[u]]

(* _Configure() from the eviction of the queue on.                         *)
Evict(t, o, H) ==
  /\ txQueue' = <<>>
  /\ IF t # Guardian /\ th[Guardian].at = "message"
       THEN /\ txUser' = o
            /\ sync' = t
            /\ th' = [Evicted EXCEPT ![t] = For(t, "dumb", "sync", "none", 0)]
            /\ high' = H \o txQueue
            /\ UNCHANGED <<stopped, txThread>>
       ELSE EndDumb(t, Evicted, H \o txQueue)

(* What a thread does as soon as the link is its own, with o in charge.    *)
Use(t, j, o, H) ==
  \/ /\ j \in Transfers
     /\ Transmit(t, o, At(j, "tx", "set", Parts(j)), H)
     /\ UNCHANGED flags
  \/ /\ j = "hold"
     /\ stopped' = TRUE
     /\ txUser' = o
     /\ Becomes(t, At("hold", "stop", "none", 0), H)
     /\ UNCHANGED <<mode, running, txQueue, txThread, sync>>
  \/ /\ j = "dumb"
     /\ mode' = "dumb"
     /\ running' = FALSE
     /\ IF running /\ t # Guardian
          THEN Transmit(t, o, For(t, "dumb", "tx", "set", 1), H) /\ UNCHANGED stopped
          ELSE Evict(t, o, H)

Queue(t, j, d, q, H) ==
  /\ txQueue' = q
  /\ Becomes(t, For(t, j, "queue", d, 0), H)
  /\ running' = (running /\ t # Guardian)   \* which has said it is dead
  /\ UNCHANGED <<mode, stopped, txUser, txThread, sync>>

WaitLink(t, j, d, H) ==
  IF txUser = None THEN Use(t, j, t, H) ELSE Queue(t, j, d, Append(txQueue, t), H)

(* Fault: who jumps the queue forgets to link it behind itself.            *)
JumpAlone(t, j, H) ==
  IF txUser = None THEN Use(t, j, t, H) ELSE Queue(t, j, "none", <<t>>, H)

JumpLink(t, j, H) ==
  IF txUser = None THEN Use(t, j, t, H) ELSE Queue(t, j, "none", <<t>> \o txQueue, H)

----------------------------------------------------------------------------
(* Programs.                                                               *)

PutMsg(t, d) ==
  /\ Runs(t)
  /\ Open
  /\ WaitLink(t, "put", d, <<>>)
  /\ UNCHANGED <<xoffed, heard, astray>>

(* The processor manager: _AbortPort() of the surrogate that t sends to.   *)
AbortPort(t) ==
  /\ Runs(Manager)
  /\ In(txQueue, t) /\ th[t].job = "put"
  /\ txQueue' = Drop(txQueue, {t})
  /\ Becomes(t, [th[t] EXCEPT !.rc = "abort"], <<t>>)
  /\ UNCHANGED <<flags, xoffed, txUser, txThread, sync, heard, astray>>

ConfigureDumb ==
  /\ Runs(Manager)
  /\ mode = "intelligent"
  /\ JumpLink(Manager, "dumb", <<>>)
  /\ UNCHANGED <<xoffed, heard, astray>>

(* The neighbour means Xon, and those of S have been told.                 *)
Told(S) == IF \E w \in Workers \ S : th[w].job = "hold" THEN "missed" ELSE "xon"

ConfigureIntelligent ==
  /\ Runs(Manager)
  /\ mode = "dumb"
  /\ mode' = "intelligent"
  /\ running' = TRUE
  /\ IF sync = None THEN astray' = "configure" /\ UNCHANGED high
                    ELSE high' = <<sync>> /\ UNCHANGED astray
  /\ sync' = None
  /\ heard' = Told({})
  /\ UNCHANGED <<stopped, xoffed, txUser, txQueue, txThread, th>>

----------------------------------------------------------------------------
(* Workers, and what follows a Suspend().                                  *)

(* The HandleXoff() in charge waits where its waker supposes it.           *)
Waits(u) == u # None /\ th[u].job = "hold" /\ Suspended(u, "stop")

(* FlowControl() for the one link.                                         *)
FlowControl(t, c) ==
  /\ xoffed' = (c = "flow_xoff")
  /\ \/ /\ xoffed' = xoffed \/ ~Open
        /\ Becomes(t, Idle, Tail(high))
        /\ UNCHANGED <<flags, txUser, txQueue, txThread, sync, astray>>
     \/ /\ xoffed' # xoffed /\ Open /\ ~stopped
        /\ JumpLink(t, c, Tail(high))
        /\ UNCHANGED astray
     \/ /\ xoffed' # xoffed /\ Open /\ stopped
        /\ IF Waits(txUser)
             THEN /\ th' = [th EXCEPT ![t] = Idle, ![txUser].rc = c]
                  /\ high' = Append(Tail(high), txUser)
                  /\ UNCHANGED astray
             ELSE Becomes(t, Idle, Tail(high)) /\ astray' = "flow"
        /\ UNCHANGED <<flags, txUser, txQueue, txThread, sync>>

WorkerStarts(t) ==
  LET j == th[t].job IN
  /\ First(t) /\ th[t].at = "start"
  /\ \/ j = "reply" /\ WaitLink(t, j, "none", Tail(high)) /\ UNCHANGED <<xoffed, astray>>
     \/ j \in {"flow_xoff", "flow_xon"} /\ FlowControl(t, j)
     \/ /\ j = "info" \/ (j = "hold" /\ ~stopped)
        /\ JumpLink(t, j, Tail(high))
        /\ UNCHANGED <<xoffed, astray>>
     \/ /\ j = "hold" /\ stopped
        /\ Becomes(t, Idle, Tail(high))
        /\ UNCHANGED <<flags, xoffed, txUser, txQueue, txThread, sync, astray>>
  /\ UNCHANGED heard

(* A thread leaves the queue with the link or with a reason why not;       *)
(* HandleXoff(), FlowControl() and _Configure() then try again.            *)
QueueReturns(t) ==
  LET j == th[t].job IN
  /\ First(t) /\ th[t].at = "queue"
  /\ \/ th[t].rc = "null" /\ Use(t, j, txUser, Tail(high))
     \/ /\ th[t].rc # "null" /\ j \in {"put", "reply", "info"}
        /\ Becomes(t, Idle, Tail(high))
        /\ UNCHANGED <<flags, txUser, txQueue, txThread, sync>>
     \/ /\ th[t].rc # "null" /\ j \notin {"put", "reply", "info"}
        /\ JumpLink(t, j, Tail(high))
  /\ UNCHANGED <<xoffed, heard, astray>>

(* Fault: the rest of a message is sent after a time-out.                  *)
AbandonsNot(t) == FALSE

Abandons(t) == th[t].rc = "timeout"

PutContinues(t) ==
  /\ First(t) /\ th[t].at = "tx" /\ th[t].job = "put"
  /\ th[t].left > 0 /\ ~Abandons(t)
  /\ Transmit(t, txUser, th[t], Tail(high))
  /\ UNCHANGED <<flags, xoffed, heard, astray>>

TransferEnds(t) ==
  /\ First(t) /\ th[t].at = "tx" /\ th[t].job \in Transfers
  /\ th[t].job = "put" => th[t].left = 0 \/ Abandons(t)
  /\ running' = (running \/ (th[t].job = "put" /\ ~Abandons(t)))
  /\ Done(t, Tail(high))
  /\ UNCHANGED <<mode, stopped, xoffed, heard, astray>>

ReconfigureSent(t) ==
  /\ First(t) /\ th[t].at = "tx" /\ th[t].job = "dumb"
  /\ UNCHANGED <<mode, running, xoffed, heard, astray>>
  /\ Evict(t, txUser, Tail(high))

GuardianReady(t) ==
  /\ First(t) /\ th[t].at = "sync"
  /\ EndDumb(t, th, Tail(high))
  /\ UNCHANGED <<mode, running, xoffed, txQueue, heard, astray>>

(* The end of _Configure(): mode and flags are written back, the flags as  *)
(* they were read at the beginning.                                        *)
PortsCleared(t) ==
  /\ First(t) /\ th[t].at = "clear"
  /\ mode'    = "dumb"
  /\ stopped' = Saw(t)
  /\ IF t = Guardian
       THEN Restart(th, Tail(high))
       ELSE Becomes(t, Idle, Tail(high)) /\ UNCHANGED <<txUser, txThread, sync>>
  /\ UNCHANGED <<running, xoffed, txQueue, heard, astray>>

(* Workers are all alike: which one is used makes no difference.           *)
Spare     == \E w \in Workers : th[w] = Idle
NewWorker == CHOOSE w \in Workers : th[w] = Idle

Over(c) == c = "FC_Xon"

(* Fault: HandleXoff() leaves its flag set.                                *)
StaysStopped == stopped

Cleared == FALSE

(* HandleXoff() between its Suspend()s.                                    *)
HoldContinues(t) ==
  LET c == th[t].rc IN
  /\ First(t) /\ th[t].at \in {"stop", "tx"} /\ th[t].job = "hold"
  /\ \/ Over(c) /\ stopped' = Cleared /\ Done(t, Tail(high))
     \/ /\ ~Over(c) /\ th[t].at = "tx"
        /\ Becomes(t, At("hold", "stop", "none", 0), Tail(high))
        /\ UNCHANGED <<stopped, txUser, txQueue, txThread, sync>>
     \/ /\ ~Over(c) /\ th[t].at = "stop"
        /\ Transmit(t, txUser, [At("hold", "tx", "set", 1) EXCEPT !.rc = "FC_LinkTx"], Tail(high))
        /\ UNCHANGED stopped
  /\ UNCHANGED <<mode, running, xoffed, heard, astray>>

----------------------------------------------------------------------------
(* The guardian.                                                           *)

(* Back to the test of IntelligentServer()'s loop; x is left in LinkTx().  *)
LoopWith(x, now, H) ==
  IF mode' = "dumb" THEN Restart(now, H)
  ELSE /\ th' = [now EXCEPT ![Guardian] = At("none", "receive", "none", 0)]
       /\ high' = H
       /\ txThread' = x
       /\ UNCHANGED <<txUser, sync>>

Loop(now, H) == LoopWith(txThread, now, H)

(* NewWorker(), and round the loop.                                        *)
Spawn(j) ==
  /\ Spare
  /\ Loop([th EXCEPT ![NewWorker] = At(j, "start", "none", 0)], Append(Tail(high), NewWorker))

(* Fault: the process in charge is resumed without its code.               *)
XonUntold(u) == th[u].rc

Xon(u) == "FC_Xon"

(* Fault: HandleXon() does not test the flag.                              *)
HaltedAlways == TRUE

Halted == stopped

HandleXon ==
  LET u == txUser
      sending == Halted /\ u # None /\ th[u].rc = "FC_LinkTx"
      woken   == IF sending THEN txThread ELSE u
  IN
  IF Halted /\ (Waits(u) \/ (sending /\ txThread # None))
    THEN /\ LoopWith(IF sending THEN None ELSE txThread,
                     [th EXCEPT ![u].rc = Xon(u)], Append(Tail(high), woken))
         /\ heard' = Told({u})
         /\ UNCHANGED astray
    ELSE /\ Loop(th, Tail(high))
         /\ heard' = Told({})
         /\ astray' = IF Halted /\ ~sending THEN "xon" ELSE astray

GuardianActs ==
  /\ First(Guardian) /\ th[Guardian].at = "receive" /\ th[Guardian].rc = "null"
  /\ UNCHANGED xoffed
  /\ \/ /\ UNCHANGED <<flags, txQueue>>
        /\ \/ Spawn("hold") /\ heard' = "xoff" /\ UNCHANGED astray
           \/ HandleXon
           \/ Spawn("reply") /\ UNCHANGED <<heard, astray>>
     \/ /\ Becomes(Guardian, At("none", "message", "none", 0), Tail(high))
        /\ UNCHANGED <<flags, txUser, txQueue, txThread, sync, heard, astray>>
     \/ /\ running' = TRUE
        /\ UNCHANGED <<mode, stopped, txQueue, heard, astray>>
        /\ Spawn("info")
     \/ /\ mode = "intelligent"
        /\ JumpLink(Guardian, "dumb", Tail(high))
        /\ UNCHANGED <<heard, astray>>
     \/ /\ mode = "dumb"
        /\ running' = FALSE
        /\ UNCHANGED <<mode, stopped, txQueue, heard, astray>>
        /\ Loop(th, Tail(high))

(* Nothing has come in time.  An idle link is probed, then given up.       *)
GuardianTimesOut ==
  LET listens == mode = "intelligent" /\ ~stopped /\ ~xoffed IN
  /\ First(Guardian) /\ th[Guardian].at = "receive" /\ th[Guardian].rc = "timeout"
  /\ running' \in {running, running /\ ~listens}
  /\ UNCHANGED <<mode, stopped, xoffed, txQueue, heard, astray>>
  /\ \/ Loop(th, Tail(high))
     \/ listens /\ running' = running /\ Spawn("info")

Notified == IF sync = None THEN <<>> ELSE <<sync>>

(* The end of LinkMsg(): _Configure() is told; buffers may have filled up. *)
MessageEnds ==
  LET Filled(w) == Tail(high) \o w \o Notified IN
  /\ First(Guardian) /\ th[Guardian].at = "message"
  /\ running' \in {TRUE, running}
  /\ UNCHANGED <<mode, stopped, xoffed, txQueue, heard, astray>>
  /\ \/ Loop(th, Filled(<<>>))
     \/ /\ Spare
        /\ Loop([th EXCEPT ![NewWorker] = At("flow_xoff", "start", "none", 0)],
                Filled(<<NewWorker>>))

(* It is woken on the Sync list of a dumb link.                            *)
GuardianWakes ==
  /\ First(Guardian) /\ th[Guardian].at = "asleep"
  /\ UNCHANGED <<flags, xoffed, txQueue, heard, astray>>
  /\ Restart(th, Tail(high))

----------------------------------------------------------------------------
(* Interrupts and the clock.                                               *)

(* A byte or the rest of a message, or none of that in time.               *)
Arrives ==
  /\ Suspended(Guardian, "receive") \/ Suspended(Guardian, "message")
  /\ high' = Append(high, Guardian)
  /\ UNCHANGED <<flags, xoffed, txUser, txQueue, txThread, sync, th, heard, astray>>

(* ClearPorts() yields after each block of the port table, and the         *)
(* exceptions it sends wait for ports and links of their own: it gets the  *)
(* processor back at any time, if ever.                                    *)
PortsScanned(t) ==
  /\ Suspended(t, "clear")
  /\ high' = Append(high, t)
  /\ UNCHANGED <<flags, xoffed, txUser, txQueue, txThread, sync, th, heard, astray>>

(* The neighbour has taken what LinkTx() sends.                            *)
Sent ==
  /\ txThread # None
  /\ Becomes(txThread, [th[txThread] EXCEPT !.left = @ - 1], Append(high, txThread))
  /\ txThread' = None
  /\ UNCHANGED <<flags, xoffed, txUser, txQueue, sync, heard, astray>>

(* A buffered message has been delivered, and few others are left.         *)
LowWater ==
  /\ xoffed /\ Spare
  /\ high = <<>>  \* bound of the model: DeliverMsg() may end at any time
  /\ Becomes(NewWorker, At("flow_xon", "start", "none", 0), <<NewWorker>>)
  /\ UNCHANGED <<flags, xoffed, txUser, txQueue, txThread, sync, heard, astray>>

(* Fault: the transfer is aborted and its thread forgotten.                *)
CutForgotten(u) == <<>>

Cut(u) == IF txThread # None THEN <<txThread>> ELSE <<>>

(* Fault: the thread found late stays on the queue.                        *)
DqNot(late) == txQueue

Dq(late) == Drop(txQueue, late)

(* The pass over the link in which the time-outs of S have passed: of the  *)
(* thread in charge, of waiters, and the guardian's reception.             *)
TimeoutHandler(S) ==
  LET u    == txUser
      late == {v \in S : In(txQueue, v)}
      cut  == IF u \in S THEN Cut(u) ELSE <<>>
      deaf == IF Guardian \in S THEN <<Guardian>> ELSE <<>>
  IN
  /\ S # {}
  /\ \A v \in S : \/ v = Guardian /\ Suspended(v, "receive")
                  \/ th[v].endtime = "set" /\ (v = u \/ In(txQueue, v))
  /\ th' = [v \in Threads |->
              IF v \in late \/ v \in S \cap {Guardian} THEN [th[v] EXCEPT !.rc = "timeout"]
              ELSE IF v \in S /\ v = u
                THEN [th[v] EXCEPT !.endtime = "none", !.rc = IF txThread # None THEN "timeout" ELSE @]
                ELSE th[v]]
  /\ txThread' = IF u \in S THEN None ELSE txThread
  /\ txQueue' = Dq(late)
  /\ high' = high \o cut \o deaf \o Drop(txQueue, Threads \ late)
  /\ UNCHANGED <<flags, xoffed, txUser, sync, heard, astray>>

----------------------------------------------------------------------------
Init ==
  /\ mode = "intelligent" /\ running = TRUE /\ stopped = FALSE /\ xoffed = FALSE
  /\ txUser = None /\ txQueue = <<>> /\ txThread = None /\ sync = None
  /\ high = <<>>
  /\ th = [t \in Threads |-> IF t = Guardian THEN At("none", "receive", "none", 0) ELSE Idle]
  /\ heard = "xon" /\ astray = "no"

Continues(t) == \/ WorkerStarts(t) \/ QueueReturns(t) \/ PutContinues(t) \/ TransferEnds(t)
                \/ ReconfigureSent(t) \/ GuardianReady(t) \/ PortsCleared(t) \/ HoldContinues(t)
GuardianRuns == GuardianActs \/ GuardianTimesOut \/ MessageEnds \/ GuardianWakes

(* A thread acts on the link as its own.                                   *)
Believes(t) == \/ th[t].at \in {"tx", "stop", "sync"}
               \/ th[t].at = "queue" /\ th[t].rc = "null" /\ In(high, t)

Unseated == {t \in Threads : Believes(t) /\ txUser # t}
Holders  == {w \in Workers : th[w].job = "hold" /\ th[w].at \in {"stop", "tx"}}
Ghost    == stopped /\ Holders = {}

(* The model follows the code for as long as it has its own assumptions:   *)
(* who uses the link is TxUser, and HandleXoff() is there when its flag is *)
(* set.                                                                    *)
Sound == astray = "no" /\ Unseated = {} /\ ~Ghost

Next ==
  /\ Sound
  /\ \/ \E t \in Programs : AbortPort(t) \/ \E d \in {"none", "set"} : PutMsg(t, d)
     \/ ConfigureDumb \/ ConfigureIntelligent
     \/ \E t \in Threads : Continues(t) \/ PortsScanned(t)
     \/ GuardianRuns \/ Arrives \/ Sent \/ LowWater
     \/ \E S \in SUBSET Threads : TimeoutHandler(S)

(* The head of the HIGHPRI queue runs, and time passes for the programs    *)
(* and the processor manager.  The neighbour need neither send nor take    *)
(* anything, but a message begun is received or times out.                 *)
Fairness ==
  /\ WF_vars((GuardianRuns \/ \E t \in Threads : Continues(t)) /\ Sound)
  /\ \A t \in Programs \cup {Manager} : WF_vars(TimeoutHandler({t}) /\ Sound)
  /\ WF_vars(th[Guardian].at = "message" /\ Arrives /\ Sound)

Spec     == Init /\ [][Next]_vars
FairSpec == Spec /\ Fairness

----------------------------------------------------------------------------
TypeOK ==
  /\ mode \in {"intelligent", "dumb"}
  /\ {running, stopped, xoffed} \subseteq BOOLEAN
  /\ {txUser, txThread, sync} \subseteq Threads \cup {None}
  /\ txQueue \in Seq(Threads)
  /\ high \in Seq(Threads)
  /\ th \in [Threads -> [job : Jobs, at : Places, rc : Results,
                         endtime : {"none", "set"}, left : 0 .. 2,
                         saw : BOOLEAN]]
  /\ heard \in {"xon", "xoff", "missed"}
  /\ astray \in {"no", "xon", "flow", "configure"}

----------------------------------------------------------------------------
(* Safety.                                                                 *)

Settled == high = <<>> /\ Sound
Waiters == {t \in Threads : th[t].at = "queue" /\ ~In(high, t)}

(* The Ids on TxQueue are those of the threads that wait there, each once, *)
(* and none has been given a result: whoever takes an Id off the queue     *)
(* resumes its thread, and the other way round.                            *)
IdLive ==
  /\ Waiters = {t \in Threads : In(txQueue, t)}
  /\ \A i, k \in 1 .. Len(txQueue) : txQueue[i] = txQueue[k] => i = k
  /\ \A i, k \in 1 .. Len(high) : high[i] = high[k] => i = k
  /\ \A t \in Waiters : th[t].rc = "null"

(* JumpLink() overtakes every message: once HandleXoff() has joined the    *)
(* queue no _PutMsg() or ReadReply() gets the link before it.              *)
Urgent == Jobs \ {"put", "reply"}
UrgentFirst ==
  \A i, k \in 1 .. Len(txQueue) :
    i < k /\ th[txQueue[k]].job \in Urgent => th[txQueue[i]].job \in Urgent

(* The neighbour's Xoff is obeyed: when all is done and it has not sent    *)
(* Xon since, a HandleXoff() holds the link or is waiting to.              *)
XoffObeyed ==
  Settled /\ heard = "xoff" => \E w \in Workers : w \in Holders \/ (th[w].job = "hold" /\ In(txQueue, w))

(* When all is done a link that HandleXoff() holds is held because the     *)
(* neighbour's last word was Xoff, or because that HandleXoff() was not in *)
(* charge when the Xon came, or its flag overwritten by _Configure().      *)
StoppedByXoff ==
  Settled /\ Holders # {} => heard # "xon"

(* Xoff and Xon are both obeyed, an Xoff before any message that waits.    *)
FlowObeyed == UrgentFirst /\ XoffObeyed /\ StoppedByXoff

(* Who is woken through a pointer in the link waits there.  HandleXon()    *)
(* and FlowControl() find HandleXoff() where they suppose it, unless       *)
(* FlowControl() resumed it last or is what it sends for.                  *)
(* _Configure() finds the guardian asleep, unless a message had begun to   *)
(* arrive when the link went dumb, or the guardian itself is reconfiguring *)
(* the link: it waits for it, or is in ClearPorts().                       *)
Interrupted == {w \in Workers : th[w].job = "hold" /\ (th[w].at = "tx" \/ In(high, w))}
WakersFindIt ==
  /\ astray \in {"xon", "flow"} => Interrupted # {}
  /\ astray = "configure" => th[Guardian].at \in {"message", "queue", "clear"}

(* Link_Flags_stopped tells HandleXon(), FlowControl() and the next        *)
(* HandleXoff() that there is a HandleXoff() in charge.  The flag is left  *)
(* set without one only by a _Configure() that read it earlier.            *)
StopIsOwned ==
  [][Ghost' => \E t \in Threads : th[t].job = "dumb" /\ th[t].saw]_vars

(* Only a reconfiguration takes the link from a thread that uses it: while *)
(* the guardian serves an intelligent link, it has one user and TxUser is  *)
(* that thread's Id.                                                       *)
Served   == mode = "intelligent" /\ th[Guardian].at # "asleep"
SeatKept == [][Served /\ Served' => Unseated' = {}]_vars

(* The link as a lock (LinkLock.tla): TxUser and TxQueue change only as    *)
(* its users may expect.                                                   *)
Lock == INSTANCE LinkLock WITH owner <- txUser, queue <- txQueue, up <- Served
LockSpec == Lock!Spec

(* A thread whose transfer is cut off is resumed, unless the guardian cuts *)
(* it when the link is reconfigured.                                       *)
OnlyGuardianDrops ==
  [][Served /\ Served' /\ txThread # None /\ txThread' # txThread
       => (\E i \in 1 .. Len(high') : high'[i] = txThread)]_vars

----------------------------------------------------------------------------
(* Liveness.                                                               *)

(* A deadline that fell between two parts of a message: the rest has none. *)
Disarmed(t) == th[t].at = "tx" /\ th[t].endtime = "none" /\ th[t].rc = "null"

(* A message with a time-out is sent or given up, unless it is disarmed.   *)
TimedSendsEnd ==
  \A t \in Programs :
    th[t].job = "put" /\ th[t].endtime = "set"
      ~> th[t].job # "put" \/ Disarmed(t) \/ ~Sound

(* No program that is not disarmed keeps the link, and neither does        *)
(* _Configure(), whatever the guardian is doing meanwhile.                 *)
HolderLeaves ==
  \A t \in Programs \cup {Manager} :
    txUser = t ~> txUser # t \/ Disarmed(t) \/ ~Sound
=============================================================================
