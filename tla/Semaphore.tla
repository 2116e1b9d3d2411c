----------------------------- MODULE Semaphore -----------------------------
(***************************************************************************)
(* The kernel's semaphores (kernel/sem1.c) on top of the executive.        *)
(*                                                                         *)
(* A program either enters System() and runs one of the _ functions at     *)
(* HIGHPRI, or calls HardenedWait() at its own priority with interrupts    *)
(* off.  Event handlers call HardenedSignal().  "Semaphores should not be  *)
(* shared between hardened and non hardened versions": Hard is the set of  *)
(* semaphores used with the hardened pair, and TimedHard says whether      *)
(* programs also use TimedWait() on those, as its comment allows.          *)
(*                                                                         *)
(* The scheduling part of each step is an action of Executive, so that     *)
(* every behaviour can be checked to be one of the executive's.            *)
(***************************************************************************)
EXTENDS Executive

CONSTANTS
  Sems,      \* the semaphores
  Hard,      \* those used with HardenedWait() and HardenedSignal()
  TimedHard, \* whether TimedWait() is used on the semaphores in Hard
  MaxCount   \* bound of the model: no semaphore is signalled beyond it

ASSUME HardAssumption  == Hard \subseteq Sems /\ TimedHard \in BOOLEAN
NoSem == "no semaphore"

ASSUME CountAssumption == MaxCount \in Nat
ASSUME NoSemAssumption == NoSem \notin Sems

VARIABLES
  Count,    \* Semaphore.Count
  waiters,  \* Semaphore.Head .. Tail: the threads whose Id is on the list
  waitsOn,  \* the semaphore whose TimedWait() a thread has suspended in
  rc,       \* Id.rc, as the result of the thread's last wait
  stopping  \* the threads in SignalStop() that have signalled

semState == <<Count, waiters, waitsOn, rc, stopping>>
semvars  == <<vars, semState>>

----------------------------------------------------------------------------
(* The bodies of the functions.                                            *)

Decrement(s) == Count' = [Count EXCEPT ![s] = @ - 1]
Increment(s) == Count[s] < MaxCount /\ Count' = [Count EXCEPT ![s] = @ + 1]
Queue(t, s)  == waiters' = [waiters EXCEPT ![s] = Append(@, t)]
Dequeue(s)   == waiters' = [waiters EXCEPT ![s] = Tail(@)]
Returns(t, v) == rc' = [rc EXCEPT ![t] = v]

(* A wait that finds a unit.                                               *)
Obtain(t, s) ==
  /\ Count[s] > 0
  /\ SystemPlain(t)
  /\ Decrement(s)
  /\ Returns(t, "true")
  /\ UNCHANGED <<waiters, waitsOn, stopping>>

Wait(t, s) ==
  \/ Obtain(t, s)
  \/ /\ Count[s] <= 0
     /\ SystemSuspend(t)
     /\ Queue(t, s)
     /\ Returns(t, "true")
     /\ UNCHANGED <<Count, waitsOn, stopping>>

(* TimedWait() with a time-out of zero is TestWait(), with -1 it is Wait().*)
TestWait(t, s) ==
  \/ Obtain(t, s)
  \/ /\ Count[s] <= 0
     /\ SystemPlain(t)
     /\ Returns(t, "false")
     /\ UNCHANGED <<Count, waiters, waitsOn, stopping>>

TimedWait(t, s, d) ==
  \/ Obtain(t, s)
  \/ /\ Count[s] <= 0
     /\ TimedSuspend(t, d)
     /\ Queue(t, s)
     /\ Returns(t, "true")
     /\ waitsOn' = [waitsOn EXCEPT ![t] = s]
     /\ UNCHANGED <<Count, stopping>>

(* Fault: a timed-out thread leaves its Id on the list.                    *)
TimedWaitNoUnlink(t) ==
  /\ At(t, "return")
  /\ waitsOn[t] # NoSem
  /\ Returns(t, IF TimedWaitUtil[t] THEN "true" ELSE "false")
  /\ waitsOn' = [waitsOn EXCEPT ![t] = NoSem]
  /\ UNCHANGED <<vars, waiters, Count, stopping>>

(* The rest of TimedWait(), when TimedSuspend() has returned.              *)
TimedWaitReturns(t) ==
  /\ At(t, "return")
  /\ waitsOn[t] # NoSem
  /\ waiters' = IF TimedWaitUtil[t] THEN waiters
                ELSE [waiters EXCEPT ![waitsOn[t]] = Without(@, t)]
  /\ Returns(t, IF TimedWaitUtil[t] THEN "true" ELSE "false")
  /\ waitsOn' = [waitsOn EXCEPT ![t] = NoSem]
  /\ UNCHANGED <<vars, Count, stopping>>

Signal(t, s) ==
  /\ IF Count[s] >= 0 /\ waiters[s] # <<>>
       THEN ResumeBy(t, Head(waiters[s])) /\ Dequeue(s) /\ UNCHANGED Count
       ELSE SystemPlain(t) /\ Increment(s) /\ UNCHANGED waiters
  /\ UNCHANGED <<waitsOn, rc>>

SignalStop(t, s) == Signal(t, s) /\ stopping' = stopping \cup {t}

HardenedWait(t, s) ==
  /\ At(t, "user")
  /\ IF Count[s] <= 0 THEN Suspend(t) /\ Queue(t, s)
                      ELSE UNCHANGED <<vars, waiters>>
  /\ Decrement(s)
  /\ Returns(t, "true")
  /\ UNCHANGED <<waitsOn, stopping>>

(* Fault: wakes a waiter only when the count reaches one.                  *)
HardenedSignalLate(s) ==
  /\ Increment(s)
  /\ IF Count[s] = 0 /\ waiters[s] # <<>> THEN IntrResume(Head(waiters[s])) /\ Dequeue(s)
                     ELSE DeviceInterrupt /\ UNCHANGED waiters
  /\ UNCHANGED <<waitsOn, rc, stopping>>

HardenedSignal(s) ==
  /\ Increment(s)
  /\ IF Count[s] < 0 THEN IntrResume(Head(waiters[s])) /\ Dequeue(s)
                     ELSE DeviceInterrupt /\ UNCHANGED waiters
  /\ UNCHANGED <<waitsOn, rc, stopping>>

----------------------------------------------------------------------------
(* What a thread does.                                                     *)

Enter(t) ==
  /\ SystemEnter(t)
  /\ Returns(t, "none")
  /\ UNCHANGED <<Count, waiters, waitsOn, stopping>>

(* The body of System()'s function, or an unrelated one.                   *)
Body(t) ==
  \/ SystemPlain(t) /\ UNCHANGED semState
  \/ \E s \in Sems \ Hard :
       \/ Wait(t, s) \/ TestWait(t, s) \/ SignalStop(t, s)
       \/ Signal(t, s) /\ UNCHANGED stopping
  \/ \E s \in IF TimedHard THEN Sems ELSE Sems \ Hard, d \in 1 .. MaxSleep : TimedWait(t, s, d)

Leave(t) ==
  /\ waitsOn[t] = NoSem
  /\ IF t \in stopping THEN StopBegin(t) ELSE SystemReturn(t)
  /\ UNCHANGED semState

SemKernel(t) == \/ Body(t) \/ TimedWaitReturns(t) \/ Leave(t)
                \/ StopEnd(t) /\ UNCHANGED semState

SemInit ==
  /\ Init
  /\ Count \in [Sems -> 0 .. MaxCount]
  /\ waiters  = [s \in Sems |-> <<>>]
  /\ waitsOn  = [t \in Threads |-> NoSem]
  /\ rc       = [t \in Threads |-> "none"]
  /\ stopping = {}

Elsewhere == (IdleScan \/ Boot \/ TimerInterrupt) /\ UNCHANGED semState

SemNext ==
  \/ Elsewhere
  \/ \E s \in Hard : HardenedSignal(s)
  \/ \E t \in Threads : \/ Enter(t) \/ SemKernel(t)
                        \/ \E s \in Hard : HardenedWait(t, s)

SemFairness == /\ WF_semvars(Elsewhere /\ TimerInterrupt)
               /\ WF_semvars(Elsewhere /\ (IdleScan \/ Boot))
               /\ \A t \in Threads : WF_semvars(SemKernel(t))

SemSpec     == SemInit /\ [][SemNext]_semvars
SemFairSpec == SemSpec /\ SemFairness

----------------------------------------------------------------------------
SemTypeOK ==
  /\ TypeOK
  /\ Count \in [Sems -> Int]
  /\ waiters \in [Sems -> Seq(Threads)]
  /\ waitsOn \in [Threads -> Sems \cup {NoSem}]
  /\ rc \in [Threads -> {"none", "true", "false"}]
  /\ stopping \subseteq Threads

(* An Id lives on the stack of its wait: a thread whose Id is on a list is *)
(* suspended in that wait, or its TimedWait() is about to unlink it.       *)
IdLive ==
  \A s \in Sems : \A i \in 1 .. Len(waiters[s]) :
    LET t == waiters[s][i] IN
    IF waitsOn[t] = NoSem THEN status[t] = "semaphore" ELSE waitsOn[t] = s

(* The hardened pair counts its waiters: a negative count is their number. *)
HardCount ==
  \A s \in Hard : Len(waiters[s]) = IF Count[s] < 0 THEN -Count[s] ELSE 0

(* A unit is never kept while a thread waits for one ("The definition is   *)
(* that Wait must return as soon as the count may be decremented to yield  *)
(* a non-negative value").                                                 *)
NoIdleUnits == \A s \in Sems : Count[s] > 0 => waiters[s] = <<>>

(* The count tells truly who waits and what is there to be had.            *)
CountTrue == HardCount /\ NoIdleUnits

(* The kernel calls only Resume() threads that are suspended, and every    *)
(* other rule of the executive: each behaviour is one of the executive's.  *)
ImplementsExecutive == Spec

(* The semaphores hand out each unit once, in order of arrival, and tell   *)
(* their caller truly whether it got one, however time-outs, signals and   *)
(* the dispatching of the timed-out thread interleave.                     *)
Queued(t) == \E s \in Sems : In(waiters[s], t)

Abstract == INSTANCE CountingSemaphore WITH
  avail   <- [s \in Sems |-> IF Count[s] > 0 THEN Count[s] ELSE 0],
  queue   <- waiters,
  outcome <- [t \in Threads |-> IF Queued(t) THEN "waiting"
                                ELSE CASE rc[t] = "true"  -> "got"
                                       [] rc[t] = "false" -> "failed"
                                       [] OTHER           -> "none"]

ImplementsCounting == Abstract!CSpec

(* A TimedWait() ends, with a unit or without, unless a thread started at  *)
(* HIGHPRI keeps the processor.                                            *)
TimedWaitEnds ==
  \A t \in Threads : waitsOn[t] # NoSem ~> waitsOn[t] = NoSem \/ \E u \in Threads : HighProgram(u)
=============================================================================
