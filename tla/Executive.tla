----------------------------- MODULE Executive -----------------------------
(***************************************************************************)
(* The thread executive under the Helios kernel: kernel/gslice.c and       *)
(* kernel/gexec.c, with the timer interrupt handlers of the two processors *)
(* it was ported to (kernel/C40/c40intr.a and kernel/ARM/armslice.a).      *)
(*                                                                         *)
(* One processor runs one thread at a time.  A runnable thread is on the   *)
(* FIFO run queue of its priority; a sleeping one is on the timer queue;   *)
(* any other suspended one is held by whoever will Resume() it.  HIGHPRI   *)
(* threads run until they block: only a thread at a lower priority can be  *)
(* interrupted, so a kernel call, which System() runs at HIGHPRI, is an    *)
(* atomic step here, and interrupts fall between the steps.                *)
(*                                                                         *)
(* HighestAvailPri is a hint: the dispatcher starts scanning the run       *)
(* queues at it, so a thread queued at a higher priority than the hint     *)
(* would be passed over.                                                   *)
(*                                                                         *)
(* A value nothing reads any more (a local of a call that has returned,    *)
(* the wake-up time of a thread off the timer queue) goes back to its      *)
(* initial value, to keep the state space small.                           *)
(***************************************************************************)
EXTENDS Integers, Sequences, FiniteSets, Lists

CONSTANTS
  Threads,        \* the threads that may be created
  Initial,        \* the boot thread: it has no SaveState (CurrentSaveArea NULL)
  Idle,           \* the dispatcher's idle loop
  PRIORITYLEVELS, \* number of priorities; 0 is the highest
  TicksPerSlice,  \* clock ticks in a time slice
  ClockSize,      \* number of values of the clock word (2^32 in the code)
  MaxSleep,       \* longest delay, in clock ticks
  Handler         \* whose timer interrupt handler is installed: "C40" or "ARM"

ASSUME ThreadsAssumption == Initial \notin Threads /\ Idle \notin Threads /\ Initial # Idle
ASSUME LevelsAssumption  == PRIORITYLEVELS \in Nat \ {0, 1}
ASSUME SliceAssumption   == TicksPerSlice \in Nat \ {0}
ASSUME ClockAssumption   == /\ ClockSize \in Nat \ {0}
                            /\ MaxSleep \in Nat \ {0}
                            /\ MaxSleep < ClockSize
ASSUME HandlerAssumption == Handler \in {"C40", "ARM"}

HIGHPRI    == 0
Priorities == 0 .. PRIORITYLEVELS - 1

Status == {"none", "startup", "sliced", "runnable", "running", "killed",
           "sleep", "timedwait", "semaphore"}

(* Where a thread is in its own code: in a program, inside System() before *)
(* or after the called function, copying a message for it below HIGHPRI,   *)
(* in SetPhysPri() between its stores (called by a program, or to leave or *)
(* return to HIGHPRI for a copy), in EnterProcess() with CurrentPri raised,*)
(* in Stop() before the dispatch, or gone.                                 *)
Places == {"user", "system", "copy", "setpri", "lower", "raise", "return", "create",
           "stop", "gone"}

VARIABLES
  runq,            \* ExecRoot.Queues: priority -> sequence of threads
  timerq,          \* ExecRoot.TimerQ
  Timer,           \* ExecRoot.Timer
  SliceTime,       \* ExecRoot.SliceTime
  current,         \* whose SaveState ExecRoot.CurrentSaveArea is
  CurrentPri,      \* ExecRoot.CurrentPri
  HighestAvailPri, \* ExecRoot.HighestAvailPri
  status,          \* SaveState.status
  priority,        \* SaveState.priority
  endtime,         \* SaveState.endtime
  TimedWaitUtil,   \* SaveState.TimedWaitUtil
  place,           \* where each thread is in its code
  oldpri,          \* System()'s and EnterProcess()'s saved CurrentPri
  setting,         \* SetPhysPri()'s saved CurrentPri and its argument
  remaining        \* history: ticks left of the delay a thread asked for

queues  == <<runq, timerq, HighestAvailPri>>
clock   == <<Timer, endtime, remaining>>
cpu     == <<current, CurrentPri, SliceTime>>
threads == <<status, priority, TimedWaitUtil, place, oldpri, setting>>
vars    == <<queues, clock, cpu, threads>>

----------------------------------------------------------------------------
(* Clock arithmetic.  The clock is one machine word and wraps.             *)

Signed(v)   == IF 2 * v < ClockSize THEN v ELSE v - ClockSize
After(x, y) == Signed((y - x) % ClockSize) < 0

(* The handlers' test of a thread's wake-up time against the clock: the    *)
(* C40 looks at the sign of the difference, the ARM compares the two words.*)
(* The ARM's test, and a fault for the C40.                                *)
DueCompared(end, now) == Signed(end) <= Signed(now)

Due(end, now) == IF Handler = "C40" THEN ~After(end, now)
                                    ELSE DueCompared(end, now)

Lower(a, b) == IF a < b THEN a ELSE b

On(qs, t)  == \E p \in Priorities : In(qs[p], t)
OnRunq(t)  == On(runq, t)
OnTimer(t) == In(timerq, t)

----------------------------------------------------------------------------
(* The dispatcher.  The operands are the run queues, statuses and hint at  *)
(* the time of the call.                                                   *)

FirstAvail(q, hint, p) == /\ p >= hint
                          /\ q[p] # <<>>
                          /\ \A r \in Priorities : hint <= r /\ r < p => q[r] = <<>>

Dispatch(q, st, hint) ==
  \/ \E p \in Priorities :
       /\ FirstAvail(q, hint, p)
       /\ current'         = Head(q[p])
       /\ runq'            = [q EXCEPT ![p] = Tail(@)]
       /\ status'          = [st EXCEPT ![Head(q[p])] = "running"]
       /\ CurrentPri'      = p
       /\ HighestAvailPri' = p
       /\ SliceTime'       = TicksPerSlice
  \/ /\ \A p \in Priorities : p >= hint => q[p] = <<>>
     /\ current'         = Idle
     /\ runq'            = q
     /\ status'          = st
     /\ CurrentPri'      = HIGHPRI
     /\ HighestAvailPri' = HIGHPRI
     /\ UNCHANGED SliceTime

(* The idle loop lets an interrupt in and scans the queues again.          *)
IdleScan ==
  /\ current = Idle
  /\ \E p \in Priorities : runq[p] # <<>>
  /\ Dispatch(runq, status, HighestAvailPri)
  /\ UNCHANGED <<timerq, clock, priority, TimedWaitUtil, place, oldpri, setting>>

(* Yield() at priority pri with the given hint: the boot thread, and a     *)
(* HIGHPRI thread alone at its priority, keep the processor.               *)
YieldKeeps(pri) == current = Initial \/ (pri = HIGHPRI /\ runq[HIGHPRI] = <<>>)

YieldAt(pri, hint) ==
  Dispatch([runq EXCEPT ![pri] = Append(@, current)],
           [status EXCEPT ![current] = "runnable"], hint)

----------------------------------------------------------------------------
(* Resume() and IntrResume().  A thread in TimedSuspend() also leaves the  *)
(* timer queue; if its time ran out it is on a run queue already and is    *)
(* only told that it was resumed.                                          *)

(* Fault: forgets that a timed-out thread is on a run queue already.       *)
NeverTimedOut(u) == FALSE

TimedOut(u) == status[u] = "timedwait" /\ ~OnTimer(u)

Without(q, u) ==
  IF In(q, u) THEN LET i == CHOOSE i \in 1 .. Len(q) : q[i] = u
                   IN  SubSeq(q, 1, i - 1) \o SubSeq(q, i + 1, Len(q))
              ELSE q

(* Fault: leaves the hint to the dispatcher.                               *)
UnchangedHint(u) == HighestAvailPri

ResumedStatus(u) == [status EXCEPT ![u] = IF @ = "startup" THEN @ ELSE "runnable"]
ResumedRunq(u)   == IF TimedOut(u) THEN runq
                    ELSE [runq EXCEPT ![priority[u]] = Append(@, u)]
ResumedHint(u)   == IF TimedOut(u) THEN HighestAvailPri
                    ELSE Lower(priority[u], HighestAvailPri)

(* Fault: a thread whose time ran out before the signal is told so.        *)
UntimedOnTimer(u) ==
  /\ timerq' = IF status[u] = "timedwait" THEN Without(timerq, u) ELSE timerq
  /\ TimedWaitUtil' = [TimedWaitUtil EXCEPT ![u] = @ \/ OnTimer(u)]
  /\ endtime'   = [endtime EXCEPT ![u] = 0]
  /\ remaining' = [remaining EXCEPT ![u] = 0]
  /\ UNCHANGED Timer

Untimed(u) ==
  /\ timerq' = IF status[u] = "timedwait" THEN Without(timerq, u) ELSE timerq
  /\ TimedWaitUtil' = [TimedWaitUtil EXCEPT ![u] = @ \/ status[u] = "timedwait"]
  /\ endtime'   = [endtime EXCEPT ![u] = 0]
  /\ remaining' = [remaining EXCEPT ![u] = 0]
  /\ UNCHANGED Timer

Resume(u) ==
  /\ Untimed(u)
  /\ status'          = ResumedStatus(u)
  /\ runq'            = ResumedRunq(u)
  /\ HighestAvailPri' = ResumedHint(u)

Suspended(u) == status[u] \in {"semaphore", "timedwait"}

----------------------------------------------------------------------------
(* Kernel calls: System() raises the caller to HIGHPRI, runs a function,   *)
(* and on return gives way to any thread of a higher priority.             *)

At(t, pl) == current = t /\ place[t] = pl

SystemEnter(t) ==
  /\ At(t, "user")
  /\ oldpri'     = [oldpri EXCEPT ![t] = CurrentPri]
  /\ CurrentPri' = HIGHPRI
  /\ priority'   = [priority EXCEPT ![t] = HIGHPRI]
  /\ place'      = [place EXCEPT ![t] = "system"]
  /\ UNCHANGED <<queues, clock, current, SliceTime, status, TimedWaitUtil, setting>>

(* Fault: returns without looking for threads of a higher priority.        *)
SystemReturnNoYield(t) ==
  /\ At(t, "return")
  /\ priority'   = [priority EXCEPT ![t] = oldpri[t]]
  /\ CurrentPri' = oldpri[t]
  /\ place'      = [place EXCEPT ![t] = "user"]
  /\ oldpri'     = [oldpri EXCEPT ![t] = HIGHPRI]
  /\ UNCHANGED <<queues, clock, current, SliceTime, status, TimedWaitUtil, setting>>

SystemReturn(t) ==
  /\ At(t, "return")
  /\ priority' = [priority EXCEPT ![t] = oldpri[t]]
  /\ place'    = [place EXCEPT ![t] = "user"]
  /\ IF HighestAvailPri < oldpri[t]
       THEN YieldAt(oldpri[t], HighestAvailPri)
       ELSE /\ CurrentPri' = oldpri[t]
            /\ UNCHANGED <<runq, HighestAvailPri, current, SliceTime, status>>
  /\ oldpri' = [oldpri EXCEPT ![t] = HIGHPRI]
  /\ UNCHANGED <<timerq, clock, TimedWaitUtil, setting>>

(* The called function needs no scheduling.                                *)
SystemPlain(t) ==
  /\ At(t, "system")
  /\ place' = [place EXCEPT ![t] = "return"]
  /\ UNCHANGED <<queues, clock, cpu, status, priority, TimedWaitUtil, oldpri, setting>>

(* ... it suspends its caller ...                                          *)
SystemSuspend(t) ==
  /\ At(t, "system")
  /\ place' = [place EXCEPT ![t] = "return"]
  /\ Dispatch(runq, [status EXCEPT ![t] = "semaphore"], HighestAvailPri)
  /\ UNCHANGED <<timerq, clock, priority, TimedWaitUtil, oldpri, setting>>

(* ... or resumes a suspended thread.                                      *)
ResumeBy(t, u) ==
  /\ At(t, "system")
  /\ Resume(u)
  /\ place' = [place EXCEPT ![t] = "return"]
  /\ UNCHANGED <<cpu, priority, oldpri, setting>>

SystemResume(t) == \E u \in Threads : Suspended(u) /\ ResumeBy(t, u)

SystemYield(t) ==
  /\ At(t, "system")
  /\ place' = [place EXCEPT ![t] = "return"]
  /\ IF YieldKeeps(HIGHPRI)
       THEN UNCHANGED <<runq, HighestAvailPri, cpu, status>>
       ELSE YieldAt(HIGHPRI, HighestAvailPri)
  /\ UNCHANGED <<timerq, clock, priority, TimedWaitUtil, oldpri, setting>>

(* SetPhysPri() first changes the priority the processor runs at: from now *)
(* on an interrupt queues the thread by its new priority.  One between the *)
(* other two stores finds nothing else, so they are one step, SetPriEnd.   *)
NotSetting == [old |-> HIGHPRI, pri |-> HIGHPRI]

SetPri(t, p, pl) ==
  /\ setting'    = [setting EXCEPT ![t] = [old |-> CurrentPri, pri |-> p]]
  /\ CurrentPri' = p
  /\ place'      = [place EXCEPT ![t] = pl]
  /\ UNCHANGED <<queues, clock, current, SliceTime, status, priority, TimedWaitUtil, oldpri>>

(* PutMsg() and GetMsg() copy a message just below HIGHPRI.                *)
CopyBegin(t) == At(t, "system") /\ SetPri(t, HIGHPRI + 1, "lower")
CopyEnd(t)   == At(t, "copy") /\ SetPri(t, HIGHPRI, "raise")

Setters == {t \in Threads : place[t] \in {"setpri", "lower", "raise"}}

AfterSetPri(pl) == CASE pl = "setpri" -> "user" [] pl = "lower" -> "copy" [] OTHER -> "system"

(* It then records the priority and, if that was lowered, gives way.       *)
(* Fault: changes the processor's priority and not the thread's record.    *)
ToRecordNothing(t) == priority[t]

ToRecord(t) == setting[t].pri

SetPriEnd(t) ==
  LET hint == Lower(setting[t].pri, HighestAvailPri) IN
  /\ current = t /\ t \in Setters
  /\ priority' = [priority EXCEPT ![t] = ToRecord(t)]
  /\ place'    = [place EXCEPT ![t] = AfterSetPri(@)]
  /\ setting'  = [setting EXCEPT ![t] = NotSetting]
  /\ IF setting[t].old < setting[t].pri
       THEN YieldAt(CurrentPri, hint)
       ELSE HighestAvailPri' = hint /\ UNCHANGED <<runq, cpu, status>>
  /\ UNCHANGED <<timerq, clock, TimedWaitUtil, oldpri>>

(* Sleep(): the timer queue is in order of wake-up time.                   *)
InsertTimed(q, t, end) ==
  IF q = <<>> \/ After(endtime[q[1]], end)
  THEN <<t>> \o q
  ELSE LET stop == {i \in 2 .. Len(q) : ~After(end, endtime[q[i]])}
           at   == IF stop = {} THEN Len(q) + 1
                   ELSE CHOOSE i \in stop : \A j \in stop : i <= j
       IN  SubSeq(q, 1, at - 1) \o <<t>> \o SubSeq(q, at, Len(q))

SleepAs(t, why, d) ==
  LET end == (Timer + d) % ClockSize IN
  /\ At(t, "system")
  /\ timerq'    = InsertTimed(timerq, t, end)
  /\ endtime'   = [endtime EXCEPT ![t] = end]
  /\ remaining' = [remaining EXCEPT ![t] = d]
  /\ place'     = [place EXCEPT ![t] = "return"]
  /\ Dispatch(runq, [status EXCEPT ![t] = why], HighestAvailPri)
  /\ UNCHANGED <<Timer, priority, oldpri, setting>>

Sleep(t, d) == SleepAs(t, "sleep", d) /\ UNCHANGED TimedWaitUtil

TimedSuspend(t, d) ==
  /\ SleepAs(t, "timedwait", d)
  /\ TimedWaitUtil' = [TimedWaitUtil EXCEPT ![t] = FALSE]

----------------------------------------------------------------------------
(* Calls a program makes at its own priority.                              *)

(* HardenedWait() suspends without System(), with interrupts off.          *)
Suspend(t) ==
  /\ At(t, "user")
  /\ Dispatch(runq, [status EXCEPT ![t] = "semaphore"], HighestAvailPri)
  /\ UNCHANGED <<timerq, clock, priority, TimedWaitUtil, place, oldpri, setting>>

(* LogToPhysPri() keeps programs off HIGHPRI.                              *)
SetPhysPri(t, p) ==
  /\ At(t, "user")
  /\ p # HIGHPRI
  /\ SetPri(t, p, "setpri")

(* EnterProcess() raises CurrentPri itself and does not yield afterwards.  *)
(* The boot thread, at HIGHPRI throughout, enters the first threads.       *)
EnterBegin(t) ==
  /\ At(t, "user")
  /\ \E u \in Threads : status[u] = "none"
  /\ oldpri'     = [oldpri EXCEPT ![t] = CurrentPri]
  /\ CurrentPri' = HIGHPRI
  /\ place'      = [place EXCEPT ![t] = "create"]
  /\ UNCHANGED <<queues, clock, current, SliceTime, status, priority, TimedWaitUtil, setting>>

Start(u, p) ==
  /\ status[u]       = "none"
  /\ status'         = [status EXCEPT ![u] = "startup"]
  /\ priority'       = [priority EXCEPT ![u] = p]
  /\ runq'           = [runq EXCEPT ![p] = Append(@, u)]
  /\ HighestAvailPri' = Lower(p, HighestAvailPri)
  /\ UNCHANGED <<timerq, clock, current, SliceTime, TimedWaitUtil>>

EnterEnd(t, u, p) ==
  /\ At(t, "create")
  /\ Start(u, p)
  /\ CurrentPri' = oldpri[t]
  /\ oldpri'     = [oldpri EXCEPT ![t] = HIGHPRI]
  /\ place'      = [place EXCEPT ![t] = "user"]
  /\ UNCHANGED setting

BootEnter(u, p) ==
  /\ current = Initial
  /\ Start(u, p)
  /\ UNCHANGED <<CurrentPri, place, oldpri, setting>>

(* Stop(): the thread is marked killed and, interrupts permitting, gives   *)
(* up the processor for good.                                              *)
StopBegin(t) ==
  /\ place[t] \in {"user", "return"}
  /\ current = t
  /\ status' = [status EXCEPT ![t] = "killed"]
  /\ place'  = [place EXCEPT ![t] = "stop"]
  /\ UNCHANGED <<queues, clock, cpu, priority, TimedWaitUtil, oldpri, setting>>

StopEnd(t) ==
  /\ At(t, "stop")
  /\ place' = [place EXCEPT ![t] = "gone"]
  /\ Dispatch(runq, status, HighestAvailPri)
  /\ UNCHANGED <<timerq, clock, priority, TimedWaitUtil, oldpri, setting>>

BootStop ==
  /\ current = Initial
  /\ Dispatch(runq, status, HighestAvailPri)
  /\ UNCHANGED <<timerq, clock, priority, TimedWaitUtil, place, oldpri, setting>>

----------------------------------------------------------------------------
(* Interrupts.                                                             *)

(* The handler preempts: the current thread goes to the tail of the queue  *)
(* of CurrentPri.                                                          *)
Slice(q, st, hint) ==
  Dispatch([q EXCEPT ![CurrentPri] = Append(@, current)],
           [st EXCEPT ![current] = "sliced"], hint)

Continue(q, st, hint, ticks) ==
  /\ runq'            = q
  /\ status'          = st
  /\ HighestAvailPri' = hint
  /\ SliceTime'       = ticks
  /\ UNCHANGED <<current, CurrentPri>>

(* The timer handlers once any thread has been woken.  The C40 preempts    *)
(* whenever the hint says so; the ARM only for the thread it just woke,    *)
(* and when the slice has run out it slices without looking for company.   *)
(* Fault: a thread alone at its priority goes on with its expired slice.   *)
AfterWakeupsNoReload(q, st, hint, preempt) ==
  IF CurrentPri = HIGHPRI THEN Continue(q, st, hint, SliceTime)
  ELSE IF hint < CurrentPri THEN Slice(q, st, hint)
  ELSE Continue(q, st, hint, SliceTime - 1)

AfterWakeups(q, st, hint, preempt) ==
  LET ticks  == SliceTime - 1
      sooner == IF Handler = "C40" THEN hint < CurrentPri ELSE preempt
      alone  == Handler = "C40" /\ q[CurrentPri] = <<>>
  IN  \/ /\ CurrentPri = HIGHPRI
         /\ Continue(q, st, hint, SliceTime)
      \/ /\ CurrentPri # HIGHPRI /\ sooner
         /\ Slice(q, st, hint)
      \/ /\ CurrentPri # HIGHPRI /\ ~sooner /\ ticks > 0
         /\ Continue(q, st, hint, ticks)
      \/ /\ CurrentPri # HIGHPRI /\ ~sooner /\ ticks <= 0 /\ alone
         /\ Continue(q, st, hint, TicksPerSlice)
      \/ /\ CurrentPri # HIGHPRI /\ ~sooner /\ ticks <= 0 /\ ~alone
         /\ Slice(q, st, hint)

(* The hint after thread u has been woken: the C40 compares u's priority   *)
(* with the hint, the ARM with the priority of the running thread.         *)
(* The ARM's rule, and a fault for the C40.                                *)
HintAfterWakeCurrent(u) ==
  IF priority[u] < CurrentPri THEN priority[u] ELSE HighestAvailPri

HintAfterWake(u) ==
  IF Handler = "C40" THEN Lower(priority[u], HighestAvailPri)
  ELSE HintAfterWakeCurrent(u)

Tick ==
  /\ Timer'     = (Timer + 1) % ClockSize
  /\ remaining' = [t \in Threads |-> IF OnTimer(t) THEN remaining[t] - 1 ELSE 0]
  /\ UNCHANGED <<priority, TimedWaitUtil, place, oldpri, setting>>

(* At most one sleeper is woken by each tick.  A timed-out TimedSuspend()  *)
(* keeps its status, which is how Resume() recognises it.                  *)
HeadDue == timerq # <<>> /\ Due(endtime[Head(timerq)], (Timer + 1) % ClockSize)

TimerWake ==
  /\ HeadDue
  /\ LET u == Head(timerq) IN
     /\ timerq'  = Tail(timerq)
     /\ endtime' = [endtime EXCEPT ![u] = 0]
     /\ AfterWakeups([runq EXCEPT ![priority[u]] = Append(@, u)],
                     [status EXCEPT ![u] = IF @ = "timedwait" THEN @ ELSE "runnable"],
                     HintAfterWake(u),
                     priority[u] < CurrentPri)
  /\ Tick

TimerNoWake ==
  /\ ~HeadDue
  /\ AfterWakeups(runq, status, HighestAvailPri, FALSE)
  /\ Tick
  /\ UNCHANGED <<timerq, endtime>>

TimerInterrupt == TimerWake \/ TimerNoWake

(* The common exit of the interrupt handlers preempts if a thread of a     *)
(* higher priority is available, whoever made it so.                       *)
IntrExit(q, st, hint) ==
  IF hint < CurrentPri THEN Slice(q, st, hint)
                       ELSE Continue(q, st, hint, SliceTime)

DeviceInterrupt ==
  /\ IntrExit(runq, status, HighestAvailPri)
  /\ UNCHANGED <<timerq, clock, priority, TimedWaitUtil, place, oldpri, setting>>

(* A device handler may call IntrResume().                                 *)
IntrResume(u) ==
  /\ Untimed(u)
  /\ IntrExit(ResumedRunq(u), ResumedStatus(u), ResumedHint(u))
  /\ UNCHANGED <<priority, place, oldpri, setting>>

DeviceResume(u) == Suspended(u) /\ IntrResume(u)

----------------------------------------------------------------------------
(* ExecInit(): the boot thread runs at HIGHPRI and nothing is queued.      *)
Init ==
  /\ runq            = [p \in Priorities |-> <<>>]
  /\ timerq          = <<>>
  /\ Timer           = 0
  /\ SliceTime       = TicksPerSlice
  /\ current         = Initial
  /\ CurrentPri      = HIGHPRI
  /\ HighestAvailPri = HIGHPRI
  /\ status          = [t \in Threads |-> "none"]
  /\ priority        = [t \in Threads |-> HIGHPRI]
  /\ endtime         = [t \in Threads |-> 0]
  /\ TimedWaitUtil   = [t \in Threads |-> FALSE]
  /\ place           = [t \in Threads |-> "user"]
  /\ oldpri          = [t \in Threads |-> HIGHPRI]
  /\ setting         = [t \in Threads |-> NotSetting]
  /\ remaining       = [t \in Threads |-> 0]

InSystem(t) == \/ SystemPlain(t) \/ SystemSuspend(t) \/ SystemResume(t) \/ SystemYield(t)
               \/ CopyBegin(t) \/ CopyEnd(t)
               \/ \E d \in 1 .. MaxSleep : Sleep(t, d) \/ TimedSuspend(t, d)

(* What the kernel's own code goes on to do once it has the processor.     *)
Kernel(t) == \/ InSystem(t) \/ SystemReturn(t) \/ SetPriEnd(t) \/ StopEnd(t)
             \/ \E u \in Threads, p \in Priorities : EnterEnd(t, u, p)

(* What a program chooses to do.                                           *)
Program(t) == \/ SystemEnter(t) \/ Suspend(t) \/ EnterBegin(t) \/ StopBegin(t)
              \/ \E p \in Priorities : SetPhysPri(t, p)

Boot == BootStop \/ \E u \in Threads, p \in Priorities : BootEnter(u, p)

Next == \/ IdleScan \/ Boot \/ TimerInterrupt \/ DeviceInterrupt
        \/ \E t \in Threads : Kernel(t) \/ Program(t) \/ DeviceResume(t)

(* The clock keeps ticking, a kernel call is finite, and the idle loop     *)
(* looks again at the queues.  Nothing is assumed of programs.             *)
Fairness == /\ WF_vars(TimerInterrupt)
            /\ WF_vars(IdleScan)
            /\ WF_vars(Boot)
            /\ \A t \in Threads : WF_vars(Kernel(t))

Spec     == Init /\ [][Next]_vars
FairSpec == Spec /\ Fairness

----------------------------------------------------------------------------
TypeOK ==
  /\ runq \in [Priorities -> Seq(Threads)]
  /\ timerq \in Seq(Threads)
  /\ Timer \in 0 .. ClockSize - 1
  /\ SliceTime \in 1 .. TicksPerSlice
  /\ current \in Threads \cup {Initial, Idle}
  /\ CurrentPri \in Priorities
  /\ HighestAvailPri \in Priorities
  /\ status \in [Threads -> Status]
  /\ priority \in [Threads -> Priorities]
  /\ endtime \in [Threads -> 0 .. ClockSize - 1]
  /\ TimedWaitUtil \in [Threads -> BOOLEAN]
  /\ place \in [Threads -> Places]
  /\ oldpri \in [Threads -> Priorities]
  /\ setting \in [Threads -> [old : Priorities, pri : Priorities]]
  /\ remaining \in [Threads -> Int]

(* The dispatcher's hint never hides a runnable thread: every run queue    *)
(* above HighestAvailPri is empty.                                         *)
HintSound == \A p \in Priorities : p < HighestAvailPri => runq[p] = <<>>

(* A thread is in one place: it is running, or once on one run queue, or   *)
(* once on the timer queue, or on none of them; and its status says which. *)
Apart(qs) == \A p, r \in Priorities, t \in Threads : In(qs[p], t) /\ In(qs[r], t) => p = r
QueuedByStatus ==
  \A t \in Threads :
    /\ OnRunq(t)    => status[t] \in {"startup", "sliced", "runnable", "timedwait"}
    /\ OnTimer(t)   => status[t] \in {"sleep", "timedwait"} /\ ~OnRunq(t)
    /\ current = t  => status[t] \in {"running", "killed"}
    /\ status[t] \in {"startup", "sliced", "runnable"} => OnRunq(t)
    /\ status[t] = "sleep" => OnTimer(t)
    /\ status[t] = "timedwait" => OnTimer(t) \/ OnRunq(t)
OnePlace == /\ Once(timerq) /\ Apart(runq) /\ QueuedByStatus
            /\ \A p \in Priorities : Once(runq[p])

(* A queued thread is on the run queue of its recorded priority, and the   *)
(* running thread's recorded priority is the one the processor runs at,    *)
(* except inside SetPhysPri(), where an interrupt has queued the thread by *)
(* the priority it is setting and the record is still the old one, and     *)
(* while EnterProcess() has raised only CurrentPri.                        *)
DuePri(t) == IF t \in Setters THEN setting[t].pri ELSE priority[t]
PriorityRecorded ==
  /\ \A p \in Priorities : \A i \in 1 .. Len(runq[p]) : DuePri(runq[p][i]) = p
  /\ current \in Threads /\ place[current] # "create" => DuePri(current) = CurrentPri

(* The timer queue is in order of the time its threads still have to sleep.*)
TimerOrder == \A i, j \in 1 .. Len(timerq) : i < j => remaining[timerq[i]] <= remaining[timerq[j]]

(* The queues always say what the threads' own records say.                *)
QueuesSound == OnePlace /\ PriorityRecorded /\ TimerOrder

(* One sleeper is woken by a tick, so a sleeper is late by fewer ticks     *)
(* than there are threads, also when the clock word wraps.                 *)
LatenessBounded == \A t \in Threads : OnTimer(t) => remaining[t] > -Cardinality(Threads)

(* A time-out comes no sooner than the delay asked for, also when the      *)
(* clock word wraps ("Dispatch() will return after delaying for at least   *)
(* the period required").                                                  *)
NeverEarly ==
  [][\A t \in Threads :
       OnTimer(t) /\ ~OnTimer(t)' /\ Timer' # Timer => remaining[t] <= 1]_vars

(* Absolute priority: when a thread gets the processor, or has lowered its *)
(* priority by SetPhysPri() or by leaving System() ("Before the call to    *)
(* System returns, all pending higher priority threads must have           *)
(* completed"), no thread of a higher priority is queued.  EnterProcess()  *)
(* is the exception: it does not give way to the thread it has started.    *)
GivesWay ==
  LET u == current' IN
  /\ u \in Threads
  /\ \/ u # current
     \/ status[u] # "running" /\ status'[u] = "running"
     \/ CurrentPri' > CurrentPri /\ place[u] # "create" /\ u \notin Setters'
     \/ u \in Setters \ Setters' /\ setting[u].old < setting[u].pri
  => \A p \in Priorities : p < CurrentPri' => runq'[p] = <<>>

(* Every step of the executive keeps to that rule.                         *)
RunsHighest == [][GivesWay]_vars

(* A sleeper gets the processor again (System() put it at HIGHPRI to sleep,*)
(* so it is not at the mercy of other programs), unless a thread started   *)
(* at HIGHPRI keeps running its own code, which nothing can interrupt.     *)
HighProgram(u) == At(u, "user") /\ CurrentPri = HIGHPRI

SleepersWake ==
  \A t \in Threads : status[t] = "sleep" ~> current = t \/ \E u \in Threads : HighProgram(u)
=============================================================================
