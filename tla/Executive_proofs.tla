-------------------------- MODULE Executive_proofs --------------------------
(***************************************************************************)
(* Theorems about the executive, for any number of threads, priorities and *)
(* clock values.                                                           *)
(***************************************************************************)
EXTENDS Executive, Lists_proofs

(* A thread taken off a queue is unlinked from the place where it is.      *)
LEMMA WithoutPlace ==
  ASSUME NEW S, NEW q \in Seq(S), NEW u
  PROVE  /\ Without(q, u) \in Seq(S)
         /\ In(q, u) => \E k \in 1 .. Len(q) : q[k] = u /\ Removed(q, k, Without(q, u))
         /\ ~In(q, u) => Without(q, u) = q
<1>1. CASE In(q, u)
  <2> DEFINE k == CHOOSE i \in 1 .. Len(q) : q[i] = u
  <2>1. k \in 1 .. Len(q) /\ q[k] = u
    BY <1>1 DEF In
  <2>2. Without(q, u) = SubSeq(q, 1, k - 1) \o SubSeq(q, k + 1, Len(q))
    BY <1>1 DEF Without
  <2> HIDE DEF k
  <2>3. Without(q, u) \in Seq(S) /\ Removed(q, k, Without(q, u))
    BY <2>1, <2>2, RemoveAt
  <2> QED
    BY <1>1, <2>1, <2>3
<1>2. CASE ~In(q, u)
  BY <1>2 DEF Without
<1> QED
  BY <1>1, <1>2

(* Sleep() links a thread in before the first that is to wake no sooner,   *)
(* except that it looks for a later one at the head of the queue.          *)
PlaceOf(q, end, k) ==
  \/ k = 1 /\ (q = <<>> \/ After(endtime[q[1]], end))
  \/ /\ k > 1 /\ q # <<>> /\ ~After(endtime[q[1]], end)
     /\ \A i \in 2 .. k - 1 : After(end, endtime[q[i]])
     /\ k <= Len(q) => ~After(end, endtime[q[k]])

(* InsertTimed() puts the thread in one place, before the first that is    *)
(* due later.                                                              *)
LEMMA InsertTimedPlace ==
  ASSUME NEW S, NEW q \in Seq(S), NEW t \in S, NEW end
  PROVE  /\ InsertTimed(q, t, end) \in Seq(S)
         /\ \E k \in 1 .. Len(q) + 1 : PlaceOf(q, end, k) /\ Inserted(q, k, t, InsertTimed(q, t, end))
<1>0. Len(q) \in Nat
  BY LenProperties
<1>1. CASE q = <<>> \/ After(endtime[q[1]], end)
  <2>1. InsertTimed(q, t, end) = <<t>> \o q
    BY <1>1 DEF InsertTimed
  <2>2. <<t>> \o q \in Seq(S) /\ Inserted(q, 1, t, <<t>> \o q)
    BY LinkFirst
  <2> QED
    BY <1>0, <1>1, <2>1, <2>2 DEF PlaceOf
<1>2. CASE ~(q = <<>> \/ After(endtime[q[1]], end))
  <2> DEFINE stop == {i \in 2 .. Len(q) : ~After(end, endtime[q[i]])}
             at   == IF stop = {} THEN Len(q) + 1
                     ELSE CHOOSE i \in stop : \A j \in stop : i <= j
  <2>1. InsertTimed(q, t, end) = SubSeq(q, 1, at - 1) \o <<t>> \o SubSeq(q, at, Len(q))
    BY <1>2 DEF InsertTimed
  <2>2. Len(q) \in Nat \ {0}
    BY <1>0, <1>2, EmptySeq
  <2>3. /\ at \in 2 .. Len(q) + 1
        /\ \A i \in 2 .. at - 1 : After(end, endtime[q[i]])
        /\ at <= Len(q) => ~After(end, endtime[q[at]])
    <3>1. stop \in SUBSET Nat
      OBVIOUS
    <3>2. \A i \in 2 .. Len(q) : ~After(end, endtime[q[i]]) => i \in stop
      OBVIOUS
    <3>3. \A i \in stop : i \in 2 .. Len(q) /\ ~After(end, endtime[q[i]])
      OBVIOUS
    <3> HIDE DEF stop
    <3>4. CASE stop = {}
      BY <2>2, <3>2, <3>4
    <3>5. CASE stop # {}
      <4>1. \E i \in stop : \A j \in stop : i <= j
        BY <3>1, <3>5, LeastNat
      <4>2. at \in stop /\ \A j \in stop : at <= j
        BY <3>5, <4>1
      <4> HIDE DEF at
      <4>3. at \in 2 .. Len(q) /\ ~After(end, endtime[q[at]])
        BY <3>3, <4>2
      <4>4. ASSUME NEW i \in 2 .. at - 1
            PROVE  After(end, endtime[q[i]])
        <5>1. i \in 2 .. Len(q) /\ i < at
          BY <2>2, <4>3
        <5>2. i \notin stop
          BY <4>2, <4>3, <5>1
        <5> QED
          BY <3>2, <5>1, <5>2
      <4> QED
        BY <2>2, <4>3, <4>4
    <3> QED
      BY <3>4, <3>5
  <2> HIDE DEF at
  <2>4. InsertTimed(q, t, end) \in Seq(S) /\ Inserted(q, at, t, InsertTimed(q, t, end))
    BY <2>1, <2>2, <2>3, InsertAt
  <2>5. PlaceOf(q, end, at)
    BY <1>2, <2>2, <2>3 DEF PlaceOf
  <2> QED
    BY <2>2, <2>3, <2>4, <2>5
<1> QED
  BY <1>1, <1>2

----------------------------------------------------------------------------
(* Type correctness.                                                       *)

RunqType   == [Priorities -> Seq(Threads)]
StatusType == [Threads -> Status]

(* A run queue that a thread joins is one still.                           *)
LEMMA EnqueueType ==
  ASSUME NEW q \in RunqType, NEW p \in Priorities, NEW t \in Threads
  PROVE  [q EXCEPT ![p] = Append(@, t)] \in RunqType
<1>1. Append(q[p], t) \in Seq(Threads)
  BY AppendProperties DEF RunqType
<1> QED
  BY <1>1 DEF RunqType

(* What the dispatcher leaves behind has the right type.                   *)
LEMMA DispatchType ==
  ASSUME NEW q \in RunqType, NEW st \in StatusType, NEW hint \in Priorities,
         SliceTime \in 1 .. TicksPerSlice,
         Dispatch(q, st, hint)
  PROVE  /\ runq' \in RunqType
         /\ status' \in StatusType
         /\ current' \in Threads \cup {Initial, Idle}
         /\ CurrentPri' \in Priorities
         /\ HighestAvailPri' \in Priorities
         /\ SliceTime' \in 1 .. TicksPerSlice
<1>1. CASE \E p \in Priorities :
             /\ FirstAvail(q, hint, p)
             /\ current'         = Head(q[p])
             /\ runq'            = [q EXCEPT ![p] = Tail(@)]
             /\ status'          = [st EXCEPT ![Head(q[p])] = "running"]
             /\ CurrentPri'      = p
             /\ HighestAvailPri' = p
             /\ SliceTime'       = TicksPerSlice
  <2>1. PICK p \in Priorities :
             /\ FirstAvail(q, hint, p)
             /\ current'         = Head(q[p])
             /\ runq'            = [q EXCEPT ![p] = Tail(@)]
             /\ status'          = [st EXCEPT ![Head(q[p])] = "running"]
             /\ CurrentPri'      = p
             /\ HighestAvailPri' = p
             /\ SliceTime'       = TicksPerSlice
    BY <1>1
  <2>2. q[p] \in Seq(Threads) /\ q[p] # <<>>
    BY <2>1 DEF FirstAvail, RunqType
  <2>3. Head(q[p]) \in Threads /\ Tail(q[p]) \in Seq(Threads)
    BY <2>2, HeadTailProperties
  <2> QED
    BY <2>1, <2>3, SliceAssumption DEF RunqType, StatusType, Status
<1>2. CASE /\ \A p \in Priorities : p >= hint => q[p] = <<>>
           /\ current'         = Idle
           /\ runq'            = q
           /\ status'          = st
           /\ CurrentPri'      = HIGHPRI
           /\ HighestAvailPri' = HIGHPRI
           /\ UNCHANGED SliceTime
  BY <1>2, LevelsAssumption DEF HIGHPRI, Priorities
<1> QED
  BY <1>1, <1>2 DEF Dispatch

(* Only a thread runs below HIGHPRI: the boot code and the idle loop are at*)
(* HIGHPRI, so what the interrupt handlers preempt is a thread.            *)
LowIsThread == CurrentPri # HIGHPRI => current \in Threads
TInv        == TypeOK /\ LowIsThread

(* The dispatched thread's type, as TInv needs it.                         *)
Switched == /\ runq' \in RunqType /\ status' \in StatusType
            /\ current' \in Threads \cup {Initial, Idle}
            /\ CurrentPri' \in Priorities /\ HighestAvailPri' \in Priorities
            /\ SliceTime' \in 1 .. TicksPerSlice
            /\ LowIsThread'

(* Dispatch() puts a thread of the queue it names, or the idle loop, in    *)
(* control.                                                                *)
LEMMA DispatchSwitches ==
  ASSUME TInv, NEW q \in RunqType, NEW st \in StatusType, NEW hint \in Priorities,
         Dispatch(q, st, hint)
  PROVE  Switched
<1>1. SliceTime \in 1 .. TicksPerSlice
  BY DEF TInv, TypeOK
<1>2. LowIsThread'
  <2>1. CASE current' = Idle /\ CurrentPri' = HIGHPRI
    BY <2>1 DEF LowIsThread
  <2>2. ASSUME NEW p \in Priorities, FirstAvail(q, hint, p), current' = Head(q[p])
        PROVE  LowIsThread'
    <3>1. q[p] \in Seq(Threads) /\ q[p] # <<>>
      BY <2>2 DEF FirstAvail, RunqType
    <3> QED
      BY <2>2, <3>1, HeadTailProperties DEF LowIsThread
  <2> QED
    BY <2>1, <2>2 DEF Dispatch
<1> QED
  BY <1>1, <1>2, DispatchType DEF Switched

(* _Yield() puts a thread in control.                                      *)
LEMMA YieldSwitches ==
  ASSUME TInv, current \in Threads, NEW pri \in Priorities, NEW hint \in Priorities,
         YieldAt(pri, hint)
  PROVE  Switched
<1>1. runq \in RunqType /\ [status EXCEPT ![current] = "runnable"] \in StatusType
  BY DEF TInv, TypeOK, RunqType, StatusType, Status
<1> QED
  BY <1>1, EnqueueType, DispatchSwitches DEF YieldAt

(* The end of a time slice puts a thread in control.                       *)
LEMMA SliceSwitches ==
  ASSUME TInv, CurrentPri # HIGHPRI, NEW q \in RunqType, NEW st \in StatusType,
         NEW hint \in Priorities, Slice(q, st, hint)
  PROVE  Switched
<1>1. current \in Threads /\ CurrentPri \in Priorities
  BY DEF TInv, TypeOK, LowIsThread
<1>2. [st EXCEPT ![current] = "sliced"] \in StatusType
  BY <1>1 DEF StatusType, Status
<1> QED
  BY <1>1, <1>2, EnqueueType, DispatchSwitches DEF Slice

(* An interrupt that goes back leaves the same thread in control.          *)
LEMMA ContinueSwitches ==
  ASSUME TInv, NEW q \in RunqType, NEW st \in StatusType, NEW hint \in Priorities,
         NEW ticks \in 1 .. TicksPerSlice, Continue(q, st, hint, ticks)
  PROVE  Switched
BY DEF Continue, Switched, TInv, TypeOK, LowIsThread

(* Whatever the handler decides after waking threads, the types hold.      *)
LEMMA AfterWakeupsSwitches ==
  ASSUME TInv, NEW q \in RunqType, NEW st \in StatusType, NEW hint \in Priorities,
         NEW preempt, AfterWakeups(q, st, hint, preempt)
  PROVE  Switched
<1>1. SliceTime \in 1 .. TicksPerSlice /\ TicksPerSlice \in Nat \ {0}
  BY SliceAssumption DEF TInv, TypeOK
<1>2. CASE CurrentPri # HIGHPRI /\ Slice(q, st, hint)
  BY <1>2, SliceSwitches
<1>3. CASE Continue(q, st, hint, SliceTime)
  BY <1>1, <1>3, ContinueSwitches
<1>4. CASE SliceTime - 1 > 0 /\ Continue(q, st, hint, SliceTime - 1)
  BY <1>1, <1>4, ContinueSwitches
<1>5. CASE Continue(q, st, hint, TicksPerSlice)
  BY <1>1, <1>5, ContinueSwitches
<1> QED
  BY <1>2, <1>3, <1>4, <1>5 DEF AfterWakeups

(* Resume() and its relatives keep the queues' types.                      *)
LEMMA ResumedType ==
  ASSUME TInv, NEW u \in Threads
  PROVE  /\ ResumedRunq(u) \in RunqType
         /\ ResumedStatus(u) \in StatusType
         /\ ResumedHint(u) \in Priorities
<1>1. priority[u] \in Priorities /\ runq \in RunqType /\ HighestAvailPri \in Priorities
  BY DEF TInv, TypeOK, RunqType
<1>2. ResumedRunq(u) \in RunqType
  BY <1>1, EnqueueType DEF ResumedRunq
<1>3. ResumedStatus(u) \in StatusType
  BY DEF TInv, TypeOK, ResumedStatus, StatusType, Status
<1>4. ResumedHint(u) \in Priorities
  BY <1>1 DEF ResumedHint, Lower
<1> QED
  BY <1>2, <1>3, <1>4

(* Taking a thread off the timer queue keeps the clock's types.            *)
LEMMA UntimedType ==
  ASSUME TInv, NEW u \in Threads, Untimed(u)
  PROVE  /\ timerq' \in Seq(Threads)
         /\ TimedWaitUtil' \in [Threads -> BOOLEAN]
         /\ Timer' \in 0 .. ClockSize - 1
         /\ endtime' \in [Threads -> 0 .. ClockSize - 1]
         /\ remaining' \in [Threads -> Int]
<1>1. timerq \in Seq(Threads)
  BY DEF TInv, TypeOK
<1>2. timerq' \in Seq(Threads)
  BY <1>1, WithoutPlace DEF Untimed
<1>3. TimedWaitUtil' \in [Threads -> BOOLEAN]
  BY DEF TInv, TypeOK, Untimed
<1>4. 0 \in 0 .. ClockSize - 1
  BY ClockAssumption
<1> QED
  BY <1>2, <1>3, <1>4 DEF TInv, TypeOK, Untimed

(* A tick keeps the clock's types.                                         *)
LEMMA TickType ==
  ASSUME TInv, Tick
  PROVE  /\ Timer' \in 0 .. ClockSize - 1
         /\ remaining' \in [Threads -> Int]
         /\ priority' = priority /\ TimedWaitUtil' = TimedWaitUtil
         /\ place' = place /\ oldpri' = oldpri /\ setting' = setting
<1>1. Timer \in Int /\ ClockSize \in Nat \ {0} /\ remaining \in [Threads -> Int]
  BY ClockAssumption DEF TInv, TypeOK
<1>2. (Timer + 1) % ClockSize \in 0 .. ClockSize - 1
  BY <1>1
<1> QED
  BY <1>1, <1>2 DEF Tick

(* A thread going to sleep.                                                *)
LEMMA SleepAsType ==
  ASSUME TInv, NEW t \in Threads, NEW d \in 1 .. MaxSleep,
         NEW why \in {"sleep", "timedwait"}, SleepAs(t, why, d),
         TimedWaitUtil' \in [Threads -> BOOLEAN]
  PROVE  TInv'
<1> DEFINE end == (Timer + d) % ClockSize
<1>1. Timer \in Int /\ ClockSize \in Nat \ {0} /\ timerq \in Seq(Threads)
  BY ClockAssumption DEF TInv, TypeOK
<1>2. end \in 0 .. ClockSize - 1 /\ d \in Int
  BY <1>1, ClockAssumption
<1>3. timerq' \in Seq(Threads)
  BY <1>1, InsertTimedPlace DEF SleepAs
<1>4. endtime' \in [Threads -> 0 .. ClockSize - 1] /\ remaining' \in [Threads -> Int]
  BY <1>2 DEF SleepAs, TInv, TypeOK
<1>5. runq \in RunqType /\ [status EXCEPT ![t] = why] \in StatusType /\ HighestAvailPri \in Priorities
  BY DEF TInv, TypeOK, RunqType, StatusType, Status
<1>6. Switched
  BY <1>5, DispatchSwitches DEF SleepAs
<1>7. place' \in [Threads -> Places] /\ UNCHANGED <<Timer, priority, oldpri, setting>>
  BY DEF SleepAs, TInv, TypeOK, Places
<1> QED
  BY <1>3, <1>4, <1>6, <1>7 DEF TInv, TypeOK, Switched, RunqType, StatusType

(* Resume() as one of the calls System() makes.                            *)
LEMMA ResumeType ==
  ASSUME TInv, NEW t \in Threads, SystemResume(t)
  PROVE  TInv'
<1>1. PICK u \in Threads : ResumeBy(t, u)
  BY DEF SystemResume
<1>2. /\ runq' \in RunqType /\ status' \in StatusType /\ HighestAvailPri' \in Priorities
  BY <1>1, ResumedType DEF ResumeBy, Resume
<1>3. /\ timerq' \in Seq(Threads) /\ TimedWaitUtil' \in [Threads -> BOOLEAN]
      /\ Timer' \in 0 .. ClockSize - 1
      /\ endtime' \in [Threads -> 0 .. ClockSize - 1]
      /\ remaining' \in [Threads -> Int]
  BY <1>1, UntimedType DEF ResumeBy, Resume
<1>4. place' \in [Threads -> Places] /\ UNCHANGED <<cpu, priority, oldpri, setting>>
  BY <1>1 DEF ResumeBy, TInv, TypeOK, Places
<1> QED
  BY <1>2, <1>3, <1>4 DEF TInv, TypeOK, LowIsThread, cpu, RunqType, StatusType

(* A change of priority, ...                                               *)
LEMMA SetPriType ==
  ASSUME TInv, NEW t \in Threads, NEW p \in Priorities, NEW pl \in Places,
         current = t, SetPri(t, p, pl)
  PROVE  TInv'
<1>1. CurrentPri \in Priorities /\ setting \in [Threads -> [old : Priorities, pri : Priorities]]
  BY DEF TInv, TypeOK
<1>2. setting' \in [Threads -> [old : Priorities, pri : Priorities]]
  BY <1>1 DEF SetPri
<1> QED
  BY <1>2 DEF SetPri, TInv, TypeOK, LowIsThread, queues, clock

(* ... and the rest of SetPhysPri(), with the dispatch it may bring.       *)
LEMMA SetPriEndType ==
  ASSUME TInv, NEW t \in Threads, SetPriEnd(t)
  PROVE  TInv'
<1> DEFINE hint == Lower(setting[t].pri, HighestAvailPri)
<1>0. /\ setting \in [Threads -> [old : Priorities, pri : Priorities]] /\ current = t
      /\ CurrentPri \in Priorities /\ HighestAvailPri \in Priorities
  BY DEF SetPriEnd, TInv, TypeOK
<1>1. priority' \in [Threads -> Priorities] /\ UNCHANGED <<timerq, clock, TimedWaitUtil, oldpri>>
  BY <1>0 DEF SetPriEnd, ToRecord, TInv, TypeOK
<1>2. place' \in [Threads -> Places]
  BY DEF SetPriEnd, AfterSetPri, TInv, TypeOK, Places
<1>3. setting' \in [Threads -> [old : Priorities, pri : Priorities]]
  <2>1. HIGHPRI \in Priorities
    BY LevelsAssumption DEF HIGHPRI, Priorities
  <2> QED
    BY <1>0, <2>1 DEF SetPriEnd, NotSetting
<1>4. hint \in Priorities
  BY <1>0 DEF Lower
<1>5. CASE YieldAt(CurrentPri, hint)
  <2>1. Switched
    BY <1>0, <1>4, <1>5, YieldSwitches
  <2> QED
    BY <1>1, <1>2, <1>3, <2>1 DEF Switched, TInv, TypeOK, clock, RunqType, StatusType
<1>6. CASE HighestAvailPri' = hint /\ UNCHANGED <<runq, cpu, status>>
  BY <1>1, <1>2, <1>3, <1>4, <1>6 DEF TInv, TypeOK, LowIsThread, clock, cpu
<1> QED
  BY <1>5, <1>6 DEF SetPriEnd

(* The functions System() calls.                                           *)
LEMMA InSystemType ==
  ASSUME TInv, NEW t \in Threads, InSystem(t)
  PROVE  TInv'
<1>0. HIGHPRI \in Priorities /\ HighestAvailPri \in Priorities /\ runq \in RunqType
  BY LevelsAssumption DEF HIGHPRI, Priorities, TInv, TypeOK, RunqType
<1>1. CASE SystemPlain(t)
  BY <1>1 DEF SystemPlain, TInv, TypeOK, LowIsThread, Places, queues, clock, cpu
<1>2. CASE SystemSuspend(t)
  <2>1. [status EXCEPT ![t] = "semaphore"] \in StatusType
    BY DEF TInv, TypeOK, StatusType, Status
  <2>2. Switched
    BY <1>0, <1>2, <2>1, DispatchSwitches DEF SystemSuspend
  <2> QED
    BY <1>2, <2>2 DEF SystemSuspend, Switched, TInv, TypeOK, Places, clock, RunqType, StatusType
<1>3. CASE SystemResume(t)
  BY <1>3, ResumeType
<1>4. CASE SystemYield(t)
  <2>1. CASE UNCHANGED <<runq, HighestAvailPri, cpu, status>>
    BY <1>4, <2>1 DEF SystemYield, TInv, TypeOK, LowIsThread, Places, clock, cpu
  <2>2. CASE YieldAt(HIGHPRI, HighestAvailPri)
    <3>1. current \in Threads
      BY <1>4 DEF SystemYield, At
    <3>2. Switched
      BY <1>0, <2>2, <3>1, YieldSwitches
    <3> QED
      BY <1>4, <3>2 DEF SystemYield, Switched, TInv, TypeOK, Places, clock, RunqType, StatusType
  <2> QED
    BY <1>4, <2>1, <2>2 DEF SystemYield
<1>5. ASSUME NEW d \in 1 .. MaxSleep, Sleep(t, d)
      PROVE  TInv'
  <2>1. TimedWaitUtil' \in [Threads -> BOOLEAN]
    BY <1>5 DEF Sleep, TInv, TypeOK
  <2> QED
    BY <1>5, <2>1, SleepAsType DEF Sleep
<1>6. ASSUME NEW d \in 1 .. MaxSleep, TimedSuspend(t, d)
      PROVE  TInv'
  <2>1. TimedWaitUtil' \in [Threads -> BOOLEAN]
    BY <1>6 DEF TimedSuspend, TInv, TypeOK
  <2> QED
    BY <1>6, <2>1, SleepAsType DEF TimedSuspend
<1>7. CASE CopyBegin(t) \/ CopyEnd(t)
  <2>1. current = t /\ "lower" \in Places /\ "raise" \in Places
    BY <1>7 DEF CopyBegin, CopyEnd, At, Places
  <2>2. HIGHPRI + 1 \in Priorities
    BY LevelsAssumption DEF HIGHPRI, Priorities
  <2> QED
    BY <1>0, <1>7, <2>1, <2>2, SetPriType DEF CopyBegin, CopyEnd
<1> QED
  BY <1>1, <1>2, <1>3, <1>4, <1>5, <1>6, <1>7 DEF InSystem

(* A thread that EnterProcess() or the boot thread starts is typed.        *)
LEMMA StartType ==
  ASSUME TInv, NEW u \in Threads, NEW p \in Priorities, Start(u, p)
  PROVE  /\ status' \in StatusType /\ priority' \in [Threads -> Priorities]
         /\ runq' \in RunqType /\ HighestAvailPri' \in Priorities
<1>1. runq \in RunqType /\ HighestAvailPri \in Priorities
  BY DEF TInv, TypeOK, RunqType
<1>2. runq' \in RunqType
  BY <1>1, EnqueueType DEF Start
<1> QED
  BY <1>1, <1>2 DEF Start, Lower, TInv, TypeOK, StatusType, Status

(* Each step inside System() keeps the types, ...                          *)
LEMMA KernelType ==
  ASSUME TInv, NEW t \in Threads, Kernel(t)
  PROVE  TInv'
<1>0. HighestAvailPri \in Priorities /\ runq \in RunqType /\ status \in StatusType
  BY DEF TInv, TypeOK, RunqType, StatusType
<1>1. CASE InSystem(t)
  BY <1>1, InSystemType
<1>2. CASE SystemReturn(t)
  <2>0. oldpri[t] \in Priorities /\ current = t /\ HIGHPRI \in Priorities
    BY <1>2, LevelsAssumption DEF SystemReturn, At, TInv, TypeOK, HIGHPRI, Priorities
  <2>1. /\ priority' \in [Threads -> Priorities] /\ oldpri' \in [Threads -> Priorities]
        /\ place' \in [Threads -> Places]
        /\ UNCHANGED <<timerq, clock, TimedWaitUtil, setting>>
    BY <1>2, <2>0 DEF SystemReturn, TInv, TypeOK, Places
  <2>2. CASE YieldAt(oldpri[t], HighestAvailPri)
    <3>1. Switched
      BY <1>0, <2>0, <2>2, YieldSwitches
    <3> QED
      BY <2>1, <3>1 DEF Switched, TInv, TypeOK, clock, RunqType, StatusType
  <2>3. CASE /\ CurrentPri' = oldpri[t]
             /\ UNCHANGED <<runq, HighestAvailPri, current, SliceTime, status>>
    BY <2>0, <2>1, <2>3 DEF TInv, TypeOK, LowIsThread, clock
  <2> QED
    BY <1>2, <2>2, <2>3 DEF SystemReturn
<1>3. CASE StopEnd(t)
  <2>1. Switched
    BY <1>0, <1>3, DispatchSwitches DEF StopEnd
  <2> QED
    BY <1>3, <2>1 DEF StopEnd, Switched, TInv, TypeOK, Places, clock, RunqType, StatusType
<1>4. ASSUME NEW u \in Threads, NEW p \in Priorities, EnterEnd(t, u, p)
      PROVE  TInv'
  <2>1. /\ status' \in StatusType /\ priority' \in [Threads -> Priorities]
        /\ runq' \in RunqType /\ HighestAvailPri' \in Priorities
        /\ UNCHANGED <<timerq, clock, current, SliceTime, TimedWaitUtil, setting>>
    BY <1>4, StartType DEF EnterEnd, Start
  <2>2. current = t /\ oldpri[t] \in Priorities /\ CurrentPri' = oldpri[t]
    BY <1>4 DEF EnterEnd, At, TInv, TypeOK
  <2>3. oldpri' \in [Threads -> Priorities]
    <3>1. HIGHPRI \in Priorities
      BY LevelsAssumption DEF HIGHPRI, Priorities
    <3> QED
      BY <1>4, <3>1 DEF EnterEnd, TInv, TypeOK
  <2>4. place' \in [Threads -> Places]
    BY <1>4 DEF EnterEnd, TInv, TypeOK, Places
  <2> QED
    BY <2>1, <2>2, <2>3, <2>4 DEF TInv, TypeOK, LowIsThread, clock, RunqType, StatusType
<1>5. CASE SetPriEnd(t)
  BY <1>5, SetPriEndType
<1> QED
  BY <1>1, <1>2, <1>3, <1>4, <1>5 DEF Kernel

(* ... so does each step of a program, ...                                 *)
LEMMA ProgramType ==
  ASSUME TInv, NEW t \in Threads, Program(t)
  PROVE  TInv'
<1>0. /\ HighestAvailPri \in Priorities /\ runq \in RunqType /\ status \in StatusType
      /\ HIGHPRI \in Priorities /\ CurrentPri \in Priorities
  <2>1. /\ HighestAvailPri \in Priorities /\ runq \in RunqType /\ status \in StatusType
        /\ CurrentPri \in Priorities
    BY DEF TInv, TypeOK, RunqType, StatusType
  <2>2. HIGHPRI \in Priorities
    BY LevelsAssumption DEF HIGHPRI, Priorities
  <2> QED
    BY <2>1, <2>2
<1>1. CASE SystemEnter(t)
  BY <1>0, <1>1 DEF SystemEnter, At, TInv, TypeOK, LowIsThread, Places, queues, clock
<1>2. CASE Suspend(t)
  <2>1. [status EXCEPT ![t] = "semaphore"] \in StatusType
    BY <1>0 DEF StatusType, Status
  <2>2. Switched
    BY <1>0, <1>2, <2>1, DispatchSwitches DEF Suspend
  <2> QED
    BY <1>2, <2>2 DEF Suspend, Switched, TInv, TypeOK, clock, RunqType, StatusType
<1>3. CASE EnterBegin(t)
  BY <1>0, <1>3 DEF EnterBegin, At, TInv, TypeOK, LowIsThread, Places, queues, clock
<1>4. CASE StopBegin(t)
  BY <1>4 DEF StopBegin, TInv, TypeOK, LowIsThread, Places, Status, queues, clock, cpu
<1>5. ASSUME NEW p \in Priorities, SetPhysPri(t, p)
      PROVE  TInv'
  BY <1>5, SetPriType DEF SetPhysPri, At, Places
<1> QED
  BY <1>1, <1>2, <1>3, <1>4, <1>5 DEF Program

(* ... of the boot thread, ...                                             *)
LEMMA BootType ==
  ASSUME TInv, Boot
  PROVE  TInv'
<1>1. CASE BootStop
  <2>1. HighestAvailPri \in Priorities /\ runq \in RunqType /\ status \in StatusType
    BY DEF TInv, TypeOK, RunqType, StatusType
  <2>2. Switched
    BY <1>1, <2>1, DispatchSwitches DEF BootStop
  <2> QED
    BY <1>1, <2>2 DEF BootStop, Switched, TInv, TypeOK, clock, RunqType, StatusType
<1>2. ASSUME NEW u \in Threads, NEW p \in Priorities, BootEnter(u, p)
      PROVE  TInv'
  <2>1. /\ status' \in StatusType /\ priority' \in [Threads -> Priorities]
        /\ runq' \in RunqType /\ HighestAvailPri' \in Priorities
        /\ UNCHANGED <<timerq, clock, current, SliceTime, TimedWaitUtil>>
        /\ UNCHANGED <<CurrentPri, place, oldpri, setting>>
    BY <1>2, StartType DEF BootEnter, Start
  <2> QED
    BY <2>1 DEF TInv, TypeOK, LowIsThread, clock, RunqType, StatusType
<1> QED
  BY <1>1, <1>2 DEF Boot

(* ... of the timer's handler, ...                                         *)
LEMMA TimerType ==
  ASSUME TInv, TimerInterrupt
  PROVE  TInv'
<1>0. /\ runq \in RunqType /\ status \in StatusType /\ HighestAvailPri \in Priorities
      /\ timerq \in Seq(Threads) /\ priority \in [Threads -> Priorities]
      /\ endtime \in [Threads -> 0 .. ClockSize - 1] /\ 0 \in 0 .. ClockSize - 1
  BY ClockAssumption DEF TInv, TypeOK, RunqType, StatusType
<1>1. Tick
  BY DEF TimerInterrupt, TimerWake, TimerNoWake
<1>2. CASE TimerNoWake
  <2>1. Switched
    BY <1>0, <1>2, AfterWakeupsSwitches DEF TimerNoWake
  <2>2. UNCHANGED <<timerq, endtime>>
    BY <1>2 DEF TimerNoWake
  <2> QED
    BY <1>1, <2>1, <2>2, TickType DEF Switched, TInv, TypeOK, RunqType, StatusType
<1>3. CASE TimerWake
  <2> DEFINE u == Head(timerq)
  <2>1. u \in Threads /\ Tail(timerq) \in Seq(Threads)
    BY <1>0, <1>3, HeadTailProperties DEF TimerWake, HeadDue
  <2>2. [runq EXCEPT ![priority[u]] = Append(@, u)] \in RunqType
    BY <1>0, <2>1, EnqueueType
  <2>3. [status EXCEPT ![u] = IF @ = "timedwait" THEN @ ELSE "runnable"] \in StatusType
    BY <1>0, <2>1 DEF StatusType, Status
  <2>4. HintAfterWake(u) \in Priorities
    BY <1>0, <2>1 DEF HintAfterWake, HintAfterWakeCurrent, Lower
  <2>5. Switched
    BY <1>3, <2>2, <2>3, <2>4, AfterWakeupsSwitches DEF TimerWake
  <2>6. timerq' \in Seq(Threads) /\ endtime' \in [Threads -> 0 .. ClockSize - 1]
    BY <1>0, <1>3, <2>1 DEF TimerWake
  <2> QED
    BY <1>1, <2>5, <2>6, TickType DEF Switched, TInv, TypeOK, RunqType, StatusType
<1> QED
  BY <1>2, <1>3 DEF TimerInterrupt

(* The exit of a device interrupt puts a thread in control.                *)
LEMMA IntrExitSwitches ==
  ASSUME TInv, NEW q \in RunqType, NEW st \in StatusType, NEW hint \in Priorities,
         IntrExit(q, st, hint)
  PROVE  Switched
<1>0. CurrentPri \in Priorities /\ SliceTime \in 1 .. TicksPerSlice
  BY DEF TInv, TypeOK
<1>1. CASE hint < CurrentPri
  <2>1. CurrentPri # HIGHPRI
    BY <1>0, <1>1 DEF HIGHPRI, Priorities
  <2> QED
    BY <1>1, <2>1, SliceSwitches DEF IntrExit
<1>2. CASE ~(hint < CurrentPri)
  BY <1>0, <1>2, ContinueSwitches DEF IntrExit
<1> QED
  BY <1>1, <1>2

(* ... and of a device's handler.                                          *)
LEMMA DeviceType ==
  ASSUME TInv, DeviceInterrupt \/ \E u \in Threads : DeviceResume(u)
  PROVE  TInv'
<1>1. CASE DeviceInterrupt
  <2>1. runq \in RunqType /\ status \in StatusType /\ HighestAvailPri \in Priorities
    BY DEF TInv, TypeOK, RunqType, StatusType
  <2>2. Switched
    BY <1>1, <2>1, IntrExitSwitches DEF DeviceInterrupt
  <2> QED
    BY <1>1, <2>2 DEF DeviceInterrupt, Switched, TInv, TypeOK, clock, RunqType, StatusType
<1>2. ASSUME NEW u \in Threads, DeviceResume(u)
      PROVE  TInv'
  <2>0. Untimed(u) /\ UNCHANGED <<priority, place, oldpri, setting>>
    BY <1>2 DEF DeviceResume, IntrResume
  <2>1. Switched
    BY <1>2, ResumedType, IntrExitSwitches DEF DeviceResume, IntrResume
  <2> QED
    BY <2>0, <2>1, UntimedType DEF Switched, TInv, TypeOK, RunqType, StatusType
<1> QED
  BY <1>1, <1>2

(* The types hold when the first thread is created, ...                    *)
LEMMA TypeInit ==
  ASSUME Init
  PROVE  TInv
<1>1. <<>> \in Seq(Threads) /\ HIGHPRI \in Priorities /\ 0 \in 0 .. ClockSize - 1
  BY LevelsAssumption, ClockAssumption DEF HIGHPRI, Priorities
<1>2. TicksPerSlice \in 1 .. TicksPerSlice
  BY SliceAssumption
<1> QED
  BY <1>1, <1>2 DEF Init, TInv, TypeOK, LowIsThread, Status, Places, NotSetting

(* ... and every step keeps them.                                          *)
LEMMA TypeStep ==
  ASSUME TInv, [Next]_vars
  PROVE  TInv'
<1>1. CASE IdleScan
  <2>1. HighestAvailPri \in Priorities /\ runq \in RunqType /\ status \in StatusType
    BY DEF TInv, TypeOK, RunqType, StatusType
  <2>2. Switched
    BY <1>1, <2>1, DispatchSwitches DEF IdleScan
  <2> QED
    BY <1>1, <2>2 DEF IdleScan, Switched, TInv, TypeOK, clock, RunqType, StatusType
<1>2. CASE Boot
  BY <1>2, BootType
<1>3. CASE TimerInterrupt
  BY <1>3, TimerType
<1>4. ASSUME NEW t \in Threads, Kernel(t)
      PROVE  TInv'
  BY <1>4, KernelType
<1>5. ASSUME NEW t \in Threads, Program(t)
      PROVE  TInv'
  BY <1>5, ProgramType
<1>6. CASE DeviceInterrupt \/ \E u \in Threads : DeviceResume(u)
  BY <1>6, DeviceType
<1>7. CASE UNCHANGED vars
  BY <1>7 DEF vars, queues, clock, cpu, threads, TInv, TypeOK, LowIsThread
<1> QED
  BY <1>1, <1>2, <1>3, <1>4, <1>5, <1>6, <1>7 DEF Next

(* Every variable of the executive keeps its type, whichever handler is    *)
(* installed.  The interrupt handlers append the interrupted thread to a   *)
(* run queue, so this also needs that what they interrupt is a thread.     *)
THEOREM TypeCorrect == Spec => []TypeOK
<1>1. Init => TInv
  BY TypeInit
<1>2. TInv /\ [Next]_vars => TInv'
  BY TypeStep
<1>3. TInv => TypeOK
  BY DEF TInv
<1> QED
  BY <1>1, <1>2, <1>3, PTL DEF Spec

----------------------------------------------------------------------------
(* The dispatcher's hint and the priority rule it serves, under the C40's  *)
(* handlers.  (The run ExecArmHint shows that the ARM's timer handler      *)
(* breaks the first, so the theorems here are about the C40.)              *)
(*                                                                         *)
(* HintSound is inductive once the types are known.  A thread is queued at *)
(* the priority of its own record, and either the hint is lowered to it in *)
(* the same step, or the step has just tested that the hint is no lower    *)
(* than the priority it yields at.  SetPhysPri() yields at CurrentPri with *)
(* the hint lowered to the priority it is setting: Follows says that these *)
(* are the same, or that whoever changed CurrentPri since, the dispatcher, *)
(* has lowered the hint too.                                               *)

Sound(q, hint) == \A p \in Priorities : p < hint => q[p] = <<>>

Follows ==
  current \in Setters => HighestAvailPri <= CurrentPri \/ setting[current].pri = CurrentPri

HintInv == HintSound /\ Follows

(* What a step has to do: keep the hint sound and give way.                *)
Obeys == HintInv' /\ GivesWay

(* The running thread has completed a SetPhysPri() that lowered it.        *)
Lowered == current \in Setters \ Setters' /\ setting[current].old < setting[current].pri

(* No thread's status becomes "running".                                   *)
Quiet(st) == \A t \in Threads : st[t] = "running" => status[t] = "running"

(* A thread queued no higher than the hint leaves the hint sound.          *)
LEMMA EnqueueSound ==
  ASSUME NEW q \in RunqType, NEW p \in Priorities, NEW hint \in Priorities,
         NEW t, Sound(q, hint), hint <= p
  PROVE  Sound([q EXCEPT ![p] = Append(@, t)], hint)
<1>1. \A r \in Priorities : r < hint => r # p
  BY DEF Priorities
<1> QED
  BY <1>1 DEF Sound, RunqType

(* Queueing a thread and lowering the hint to its priority.                *)
LEMMA LoweredSound ==
  ASSUME NEW q \in RunqType, NEW p \in Priorities, NEW hint \in Priorities,
         NEW t, Sound(q, hint)
  PROVE  Sound([q EXCEPT ![p] = Append(@, t)], Lower(p, hint))
<1>1. Lower(p, hint) \in Priorities /\ Lower(p, hint) <= p /\ Lower(p, hint) <= hint
  BY DEF Lower, Priorities
<1>2. Sound(q, Lower(p, hint))
  BY <1>1 DEF Sound, Priorities
<1> QED
  BY <1>1, <1>2, EnqueueSound

(* The dispatcher, given a sound hint, leaves a sound one and runs the     *)
(* highest thread there is.                                                *)
LEMMA DispatchSound ==
  ASSUME NEW q \in RunqType, NEW st, NEW hint \in Priorities,
         Sound(q, hint), Dispatch(q, st, hint)
  PROVE  Obeys
<1>1. ASSUME NEW p \in Priorities, FirstAvail(q, hint, p),
             runq' = [q EXCEPT ![p] = Tail(@)],
             CurrentPri' = p, HighestAvailPri' = p
      PROVE  Obeys
  <2>1. \A r \in Priorities : r < p => q[r] = <<>>
    BY <1>1 DEF FirstAvail, Sound, Priorities
  <2>2. \A r \in Priorities : r < p => runq'[r] = <<>>
    BY <1>1, <2>1 DEF RunqType, Priorities
  <2> QED
    BY <1>1, <2>2 DEF Obeys, HintInv, HintSound, Follows, GivesWay, Priorities
<1>2. CASE current' = Idle /\ HighestAvailPri' = HIGHPRI
  <2>1. \A p \in Priorities : ~ (p < HighestAvailPri')
    BY <1>2 DEF HIGHPRI, Priorities
  <2> QED
    BY <1>2, <2>1, ThreadsAssumption DEF Obeys, HintInv, HintSound, Follows, Setters, GivesWay
<1> QED
  BY <1>1, <1>2 DEF Dispatch

(* Queueing the current thread and dispatching: Yield() and a time slice.  *)
LEMMA RequeueSound ==
  ASSUME NEW q \in RunqType, NEW st, NEW hint \in Priorities, NEW p \in Priorities,
         current \in Threads, Sound(q, hint), hint <= p,
         Dispatch([q EXCEPT ![p] = Append(@, current)], st, hint)
  PROVE  Obeys
<1>1. [q EXCEPT ![p] = Append(@, current)] \in RunqType
  BY EnqueueType
<1>2. Sound([q EXCEPT ![p] = Append(@, current)], hint)
  BY EnqueueSound
<1> QED
  BY <1>1, <1>2, DispatchSound

(* A step that keeps the processor and does not lower its priority.        *)
LEMMA StaySound ==
  ASSUME TInv, current' = current, CurrentPri' \in Priorities, CurrentPri' <= CurrentPri,
         Quiet(status'), ~Lowered, HintInv'
  PROVE  Obeys
<1>1. ~ (CurrentPri' > CurrentPri)
  BY DEF TInv, TypeOK, Priorities
<1> QED
  BY <1>1 DEF Obeys, GivesWay, Quiet, Lowered

(* A step of a thread that is not in SetPhysPri() and goes on.             *)
LEMMA StepOnSound ==
  ASSUME TInv, NEW t \in Threads, current = t, current' = current, t \notin Setters, t \notin Setters',
         CurrentPri' \in Priorities, CurrentPri' <= CurrentPri, Quiet(status'), HintSound'
  PROVE  Obeys
BY StaySound DEF Lowered, HintInv, Follows

(* An interrupt that goes back to the thread it found gives no processor   *)
(* away.                                                                   *)
LEMMA ContinueSound ==
  ASSUME TInv, Follows, UNCHANGED <<place, setting>>,
         NEW q, NEW st, NEW hint \in Priorities, hint <= HighestAvailPri, NEW ticks,
         Sound(q, hint), Quiet(st), Continue(q, st, hint, ticks)
  PROVE  Obeys
<1>1. HintSound' /\ Quiet(status')
  BY DEF Continue, HintSound, Sound, Quiet
<1>2. current' = current /\ CurrentPri' = CurrentPri /\ CurrentPri \in Priorities
  BY DEF Continue, TInv, TypeOK
<1>3. CurrentPri' <= CurrentPri
  BY <1>2 DEF Priorities
<1>4. Setters' = Setters
  BY DEF Setters
<1>5. HighestAvailPri' = hint /\ HighestAvailPri \in Priorities
  BY DEF Continue, TInv, TypeOK
<1>6. Follows'
  BY <1>2, <1>4, <1>5 DEF Follows, Priorities
<1> QED
  BY <1>1, <1>2, <1>3, <1>4, <1>6, StaySound DEF HintInv, Lowered

(* The end of a slice takes the head of the running thread's own queue, or *)
(* goes on: there is nothing above it.                                     *)
LEMMA SliceSound ==
  ASSUME TInv, CurrentPri # HIGHPRI, NEW q \in RunqType, NEW st, NEW hint \in Priorities,
         Sound(q, hint), hint <= CurrentPri, Slice(q, st, hint)
  PROVE  Obeys
<1>1. current \in Threads /\ CurrentPri \in Priorities
  BY DEF TInv, TypeOK, LowIsThread
<1> QED
  BY <1>1, RequeueSound DEF Slice

(* The C40's timer handler slices when the hint says so or when the thread *)
(* has company at its own priority, and company means the hint is no lower.*)
LEMMA AfterWakeupsSound ==
  ASSUME TInv, Follows, UNCHANGED <<place, setting>>, Handler = "C40",
         NEW q \in RunqType, NEW st, NEW hint \in Priorities, hint <= HighestAvailPri, NEW preempt, Sound(q, hint), Quiet(st), AfterWakeups(q, st, hint, preempt)
  PROVE  Obeys
<1>0. CurrentPri \in Priorities
  BY DEF TInv, TypeOK
<1>1. CASE \E ticks \in {SliceTime, SliceTime - 1, TicksPerSlice} : Continue(q, st, hint, ticks)
  BY <1>1, ContinueSound
<1>2. CASE CurrentPri # HIGHPRI /\ hint < CurrentPri /\ Slice(q, st, hint)
  <2>1. hint <= CurrentPri
    BY <1>0, <1>2 DEF Priorities
  <2> QED
    BY <1>2, <2>1, SliceSound
<1>3. CASE CurrentPri # HIGHPRI /\ q[CurrentPri] # <<>> /\ Slice(q, st, hint)
  <2>1. hint <= CurrentPri
    BY <1>0, <1>3 DEF Sound, Priorities
  <2> QED
    BY <1>3, <2>1, SliceSound
<1> QED
  BY <1>1, <1>2, <1>3 DEF AfterWakeups

(* Resume() lowers the hint to the priority of the thread it queues.       *)
LEMMA ResumedSound ==
  ASSUME TInv, HintSound, NEW u \in Threads
  PROVE  /\ Sound(ResumedRunq(u), ResumedHint(u)) /\ Quiet(ResumedStatus(u))
         /\ ResumedHint(u) <= HighestAvailPri
<1>0. /\ priority[u] \in Priorities /\ runq \in RunqType /\ HighestAvailPri \in Priorities
      /\ Sound(runq, HighestAvailPri)
  BY DEF TInv, TypeOK, RunqType, HintSound, Sound
<1>1. Sound(ResumedRunq(u), ResumedHint(u))
  BY <1>0, LoweredSound DEF ResumedRunq, ResumedHint
<1>2. Quiet(ResumedStatus(u))
  BY DEF Quiet, ResumedStatus, TInv, TypeOK
<1>3. ResumedHint(u) <= HighestAvailPri
  BY <1>0 DEF ResumedHint, Lower, Priorities
<1> QED
  BY <1>1, <1>2, <1>3

(* The exit of a device interrupt does one of the two.                     *)
LEMMA IntrExitSound ==
  ASSUME TInv, Follows, UNCHANGED <<place, setting>>,
         NEW q \in RunqType, NEW st, NEW hint \in Priorities, hint <= HighestAvailPri,
         Sound(q, hint), Quiet(st), IntrExit(q, st, hint)
  PROVE  Obeys
<1>0. CurrentPri \in Priorities
  BY DEF TInv, TypeOK
<1>1. CASE hint < CurrentPri
  <2>1. CurrentPri # HIGHPRI /\ hint <= CurrentPri
    BY <1>0, <1>1 DEF HIGHPRI, Priorities
  <2> QED
    BY <1>1, <2>1, SliceSound DEF IntrExit
<1>2. CASE ~(hint < CurrentPri)
  BY <1>2, ContinueSound DEF IntrExit
<1> QED
  BY <1>1, <1>2

(* SetPhysPri() runs on at the new priority, ...                           *)
LEMMA SetPriSound ==
  ASSUME TInv, HintInv, NEW t \in Threads, NEW p \in Priorities, current = t,
         NEW pl \in {"setpri", "lower", "raise"}, SetPri(t, p, pl)
  PROVE  Obeys
<1>1. t \in Setters' /\ setting'[t].pri = p
  BY DEF SetPri, Setters, TInv, TypeOK
<1>2. /\ UNCHANGED <<runq, HighestAvailPri, current, status>> /\ CurrentPri' = p
  BY DEF SetPri, queues
<1>3. HintInv'
  BY <1>1, <1>2 DEF HintInv, HintSound, Follows
<1> QED
  BY <1>1, <1>2, <1>3 DEF Obeys, GivesWay

(* ... and lowers the hint to it before it yields.                         *)
LEMMA SetPriEndSound ==
  ASSUME TInv, HintInv, NEW t \in Threads, SetPriEnd(t)
  PROVE  Obeys
<1> DEFINE hint == Lower(setting[t].pri, HighestAvailPri)
<1>0. /\ HighestAvailPri \in Priorities /\ runq \in RunqType /\ CurrentPri \in Priorities
      /\ setting[t].pri \in Priorities /\ current = t /\ t \in Setters /\ HintSound
  BY DEF SetPriEnd, HintInv, TInv, TypeOK, RunqType
<1>1. hint \in Priorities /\ hint <= CurrentPri /\ hint <= HighestAvailPri
  BY <1>0 DEF Lower, Priorities, HintInv, Follows
<1>2. Sound(runq, hint)
  BY <1>0, <1>1 DEF Sound, HintSound, Priorities
<1>3. CASE YieldAt(CurrentPri, hint)
  BY <1>0, <1>1, <1>2, <1>3, RequeueSound DEF YieldAt
<1>4. CASE /\ ~(setting[t].old < setting[t].pri)
           /\ HighestAvailPri' = hint /\ UNCHANGED <<runq, cpu, status>>
  <2>1. HintSound' /\ Quiet(status')
    BY <1>2, <1>4 DEF HintSound, Sound, Quiet
  <2>2. CurrentPri' \in Priorities /\ CurrentPri' <= CurrentPri /\ current' = current
    BY <1>0, <1>4 DEF Priorities, cpu
  <2>3. Follows'
    BY <1>0, <1>1, <1>4, <2>2 DEF Follows, cpu
  <2>4. ~Lowered
    BY <1>0, <1>4 DEF Lowered
  <2> QED
    BY <2>1, <2>2, <2>3, <2>4, StaySound DEF HintInv
<1> QED
  BY <1>3, <1>4 DEF SetPriEnd

(* The functions System() calls.                                           *)
LEMMA InSystemSound ==
  ASSUME TInv, HintInv, NEW t \in Threads, InSystem(t)
  PROVE  Obeys
<1>0. /\ HintSound /\ HighestAvailPri \in Priorities /\ runq \in RunqType /\ Sound(runq, HighestAvailPri)
      /\ CurrentPri \in Priorities /\ CurrentPri <= CurrentPri
      /\ HIGHPRI \in Priorities /\ HIGHPRI + 1 \in Priorities
  BY LevelsAssumption DEF TInv, TypeOK, RunqType, HintInv, HintSound, Sound, HIGHPRI, Priorities
<1>1. ASSUME At(t, "system"), place' = [place EXCEPT ![t] = "return"],
             UNCHANGED <<runq, HighestAvailPri, current, CurrentPri, status>>
      PROVE  Obeys
  <2>1. HintSound' /\ Quiet(status')
    BY <1>0, <1>1 DEF HintSound, Quiet
  <2>2. current = t /\ t \notin Setters /\ t \notin Setters'
    BY <1>1 DEF At, Setters, TInv, TypeOK
  <2> QED
    BY <1>0, <1>1, <2>1, <2>2, StepOnSound
<1>2. ASSUME NEW st, Dispatch(runq, st, HighestAvailPri)
      PROVE  Obeys
  BY <1>0, <1>2, DispatchSound
<1>3. CASE SystemResume(t)
  <2>1. PICK u \in Threads : ResumeBy(t, u)
    BY <1>3 DEF SystemResume
  <2>2. HintSound' /\ Quiet(status') /\ UNCHANGED <<current, CurrentPri>>
    BY <1>0, <2>1, ResumedSound DEF ResumeBy, Resume, HintSound, Sound, Quiet, cpu
  <2>3. current = t /\ t \notin Setters /\ t \notin Setters'
    BY <2>1 DEF ResumeBy, At, Setters, TInv, TypeOK
  <2> QED
    BY <1>0, <2>2, <2>3, StepOnSound
<1>4. CASE SystemYield(t)
  <2>1. CASE ~YieldKeeps(HIGHPRI) /\ YieldAt(HIGHPRI, HighestAvailPri)
    <3>1. runq[HIGHPRI] # <<>> /\ current \in Threads
      BY <1>4, <2>1 DEF YieldKeeps, SystemYield, At
    <3>2. HighestAvailPri <= HIGHPRI
      BY <1>0, <3>1 DEF Sound, HIGHPRI, Priorities
    <3> QED
      BY <1>0, <2>1, <3>1, <3>2, RequeueSound DEF YieldAt
  <2> QED
    BY <1>1, <1>4, <2>1 DEF SystemYield, cpu
<1>5. CASE CopyBegin(t) \/ CopyEnd(t)
  <2>1. "lower" \in {"setpri", "lower", "raise"} /\ "raise" \in {"setpri", "lower", "raise"}
    OBVIOUS
  <2> QED
    BY <1>0, <1>5, <2>1, SetPriSound DEF CopyBegin, CopyEnd, At
<1> QED
  BY <1>1, <1>2, <1>3, <1>4, <1>5
     DEF InSystem, SystemPlain, SystemSuspend, Sleep, TimedSuspend, SleepAs, queues, cpu

(* A thread is started with the hint lowered to its priority.              *)
LEMMA StartSound ==
  ASSUME TInv, HintSound, NEW u \in Threads, NEW p \in Priorities, Start(u, p)
  PROVE  HintSound' /\ Quiet(status') /\ current' = current
<1>0. HighestAvailPri \in Priorities /\ runq \in RunqType /\ Sound(runq, HighestAvailPri)
  BY DEF TInv, TypeOK, RunqType, HintSound, Sound
<1>1. Sound(runq', HighestAvailPri')
  BY <1>0, LoweredSound DEF Start
<1>2. Quiet(status')
  BY DEF Start, Quiet, TInv, TypeOK
<1> QED
  BY <1>1, <1>2 DEF Start, Sound, HintSound

(* Each step inside System() obeys, ...                                    *)
LEMMA KernelSound ==
  ASSUME TInv, HintInv, NEW t \in Threads, Kernel(t)
  PROVE  Obeys
<1>0. /\ HintSound /\ HighestAvailPri \in Priorities /\ runq \in RunqType /\ Sound(runq, HighestAvailPri)
      /\ oldpri[t] \in Priorities
  BY DEF TInv, TypeOK, RunqType, HintInv, HintSound, Sound
<1>1. CASE InSystem(t)
  BY <1>1, InSystemSound
<1>2. CASE SystemReturn(t)
  <2>1. CASE HighestAvailPri < oldpri[t] /\ YieldAt(oldpri[t], HighestAvailPri)
    <3>1. HighestAvailPri <= oldpri[t] /\ current \in Threads
      BY <1>0, <1>2, <2>1 DEF SystemReturn, At, Priorities
    <3> QED
      BY <1>0, <2>1, <3>1, RequeueSound DEF YieldAt
  <2>2. CASE /\ ~(HighestAvailPri < oldpri[t]) /\ CurrentPri' = oldpri[t]
             /\ UNCHANGED <<runq, HighestAvailPri, current, SliceTime, status>>
    <3>1. \A p \in Priorities : p < oldpri[t] => p < HighestAvailPri
      BY <1>0, <2>2 DEF Priorities
    <3>2. HintSound'
      BY <1>0, <2>2 DEF HintSound
    <3>3. t \notin Setters' /\ current' = t
      BY <1>2, <2>2 DEF SystemReturn, At, Setters, TInv, TypeOK
    <3> QED
      BY <2>2, <3>1, <3>2, <3>3 DEF Obeys, HintInv, HintSound, Follows, GivesWay
  <2> QED
    BY <1>2, <2>1, <2>2 DEF SystemReturn
<1>3. CASE StopEnd(t)
  BY <1>0, <1>3, DispatchSound DEF StopEnd
<1>4. ASSUME NEW u \in Threads, NEW p \in Priorities, EnterEnd(t, u, p)
      PROVE  Obeys
  <2>1. HintSound' /\ Quiet(status') /\ current' = current
    BY <1>0, <1>4, StartSound DEF EnterEnd
  <2>2. current = t /\ place[t] = "create" /\ t \notin Setters /\ t \notin Setters'
    BY <1>4 DEF EnterEnd, At, Setters, TInv, TypeOK
  <2> QED
    BY <2>1, <2>2 DEF Obeys, HintInv, Follows, GivesWay, Quiet
<1>5. CASE SetPriEnd(t)
  BY <1>5, SetPriEndSound
<1> QED
  BY <1>1, <1>2, <1>3, <1>4, <1>5 DEF Kernel

(* ... so does each step of a program, ...                                 *)
LEMMA ProgramSound ==
  ASSUME TInv, HintInv, NEW t \in Threads, Program(t)
  PROVE  Obeys
<1>0. /\ HintSound /\ HighestAvailPri \in Priorities /\ runq \in RunqType /\ Sound(runq, HighestAvailPri)
      /\ CurrentPri \in Priorities /\ HIGHPRI \in Priorities
  BY LevelsAssumption DEF TInv, TypeOK, RunqType, HintInv, HintSound, Sound, HIGHPRI, Priorities
<1>1. CASE SystemEnter(t) \/ EnterBegin(t) \/ StopBegin(t)
  <2>1. UNCHANGED <<runq, HighestAvailPri, current>> /\ CurrentPri' \in {HIGHPRI, CurrentPri}
    BY <1>1 DEF SystemEnter, EnterBegin, StopBegin, queues, cpu
  <2>2. Quiet(status')
    BY <1>1 DEF SystemEnter, EnterBegin, StopBegin, Quiet, TInv, TypeOK
  <2>3. CurrentPri' \in Priorities /\ CurrentPri' <= CurrentPri
    BY <1>0, <2>1 DEF HIGHPRI, Priorities
  <2>4. HintSound'
    BY <1>0, <2>1 DEF HintSound
  <2>5. current = t /\ t \notin Setters /\ t \notin Setters'
    BY <1>1 DEF SystemEnter, EnterBegin, StopBegin, At, Setters, TInv, TypeOK
  <2> QED
    BY <2>1, <2>2, <2>3, <2>4, <2>5, StepOnSound
<1>2. CASE Suspend(t)
  BY <1>0, <1>2, DispatchSound DEF Suspend
<1>3. ASSUME NEW p \in Priorities, SetPhysPri(t, p)
      PROVE  Obeys
  <2>1. "setpri" \in {"setpri", "lower", "raise"}
    OBVIOUS
  <2> QED
    BY <1>3, <2>1, SetPriSound DEF SetPhysPri, At
<1> QED
  BY <1>1, <1>2, <1>3 DEF Program

(* ... of the boot thread, ...                                             *)
LEMMA BootSound ==
  ASSUME TInv, HintInv, Boot
  PROVE  Obeys
<1>1. CASE BootStop
  <2>1. HighestAvailPri \in Priorities /\ runq \in RunqType /\ Sound(runq, HighestAvailPri)
    BY DEF TInv, TypeOK, RunqType, HintInv, HintSound, Sound
  <2> QED
    BY <1>1, <2>1, DispatchSound DEF BootStop
<1>2. ASSUME NEW u \in Threads, NEW p \in Priorities, BootEnter(u, p)
      PROVE  Obeys
  <2>1. HintSound' /\ Quiet(status') /\ current' = current
    BY <1>2, StartSound DEF BootEnter, HintInv
  <2>2. CurrentPri' \in Priorities /\ CurrentPri' <= CurrentPri
    BY <1>2 DEF BootEnter, TInv, TypeOK, Priorities
  <2>3. current \notin Threads
    BY <1>2, ThreadsAssumption DEF BootEnter
  <2> QED
    BY <2>1, <2>2, <2>3, StaySound DEF Lowered, HintInv, Follows, Setters
<1> QED
  BY <1>1, <1>2 DEF Boot

(* The C40's timer handler lowers the hint to the priority of the thread   *)
(* it wakes, whoever is running.                                           *)
LEMMA TimerSound ==
  ASSUME TInv, HintInv, Handler = "C40", TimerInterrupt
  PROVE  Obeys
<1>0. /\ runq \in RunqType /\ HighestAvailPri \in Priorities /\ Sound(runq, HighestAvailPri)
      /\ timerq \in Seq(Threads) /\ priority \in [Threads -> Priorities]
      /\ Follows /\ UNCHANGED <<place, setting>>
  BY DEF TInv, TypeOK, RunqType, HintInv, HintSound, Sound, TimerInterrupt, TimerWake, TimerNoWake, Tick
<1>1. CASE TimerNoWake
  <2>1. Quiet(status) /\ HighestAvailPri <= HighestAvailPri
    BY <1>0 DEF Quiet, Priorities
  <2> QED
    BY <1>0, <1>1, <2>1, AfterWakeupsSound DEF TimerNoWake
<1>2. CASE TimerWake
  <2> DEFINE u  == Head(timerq)
             q  == [runq EXCEPT ![priority[u]] = Append(@, u)]
             st == [status EXCEPT ![u] = IF @ = "timedwait" THEN @ ELSE "runnable"]
  <2>1. u \in Threads
    BY <1>0, <1>2, HeadTailProperties DEF TimerWake, HeadDue
  <2>2. q \in RunqType
    BY <1>0, <2>1, EnqueueType
  <2>3. Quiet(st)
    BY DEF Quiet, TInv, TypeOK
  <2>4. HintAfterWake(u) = Lower(priority[u], HighestAvailPri)
    BY DEF HintAfterWake
  <2>5. HintAfterWake(u) \in Priorities /\ HintAfterWake(u) <= HighestAvailPri
    BY <1>0, <2>1, <2>4 DEF Lower, Priorities
  <2>6. Sound(q, HintAfterWake(u))
    BY <1>0, <2>1, <2>4, LoweredSound
  <2>7. AfterWakeups(q, st, HintAfterWake(u), priority[u] < CurrentPri)
    BY <1>2 DEF TimerWake
  <2> QED
    BY <1>0, <2>2, <2>3, <2>5, <2>6, <2>7, AfterWakeupsSound
<1> QED
  BY <1>1, <1>2 DEF TimerInterrupt

(* ... and of a device's handler.                                          *)
LEMMA DeviceSound ==
  ASSUME TInv, HintInv, DeviceInterrupt \/ \E u \in Threads : DeviceResume(u)
  PROVE  Obeys
<1>1. CASE DeviceInterrupt
  <2>1. /\ runq \in RunqType /\ HighestAvailPri \in Priorities
        /\ Sound(runq, HighestAvailPri) /\ Quiet(status) /\ HighestAvailPri <= HighestAvailPri
    BY DEF TInv, TypeOK, RunqType, HintInv, HintSound, Sound, Quiet, Priorities
  <2> QED
    BY <1>1, <2>1, IntrExitSound DEF DeviceInterrupt, HintInv
<1>2. ASSUME NEW u \in Threads, DeviceResume(u)
      PROVE  Obeys
  BY <1>2, ResumedType, ResumedSound, IntrExitSound DEF DeviceResume, IntrResume, HintInv
<1> QED
  BY <1>1, <1>2

(* Every step of the C40's executive keeps the hint sound and gives way.   *)
LEMMA StepSound ==
  ASSUME TInv, HintInv, Handler = "C40", Next
  PROVE  Obeys
<1>1. CASE IdleScan
  <2>1. HighestAvailPri \in Priorities /\ runq \in RunqType /\ Sound(runq, HighestAvailPri)
    BY DEF TInv, TypeOK, RunqType, HintInv, HintSound, Sound
  <2> QED
    BY <1>1, <2>1, DispatchSound DEF IdleScan
<1>2. CASE Boot
  BY <1>2, BootSound
<1>3. CASE TimerInterrupt
  BY <1>3, TimerSound
<1>4. ASSUME NEW t \in Threads, Kernel(t)
      PROVE  Obeys
  BY <1>4, KernelSound
<1>5. ASSUME NEW t \in Threads, Program(t)
      PROVE  Obeys
  BY <1>5, ProgramSound
<1>6. CASE DeviceInterrupt \/ \E u \in Threads : DeviceResume(u)
  BY <1>6, DeviceSound
<1> QED
  BY <1>1, <1>2, <1>3, <1>4, <1>5, <1>6 DEF Next

(* With the types the hint is inductive, and what follows from it.         *)
LEMMA HintInductive ==
  ASSUME Handler = "C40"
  PROVE  /\ Init => TInv /\ HintInv
         /\ TInv /\ HintInv /\ [Next]_vars => TInv' /\ HintInv'
         /\ TInv /\ HintInv /\ [Next]_vars => [GivesWay]_vars
<1>1. Init => HintInv
  BY ThreadsAssumption DEF Init, HintInv, HintSound, Follows, Setters
<1>2. TInv /\ HintInv /\ UNCHANGED vars => HintInv'
  BY DEF vars, queues, cpu, threads, HintInv, HintSound, Follows, Setters
<1> QED
  BY <1>1, <1>2, TypeInit, TypeStep, StepSound DEF Obeys

(* Under the C40's handlers the dispatcher's hint never hides a runnable   *)
(* thread, whatever programs and devices do.                               *)
THEOREM HintCorrect ==
  ASSUME Handler = "C40"
  PROVE  Spec => []HintSound
<1>1. Init => TInv /\ HintInv
  BY HintInductive
<1>2. TInv /\ HintInv /\ [Next]_vars => TInv' /\ HintInv'
  BY HintInductive
<1>3. HintInv => HintSound
  BY DEF HintInv
<1> QED
  BY <1>1, <1>2, <1>3, PTL DEF Spec

(* Under the C40's handlers whoever gets the processor, or lowers its      *)
(* priority, leaves no thread of a higher priority queued.                 *)
THEOREM PriorityAbsolute ==
  ASSUME Handler = "C40"
  PROVE  Spec => RunsHighest
<1>1. Init => TInv /\ HintInv
  BY HintInductive
<1>2. TInv /\ HintInv /\ [Next]_vars => TInv' /\ HintInv'
  BY HintInductive
<1>3. TInv /\ HintInv /\ [Next]_vars => [GivesWay]_vars
  BY HintInductive
<1> QED
  BY <1>1, <1>2, <1>3, PTL DEF Spec, RunsHighest
=============================================================================
