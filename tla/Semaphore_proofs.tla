-------------------------- MODULE Semaphore_proofs --------------------------
(***************************************************************************)
(* The semaphores, for any number of threads, semaphores and units: each   *)
(* behaviour is one of the executive's, a list holds only threads that are *)
(* in that wait, the counts are true, and the whole implements the         *)
(* counting semaphore.  TimedWait() is used on soft semaphores only.       *)
(***************************************************************************)
EXTENDS Semaphore, Queues_proofs

(* What the executive does to threads that do not call it.  A thread that  *)
(* waits goes on waiting, or is one whose time ran out and runs; one that  *)
(* is on its way out of the kernel keeps the processor.                    *)
Suspends(st, x) ==
  /\ st[x] = "semaphore" => status'[x] = "semaphore"
  /\ st[x] = "timedwait" => status'[x] = "timedwait" \/ current' = x

Undisturbed(x) ==
  /\ Suspends(status, x)
  /\ current = x /\ place[x] = "return" => current' = x
  /\ TimedWaitUtil'[x] = TimedWaitUtil[x]
  /\ place'[x] = place[x]

(* Only a runnable thread is on a run queue.                               *)
Ready(q, st) ==
  \A x \in Threads : On(q, x) => st[x] \in {"startup", "sliced", "runnable", "timedwait"}

(* The dispatcher takes a thread that does not wait, or was timed out.     *)
LEMMA DispatchSuspends ==
  ASSUME NEW q \in RunqType, NEW st \in StatusType, NEW hint, Ready(q, st), Dispatch(q, st, hint)
  PROVE  \A x \in Threads : Suspends(st, x)
<1>1. ASSUME NEW p \in Priorities, q[p] # <<>>,
             current' = Head(q[p]), status' = Marked(st, Head(q[p]), "running")
      PROVE  \A x \in Threads : Suspends(st, x)
  <2>1. q[p] \in Seq(Threads)
    BY DEF RunqType
  <2>2. Head(q[p]) \in Threads /\ On(q, Head(q[p]))
    BY <1>1, <2>1, TailList DEF On
  <2>3. st[Head(q[p])] # "semaphore"
    BY <2>2 DEF Ready
  <2>4. \A x \in Threads : status'[x] = IF x = Head(q[p]) THEN "running" ELSE st[x]
    BY <1>1, <2>2 DEF Marked, StatusType
  <2> QED
    BY <1>1, <2>3, <2>4 DEF Suspends
<1>2. CASE status' = st
  BY <1>2 DEF Suspends
<1> QED
  BY <1>1, <1>2 DEF Dispatch, FirstAvail, Marked

(* The calling thread leaves the processor with status s.                  *)
LEMMA LeavingSuspends ==
  ASSUME TInv, GInv, NEW t \in Threads, current = t, NEW s \in Status, NEW hint,
         Dispatch(runq, Marked(status, t, s), hint)
  PROVE  \A x \in Threads \ {t} : Suspends(status, x)
<1>1. /\ runq \in RunqType /\ status \in StatusType /\ Marked(status, t, s) \in StatusType
      /\ \A x \in Threads \ {t} : Marked(status, t, s)[x] = status[x]
  BY DEF TInv, TypeOK, RunqType, StatusType, Marked
<1>2. Ready(runq, Marked(status, t, s))
  BY <1>1 DEF GInv, Good, Held, Ready
<1>3. \A x \in Threads : Suspends(Marked(status, t, s), x)
  BY <1>1, <1>2, DispatchSuspends
<1> QED
  BY <1>1, <1>3 DEF Suspends

(* ... and so is it itself suspended.                                      *)
LEMMA CallerWaits ==
  ASSUME TInv, GInv, NEW t \in Threads, current = t, NEW s \in Status, NEW hint,
         Dispatch(runq, Marked(status, t, s), hint)
  PROVE  /\ s = "semaphore" => status'[t] = "semaphore"
         /\ s = "timedwait" => status'[t] = "timedwait" \/ current' = t
<1>1. /\ runq \in RunqType /\ Marked(status, t, s) \in StatusType
      /\ \A x \in Threads : Marked(status, t, s)[x] = IF x = t THEN s ELSE status[x]
  BY DEF TInv, TypeOK, RunqType, StatusType, Marked
<1>2. Ready(runq, Marked(status, t, s))
  BY <1>1 DEF GInv, Good, Held, Ready
<1>3. Suspends(Marked(status, t, s), t)
  BY <1>1, <1>2, DispatchSuspends
<1> QED
  BY <1>1, <1>3 DEF Suspends

(* The calling thread is queued again instead.                             *)
LEMMA YieldSuspends ==
  ASSUME TInv, GInv, NEW t \in Threads, current = t, NEW p \in Priorities, NEW hint, YieldAt(p, hint)
  PROVE  \A x \in Threads \ {t} : Suspends(status, x)
<1> DEFINE q  == Enqueued(runq, p, t)
           st == Marked(status, t, "runnable")
<1>1. /\ runq \in RunqType /\ status \in StatusType /\ st \in StatusType
      /\ \A x \in Threads : st[x] = IF x = t THEN "runnable" ELSE status[x]
  BY DEF TInv, TypeOK, RunqType, StatusType, Status, Marked
<1>2. q \in RunqType /\ \A x : On(q, x) <=> On(runq, x) \/ x = t
  BY <1>1, EnqueueType, EnqueueOn DEF Enqueued
<1>3. Dispatch(q, st, hint)
  BY DEF YieldAt, Enqueued, Marked
<1> HIDE DEF q, st
<1>4. Ready(q, st)
  BY <1>1, <1>2 DEF GInv, Good, Held, Ready
<1>5. \A x \in Threads : Suspends(st, x)
  BY <1>1, <1>2, <1>3, <1>4, DispatchSuspends
<1> QED
  BY <1>1, <1>5 DEF Suspends

(* An interrupt takes the processor from no thread in the kernel.          *)
LEMMA InterruptSuspends ==
  ASSUME TInv, GInv, NEW q \in RunqType, NEW st \in StatusType, NEW hint, Ready(q, st),
         current \in Threads => st[current] \in {"running", "killed"},
         \/ CurrentPri # HIGHPRI /\ Slice(q, st, hint)
         \/ \E ticks : Continue(q, st, hint, ticks)
  PROVE  /\ \A x \in Threads : Suspends(st, x)
         /\ \A x \in Threads : current = x /\ place[x] = "return" => current' = x
<1>1. CASE CurrentPri # HIGHPRI /\ Slice(q, st, hint)
  <2> DEFINE q2  == Enqueued(q, CurrentPri, current)
             st2 == Marked(st, current, "sliced")
  <2>1. /\ current \in Threads /\ CurrentPri \in Priorities /\ st2 \in StatusType
        /\ \A x \in Threads : st2[x] = IF x = current THEN "sliced" ELSE st[x]
    BY <1>1 DEF TInv, TypeOK, LowIsThread, StatusType, Status, Marked
  <2>2. q2 \in RunqType /\ \A x : On(q2, x) <=> On(q, x) \/ x = current
    BY <2>1, EnqueueType, EnqueueOn DEF Enqueued
  <2>3. Dispatch(q2, st2, hint)
    BY <1>1 DEF Slice, Enqueued, Marked
  <2> HIDE DEF q2, st2
  <2>4. Ready(q2, st2)
    BY <2>1, <2>2 DEF Ready
  <2>5. \A x \in Threads : Suspends(st2, x)
    BY <2>1, <2>2, <2>3, <2>4, DispatchSuspends
  <2>6. \A x \in Threads : current = x => place[x] # "return"
    <3>1. place[current] = "return" => due[current] = priority[current]
      BY <2>1, DueRecorded DEF Places, PlainPlaces
    <3> QED
      BY <1>1, <2>1, <3>1 DEF GInv, Running, KernelHigh
  <2> QED
    BY <2>1, <2>5, <2>6 DEF Suspends
<1>2. ASSUME NEW ticks, Continue(q, st, hint, ticks)
      PROVE  /\ \A x \in Threads : Suspends(st, x)
             /\ \A x \in Threads : current = x /\ place[x] = "return" => current' = x
  BY <1>2 DEF Continue, Suspends
<1> QED
  BY <1>1, <1>2

(* The steps that no thread takes.                                         *)
LEMMA ElsewhereSpares ==
  ASSUME TInv, GInv, IdleScan \/ Boot \/ TimerInterrupt
  PROVE  \A x \in Threads : Undisturbed(x)
<1>0. /\ runq \in RunqType /\ status \in StatusType /\ timerq \in Seq(Threads)
      /\ Ready(runq, status) /\ (current \in Threads => status[current] \in {"running", "killed"})
  BY DEF TInv, TypeOK, RunqType, StatusType, GInv, Good, Held, Ready
<1>1. CASE IdleScan \/ BootStop
  <2>1. /\ current \notin Threads /\ UNCHANGED <<TimedWaitUtil, place>>
        /\ Dispatch(runq, status, HighestAvailPri)
    BY <1>1, ThreadsAssumption DEF IdleScan, BootStop
  <2> QED
    BY <1>0, <2>1, DispatchSuspends DEF Undisturbed
<1>2. ASSUME NEW u \in Threads, NEW p \in Priorities, BootEnter(u, p)
      PROVE  \A x \in Threads : Undisturbed(x)
  <2>1. /\ current' = current /\ UNCHANGED <<TimedWaitUtil, place>>
        /\ status[u] = "none" /\ status' = [status EXCEPT ![u] = "startup"]
    BY <1>2 DEF BootEnter, Start
  <2> QED
    BY <1>0, <2>1 DEF Undisturbed, Suspends, StatusType
<1>3. CASE TimerNoWake
  <2>1. AfterWakeups(runq, status, HighestAvailPri, FALSE) /\ UNCHANGED <<TimedWaitUtil, place>>
    BY <1>3 DEF TimerNoWake, Tick
  <2> QED
    BY <1>0, <2>1, AfterWakeupsEnds, InterruptSuspends DEF Undisturbed
<1>4. CASE TimerWake
  <2> DEFINE u  == Head(timerq)
             s  == IF status[u] = "timedwait" THEN "timedwait" ELSE "runnable"
             q  == Enqueued(runq, priority[u], u)
             st == Marked(status, u, s)
  <2>1. /\ timerq # <<>> /\ UNCHANGED <<TimedWaitUtil, place>>
        /\ \E hint, preempt : AfterWakeups(q, st, hint, preempt)
    BY <1>4 DEF TimerWake, HeadDue, Tick, Enqueued, Marked
  <2>2. u \in Threads /\ In(timerq, u) /\ priority[u] \in Priorities
    BY <1>0, <2>1, TailList DEF TInv, TypeOK
  <2> HIDE DEF u
  <2>3. status[u] \in {"sleep", "timedwait"} /\ current # u
    BY <2>2 DEF GInv, Good, Held
  <2>4. st \in StatusType /\ \A x \in Threads : st[x] = IF x = u THEN s ELSE status[x]
    BY <1>0, <2>2 DEF StatusType, Status, Marked
  <2>5. q \in RunqType /\ \A x : On(q, x) <=> On(runq, x) \/ x = u
    BY <1>0, <2>2, EnqueueType, EnqueueOn DEF Enqueued
  <2> HIDE DEF q, st
  <2>6. Ready(q, st) /\ (current \in Threads => st[current] \in {"running", "killed"})
    BY <1>0, <2>3, <2>4, <2>5 DEF Ready
  <2>7. /\ \A x \in Threads : Suspends(st, x)
        /\ \A x \in Threads : current = x /\ place[x] = "return" => current' = x
    BY <2>1, <2>4, <2>5, <2>6, AfterWakeupsEnds, InterruptSuspends
  <2> QED
    BY <2>1, <2>3, <2>4, <2>7 DEF Undisturbed, Suspends
<1> QED
  BY <1>1, <1>2, <1>3, <1>4 DEF Boot, TimerInterrupt

(* A device interrupt that wakes nobody disturbs no waiter, ...            *)
LEMMA DeviceSpares ==
  ASSUME TInv, GInv, DeviceInterrupt
  PROVE  \A x \in Threads : Undisturbed(x)
<1>1. /\ runq \in RunqType /\ status \in StatusType /\ HighestAvailPri \in Priorities
      /\ Ready(runq, status) /\ (current \in Threads => status[current] \in {"running", "killed"})
  BY DEF TInv, TypeOK, RunqType, StatusType, GInv, Good, Held, Ready
<1>2. IntrExit(runq, status, HighestAvailPri) /\ UNCHANGED <<TimedWaitUtil, place>>
  BY DEF DeviceInterrupt
<1> QED
  BY <1>1, <1>2, IntrExitEnds, InterruptSuspends DEF Undisturbed

(* A thread's own steps.                                                   *)
LEMMA CallSpares ==
  ASSUME TInv, GInv, NEW t \in Threads,
         \/ SystemEnter(t) \/ SystemPlain(t) \/ SystemSuspend(t) \/ SystemReturn(t)
         \/ Suspend(t) \/ StopBegin(t) \/ StopEnd(t) \/ \E d \in 1 .. MaxSleep : TimedSuspend(t, d)
  PROVE  current = t /\ \A x \in Threads \ {t} : Undisturbed(x)
<1>0. status \in StatusType /\ place \in [Threads -> Places] /\ TimedWaitUtil \in [Threads -> BOOLEAN]
  BY DEF TInv, TypeOK, StatusType
<1>1. current = t
  BY DEF SystemEnter, SystemPlain, SystemSuspend, SystemReturn, Suspend, StopBegin, StopEnd,
         TimedSuspend, SleepAs, At
<1>2. /\ \A x \in Threads \ {t} : TimedWaitUtil'[x] = TimedWaitUtil[x]
      /\ \A x \in Threads \ {t} : place'[x] = place[x]
  BY <1>0 DEF SystemEnter, SystemPlain, SystemSuspend, SystemReturn, Suspend, StopBegin, StopEnd,
              TimedSuspend, SleepAs
<1>3. CASE SystemEnter(t) \/ SystemPlain(t)
  BY <1>1, <1>2, <1>3 DEF SystemEnter, SystemPlain, Undisturbed, Suspends
<1>4. CASE StopBegin(t)
  BY <1>0, <1>1, <1>2, <1>4 DEF StopBegin, StatusType, Undisturbed, Suspends
<1>5. ASSUME \E s \in Status : Dispatch(runq, Marked(status, t, s), HighestAvailPri)
      PROVE  \A x \in Threads \ {t} : Undisturbed(x)
  BY <1>1, <1>2, <1>5, LeavingSuspends DEF Undisturbed
<1>6. CASE SystemSuspend(t) \/ Suspend(t)
  <2>1. "semaphore" \in Status /\ Dispatch(runq, Marked(status, t, "semaphore"), HighestAvailPri)
    BY <1>6 DEF SystemSuspend, Suspend, Marked, Status
  <2> QED
    BY <1>1, <1>5, <2>1
<1>7. CASE StopEnd(t)
  <2>1. status = Marked(status, t, status[t]) /\ status[t] \in Status
    BY <1>0 DEF StatusType, Marked
  <2>2. Dispatch(runq, status, HighestAvailPri)
    BY <1>7 DEF StopEnd
  <2> QED
    BY <1>1, <1>5, <2>1, <2>2
<1>8. CASE \E d \in 1 .. MaxSleep : TimedSuspend(t, d)
  <2>1. "timedwait" \in Status /\ Dispatch(runq, Marked(status, t, "timedwait"), HighestAvailPri)
    BY <1>8 DEF TimedSuspend, SleepAs, Marked, Status
  <2> QED
    BY <1>1, <1>5, <2>1
<1>9. CASE SystemReturn(t)
  <2>1. oldpri[t] \in Priorities
    BY DEF TInv, TypeOK
  <2>2. CASE YieldAt(oldpri[t], HighestAvailPri)
    BY <1>1, <1>2, <2>1, <2>2, YieldSuspends DEF Undisturbed
  <2>3. CASE status' = status
    BY <1>1, <1>2, <2>3 DEF Undisturbed, Suspends
  <2> QED
    BY <1>9, <2>2, <2>3 DEF SystemReturn
<1> QED
  BY <1>1, <1>3, <1>4, <1>6, <1>7, <1>8, <1>9

(* Resume() and IntrResume() of a suspended thread.                        *)
LEMMA ResumeSpares ==
  ASSUME TInv, GInv, NEW t \in Threads, NEW u \in Threads, Suspended(u), ResumeBy(t, u)
  PROVE  /\ current = t /\ current' = t /\ u # t
         /\ \A x \in Threads \ {t, u} : Undisturbed(x)
<1>1. status \in StatusType /\ place \in [Threads -> Places] /\ TimedWaitUtil \in [Threads -> BOOLEAN]
  BY DEF TInv, TypeOK, StatusType
<1>2. current = t /\ current' = t /\ u # t
  BY DEF ResumeBy, At, cpu, Suspended, GInv, Good, Held
<1> QED
  BY <1>1, <1>2 DEF ResumeBy, Resume, ResumedStatus, Untimed, Undisturbed, Suspends, StatusType

(* ... and one that wakes a suspended thread disturbs nobody else.         *)
LEMMA IntrResumeSpares ==
  ASSUME TInv, GInv, NEW u \in Threads, Suspended(u), IntrResume(u)
  PROVE  current # u /\ \A x \in Threads \ {u} : Undisturbed(x)
<1>1. /\ ResumedRunq(u) \in RunqType /\ ResumedStatus(u) \in StatusType /\ ResumedHint(u) \in Priorities
      /\ status \in StatusType /\ TimedWaitUtil \in [Threads -> BOOLEAN]
  BY ResumedType DEF TInv, TypeOK, StatusType
<1>2. Good(ResumedRunq(u), timerq', ResumedStatus(u), due, current) /\ current # u
  BY ResumedGood DEF IntrResume, Suspended, GInv, Good, Held
<1>3. /\ Ready(ResumedRunq(u), ResumedStatus(u))
      /\ current \in Threads => ResumedStatus(u)[current] \in {"running", "killed"}
  BY <1>2 DEF Good, Held, Ready
<1>4. IntrExit(ResumedRunq(u), ResumedStatus(u), ResumedHint(u)) /\ place' = place
  BY DEF IntrResume
<1>5. /\ \A x \in Threads : Suspends(ResumedStatus(u), x)
      /\ \A x \in Threads : current = x /\ place[x] = "return" => current' = x
  BY <1>1, <1>3, <1>4, IntrExitEnds, InterruptSuspends
<1>6. /\ \A x \in Threads \ {u} : ResumedStatus(u)[x] = status[x]
      /\ \A x \in Threads \ {u} : TimedWaitUtil'[x] = TimedWaitUtil[x]
  BY <1>1 DEF ResumedStatus, StatusType, IntrResume, Untimed
<1> QED
  BY <1>2, <1>4, <1>5, <1>6 DEF Undisturbed, Suspends

----------------------------------------------------------------------------
(* The inductive invariant.  Of every thread: whose list its Id is on and  *)
(* what its own records say; a thread that TimedWait() suspended is off    *)
(* the list exactly when Resume() has told it so, and one that is still on *)
(* it has either not been timed out, or has the processor and is about to  *)
(* unlink itself.                                                          *)
WaitsIn(x, s) == In(waiters[s], x)

Waiting(x) ==
  \A s \in Sems : WaitsIn(x, s) =>
     /\ rc[x] = "true"
     /\ IF waitsOn[x] = NoSem THEN status[x] = "semaphore" ELSE waitsOn[x] = s

Timed(x) ==
  waitsOn[x] # NoSem =>
    /\ place[x] = "return" /\ waitsOn[x] \notin Hard /\ rc[x] = "true"
    /\ TimedWaitUtil[x] <=> ~Queued(x)
    /\ Queued(x) => status[x] = "timedwait" \/ current = x

Calling(x) == place[x] = "system" => rc[x] = "none"

Member(x) == Waiting(x) /\ Timed(x) /\ Calling(x)

(* No Id is on two lists, or twice on one.                                 *)
Apiece(w) == /\ \A s \in Sems : Once(w[s])
            /\ \A s, r \in Sems, x \in Threads : In(w[s], x) /\ In(w[r], x) => s = r

Counted(s) == IF s \in Hard THEN Len(waiters[s]) = (IF Count[s] < 0 THEN -Count[s] ELSE 0)
                            ELSE Count[s] >= 0 /\ (Count[s] > 0 => waiters[s] = <<>>)

SType == /\ Count \in [Sems -> Int]
         /\ waiters \in [Sems -> Seq(Threads)]
         /\ waitsOn \in [Threads -> Sems \cup {NoSem}]
         /\ rc \in [Threads -> {"none", "true", "false"}]
         /\ stopping \subseteq Threads

SInv == /\ SType
        /\ \A x \in Threads : Member(x)
        /\ Apiece(waiters)
        /\ \A s \in Sems : Counted(s)

(* A thread that no call concerns.                                         *)
Same(x) == /\ rc'[x] = rc[x] /\ waitsOn'[x] = waitsOn[x]
           /\ \A s \in Sems : In(waiters'[s], x) <=> In(waiters[s], x)

(* What is known of a thread stays true when nothing happens to it.        *)
LEMMA MemberSpared ==
  ASSUME NEW x \in Threads, Member(x), Undisturbed(x), Same(x)
  PROVE  Member(x)'
<1>1. \A s \in Sems : WaitsIn(x, s)' <=> WaitsIn(x, s)
  BY DEF Same, WaitsIn
<1>2. Queued(x)' <=> Queued(x)
  BY DEF Same, Queued
<1>3. Waiting(x)'
  BY <1>1 DEF Member, Waiting, Same, Undisturbed, Suspends
<1>4. Timed(x)'
  BY <1>2 DEF Member, Timed, Same, Undisturbed, Suspends
<1>5. Calling(x)'
  BY DEF Member, Calling, Same, Undisturbed
<1> QED
  BY <1>3, <1>4, <1>5 DEF Member

(* A thread that waits for nothing.                                        *)
LEMMA MemberFree ==
  ASSUME NEW x \in Threads, waitsOn'[x] = NoSem, \A s \in Sems : ~In(waiters'[s], x),
         place'[x] = "system" => rc'[x] = "none"
  PROVE  Member(x)'
BY DEF Member, Waiting, Timed, Calling, WaitsIn

(* The running thread is on no list, unless its TimedWait() is about to    *)
(* return.                                                                 *)
LEMMA CallerFree ==
  ASSUME GInv, SInv, NEW t \in Threads, current = t, place[t] # "return" \/ waitsOn[t] = NoSem
  PROVE  waitsOn[t] = NoSem /\ (\A s \in Sems : ~In(waiters[s], t)) /\ ~Queued(t)
<1>1. waitsOn[t] = NoSem
  BY DEF SInv, Member, Timed
<1>2. status[t] # "semaphore"
  BY DEF GInv, Good, Held
<1> QED
  BY <1>1, <1>2 DEF SInv, Member, Waiting, WaitsIn, Queued

(* The lists.                                                              *)
Listed(w, x, s, w2) ==
  \A r \in Sems, y \in Threads : In(w2[r], y) <=> In(w[r], y) \/ (y = x /\ r = s)

Unlisted(w, x, w2) ==
  \A r \in Sems, y \in Threads : In(w2[r], y) <=> In(w[r], y) /\ y # x

(* The lists when t has joined the list of s, ...                          *)
LEMMA QueueLists ==
  ASSUME SType, Apiece(waiters), NEW t \in Threads, NEW s \in Sems,
         \A r \in Sems : ~In(waiters[r], t), Queue(t, s)
  PROVE  /\ waiters' \in [Sems -> Seq(Threads)] /\ Apiece(waiters') /\ Listed(waiters, t, s, waiters')
         /\ Len(waiters[s]) \in Nat /\ Len(waiters'[s]) = Len(waiters[s]) + 1
         /\ \A r \in Sems \ {s} : waiters'[r] = waiters[r]
<1>1. waiters[s] \in Seq(Threads) /\ waiters' = [waiters EXCEPT ![s] = Append(waiters[s], t)]
  BY DEF SType, Queue
<1>2. /\ Append(waiters[s], t) \in Seq(Threads) /\ Once(Append(waiters[s], t))
      /\ \A x : In(Append(waiters[s], t), x) <=> In(waiters[s], x) \/ x = t
  BY <1>1, AppendList DEF Apiece
<1>3. Len(waiters[s]) \in Nat /\ Len(Append(waiters[s], t)) = Len(waiters[s]) + 1
  BY <1>1, AppendProperties, LenProperties
<1>4. /\ waiters'[s] = Append(waiters[s], t) /\ \A r \in Sems \ {s} : waiters'[r] = waiters[r]
      /\ waiters' \in [Sems -> Seq(Threads)]
  BY <1>1, <1>2 DEF SType
<1>5. Listed(waiters, t, s, waiters')
  BY <1>2, <1>4 DEF Listed
<1>6. Apiece(waiters')
  <2>1. \A r \in Sems : Once(waiters'[r])
    BY <1>2, <1>4 DEF Apiece
  <2> QED
    BY <1>5, <2>1 DEF Apiece, Listed
<1> QED
  BY <1>3, <1>4, <1>5, <1>6

(* ... when the head of the list of s has left, ...                        *)
LEMMA DequeueLists ==
  ASSUME SType, Apiece(waiters), NEW s \in Sems, waiters[s] # <<>>, Dequeue(s)
  PROVE  /\ waiters' \in [Sems -> Seq(Threads)] /\ Apiece(waiters')
         /\ Head(waiters[s]) \in Threads /\ In(waiters[s], Head(waiters[s]))
         /\ Unlisted(waiters, Head(waiters[s]), waiters')
         /\ Len(waiters[s]) \in Nat \ {0} /\ Len(waiters'[s]) = Len(waiters[s]) - 1
         /\ \A r \in Sems \ {s} : waiters'[r] = waiters[r]
<1>1. waiters[s] \in Seq(Threads) /\ waiters' = [waiters EXCEPT ![s] = Tail(waiters[s])]
  BY DEF SType, Dequeue
<1>2. /\ Head(waiters[s]) \in Threads /\ Tail(waiters[s]) \in Seq(Threads) /\ Once(Tail(waiters[s]))
      /\ In(waiters[s], Head(waiters[s]))
      /\ \A x : In(Tail(waiters[s]), x) <=> In(waiters[s], x) /\ x # Head(waiters[s])
      /\ Len(waiters[s]) \in Nat \ {0} /\ Len(Tail(waiters[s])) = Len(waiters[s]) - 1
  BY <1>1, TailList DEF Apiece
<1>3. /\ waiters'[s] = Tail(waiters[s]) /\ \A r \in Sems \ {s} : waiters'[r] = waiters[r]
      /\ waiters' \in [Sems -> Seq(Threads)]
  BY <1>1, <1>2 DEF SType
<1>4. Unlisted(waiters, Head(waiters[s]), waiters')
  BY <1>2, <1>3 DEF Unlisted, Apiece
<1>5. Apiece(waiters')
  <2>1. \A r \in Sems : Once(waiters'[r])
    BY <1>2, <1>3 DEF Apiece
  <2> QED
    BY <1>4, <2>1 DEF Apiece, Unlisted
<1> QED
  BY <1>2, <1>3, <1>4, <1>5

(* ... and when t has unlinked itself from the list of s.                  *)
LEMMA WithoutLists ==
  ASSUME SType, Apiece(waiters), NEW s \in Sems, NEW t \in Threads, In(waiters[s], t),
         waiters' = [waiters EXCEPT ![s] = Without(@, t)]
  PROVE  /\ waiters' \in [Sems -> Seq(Threads)] /\ Apiece(waiters')
         /\ Unlisted(waiters, t, waiters')
         /\ \A r \in Sems \ {s} : waiters'[r] = waiters[r]
<1>1. waiters[s] \in Seq(Threads) /\ Once(waiters[s])
  BY DEF SType, Apiece
<1>2. PICK k \in 1 .. Len(waiters[s]) : waiters[s][k] = t /\ Removed(waiters[s], k, Without(waiters[s], t))
  BY <1>1, WithoutPlace
<1>3. Without(waiters[s], t) \in Seq(Threads)
  BY <1>1, WithoutPlace
<1>4. /\ Once(Without(waiters[s], t))
      /\ \A x : In(Without(waiters[s], t), x) <=> In(waiters[s], x) /\ x # t
  BY <1>1, <1>2, <1>3, RemovedList
<1>5. /\ waiters'[s] = Without(waiters[s], t) /\ \A r \in Sems \ {s} : waiters'[r] = waiters[r]
      /\ waiters' \in [Sems -> Seq(Threads)]
  BY <1>3 DEF SType
<1>6. Unlisted(waiters, t, waiters')
  BY <1>4, <1>5 DEF Unlisted, Apiece
<1>7. Apiece(waiters')
  <2>1. \A r \in Sems : Once(waiters'[r])
    BY <1>4, <1>5 DEF Apiece
  <2> QED
    BY <1>6, <2>1 DEF Apiece, Unlisted
<1> QED
  BY <1>5, <1>6, <1>7

----------------------------------------------------------------------------
(* The invariant is kept, in general: by a step that leaves the lists as   *)
(* they are, ...                                                           *)
Free(x) == waitsOn[x] = NoSem /\ \A s \in Sems : ~In(waiters[s], x)

(* A step that leaves the lists alone keeps the invariant.                 *)
LEMMA StayKeeps ==
  ASSUME SInv, UNCHANGED <<waiters, waitsOn>>, SType', \A s \in Sems : Counted(s)',
         \A x \in Threads : \/ Undisturbed(x) /\ rc'[x] = rc[x]
                            \/ Free(x) /\ (place'[x] = "system" => rc'[x] = "none")
  PROVE  SInv'
<1>1. ASSUME NEW x \in Threads
      PROVE  Member(x)'
  <2>1. CASE Undisturbed(x) /\ rc'[x] = rc[x]
    BY <2>1, MemberSpared DEF SInv, Same
  <2>2. CASE Free(x) /\ (place'[x] = "system" => rc'[x] = "none")
    BY <2>2, MemberFree DEF Free
  <2> QED
    BY <2>1, <2>2
<1> QED
  BY <1>1 DEF SInv

(* ... by the thread t that joins the list of s, ...                       *)
LEMMA JoinKeeps ==
  ASSUME SInv, SType', NEW t \in Threads, NEW s \in Sems, Free(t), Queue(t, s), rc'[t] = "true",
         place'[t] # "system",
         \/ waitsOn'[t] = NoSem /\ status'[t] = "semaphore"
         \/ /\ waitsOn'[t] = s /\ s \notin Hard /\ place'[t] = "return" /\ ~TimedWaitUtil'[t]
            /\ status'[t] = "timedwait" \/ current' = t,
         \A x \in Threads \ {t} : Undisturbed(x) /\ rc'[x] = rc[x] /\ waitsOn'[x] = waitsOn[x],
         Count[s] <= 0,
         Count' = IF s \in Hard THEN [Count EXCEPT ![s] = @ - 1] ELSE Count
  PROVE  SInv'
<1>1. /\ Apiece(waiters') /\ Listed(waiters, t, s, waiters')
      /\ Len(waiters[s]) \in Nat /\ Len(waiters'[s]) = Len(waiters[s]) + 1
      /\ \A r \in Sems \ {s} : waiters'[r] = waiters[r]
  BY QueueLists DEF SInv, Free
<1>2. ASSUME NEW x \in Threads \ {t}
      PROVE  Member(x)'
  <2>1. Same(x)
    BY <1>1 DEF Same, Listed
  <2> QED
    BY <2>1, MemberSpared DEF SInv
<1>3. \A r \in Sems : In(waiters'[r], t) <=> r = s
  BY <1>1 DEF Free, Listed
<1>4. Member(t)'
  <2>1. Waiting(t)'
    BY <1>3, NoSemAssumption DEF Waiting, WaitsIn
  <2>2. Queued(t)'
    BY <1>3 DEF Queued
  <2>3. Timed(t)'
    BY <2>2, NoSemAssumption DEF Timed
  <2> QED
    BY <2>1, <2>3 DEF Member, Calling
<1>5. \A r \in Sems : Counted(r)'
  <2>1. \A r \in Sems \ {s} : Count'[r] = Count[r]
    BY DEF SInv, SType
  <2>2. Counted(s) /\ Count[s] \in Int
    BY DEF SInv, SType
  <2>3. CASE s \in Hard
    <3>1. Count'[s] = Count[s] - 1
      BY <2>3 DEF SInv, SType
    <3>2. Counted(s)'
      BY <1>1, <2>2, <2>3, <3>1 DEF Counted
    <3> QED
      BY <1>1, <2>1, <3>2 DEF SInv, Counted
  <2>4. CASE s \notin Hard
    <3>1. Counted(s)'
      BY <2>2, <2>4 DEF Counted
    <3> QED
      BY <1>1, <2>1, <3>1 DEF SInv, Counted
  <2> QED
    BY <2>3, <2>4
<1> QED
  BY <1>1, <1>2, <1>4, <1>5 DEF SInv

(* ... by a signal that wakes the first waiter, ...                        *)
LEMMA HeadSuspended ==
  ASSUME GInv, SInv, NEW s \in Sems, waiters[s] # <<>>, s \in Hard \/ place[current] # "return"
  PROVE  Head(waiters[s]) \in Threads /\ Suspended(Head(waiters[s]))
<1>1. Head(waiters[s]) \in Threads /\ In(waiters[s], Head(waiters[s]))
  BY TailList DEF SInv, SType
<1>2. PICK u \in Threads : u = Head(waiters[s]) /\ WaitsIn(u, s)
  BY <1>1 DEF WaitsIn
<1>3. Member(u)
  BY DEF SInv
<1>4. CASE waitsOn[u] = NoSem
  BY <1>2, <1>3, <1>4 DEF Member, Waiting, Suspended
<1>5. CASE waitsOn[u] # NoSem
  <2>1. waitsOn[u] = s /\ s \notin Hard /\ place[u] = "return"
    BY <1>2, <1>3, <1>5 DEF Member, Waiting, Timed
  <2>2. Queued(u)
    BY <1>2 DEF WaitsIn, Queued
  <2>3. status[u] = "timedwait"
    BY <1>3, <1>5, <2>1, <2>2 DEF Member, Timed
  <2> QED
    BY <1>2, <2>3 DEF Suspended
<1> QED
  BY <1>2, <1>4, <1>5

(* So does one that takes the first waiter of s and resumes it.            *)
LEMMA WakeKeeps ==
  ASSUME TInv, GInv, SInv, SType', NEW s \in Sems, waiters[s] # <<>>, NEW u \in Threads, u = Head(waiters[s]),
         Suspended(u), Dequeue(s), Untimed(u), place'[u] = place[u],
         UNCHANGED <<waitsOn, rc>>,
         \A x \in Threads \ {u} : Undisturbed(x) \/ (Free(x) /\ place'[x] # "system"),
         Count' = IF s \in Hard THEN [Count EXCEPT ![s] = @ + 1] ELSE Count,
         s \in Hard => Count[s] < 0
  PROVE  SInv'
<1>1. /\ Apiece(waiters') /\ In(waiters[s], u) /\ Unlisted(waiters, u, waiters')
      /\ Len(waiters[s]) \in Nat \ {0} /\ Len(waiters'[s]) = Len(waiters[s]) - 1
      /\ \A r \in Sems \ {s} : waiters'[r] = waiters[r]
  BY DequeueLists DEF SInv
<1>2. ASSUME NEW x \in Threads \ {u}
      PROVE  Member(x)'
  <2>1. \A r \in Sems : In(waiters'[r], x) <=> In(waiters[r], x)
    BY <1>1 DEF Unlisted
  <2>2. CASE Undisturbed(x)
    BY <2>1, <2>2, MemberSpared DEF SInv, Same
  <2>3. CASE Free(x) /\ place'[x] # "system"
    BY <2>1, <2>3, MemberFree DEF Free
  <2> QED
    BY <2>2, <2>3
<1>3. (\A r \in Sems : ~In(waiters'[r], u)) /\ ~Queued(u)'
  BY <1>1 DEF Unlisted, Queued
<1>4. Member(u) /\ WaitsIn(u, s) /\ Queued(u)
  BY <1>1 DEF SInv, WaitsIn, Queued
<1>5. Member(u)'
  <2>1. rc[u] = "true" /\ place[u] # "system"
    BY <1>4 DEF Member, Waiting, Calling
  <2>2. CASE waitsOn[u] = NoSem
    BY <1>3, <2>1, <2>2, MemberFree
  <2>3. CASE waitsOn[u] # NoSem
    <3>1. status[u] = "timedwait"
      BY <1>4, <2>3 DEF Member, Timed, Suspended, GInv, Good, Held
    <3>2. TimedWaitUtil'[u]
      BY <3>1 DEF Untimed, TInv, TypeOK
    <3> QED
      BY <1>3, <1>4, <2>1, <2>3, <3>2 DEF Member, Waiting, Timed, Calling, WaitsIn
  <2> QED
    BY <2>2, <2>3
<1>6. \A r \in Sems : Counted(r)'
  <2>1. \A r \in Sems \ {s} : Count'[r] = Count[r]
    BY DEF SInv, SType
  <2>2. Counted(s) /\ Count[s] \in Int
    BY DEF SInv, SType
  <2>3. CASE s \in Hard
    <3>1. Count'[s] = Count[s] + 1
      BY <2>3 DEF SInv, SType
    <3>2. Counted(s)'
      BY <1>1, <2>2, <2>3, <3>1 DEF Counted
    <3> QED
      BY <1>1, <2>1, <3>2 DEF SInv, Counted
  <2>4. CASE s \notin Hard
    <3>1. Counted(s)'
      BY <2>2, <2>4 DEF Counted
    <3> QED
      BY <1>1, <2>1, <3>1 DEF SInv, Counted
  <2> QED
    BY <2>3, <2>4
<1> QED
  BY <1>1, <1>2, <1>5, <1>6 DEF SInv

(* ... and by a timed-out thread that unlinks itself.                      *)
LEMMA ReturnKeeps ==
  ASSUME TInv, GInv, SInv, NEW t \in Threads, TimedWaitReturns(t)
  PROVE  SInv'
<1>1. /\ current = t /\ place[t] = "return" /\ waitsOn[t] \in Sems \ Hard
      /\ UNCHANGED <<vars, Count, stopping>>
      /\ \A x \in Threads : Undisturbed(x)
  BY DEF TimedWaitReturns, At, SInv, SType, Member, Timed, vars, threads, cpu, Undisturbed, Suspends
<1>2. /\ \A x \in Threads \ {t} : rc'[x] = rc[x] /\ waitsOn'[x] = waitsOn[x]
      /\ waitsOn'[t] = NoSem
  BY DEF TimedWaitReturns, Returns, SInv, SType
<1>3. /\ waiters' \in [Sems -> Seq(Threads)] /\ Apiece(waiters') /\ Unlisted(waiters, t, waiters')
      /\ \A s \in Sems : waiters[s] = <<>> => waiters'[s] = <<>>
      /\ \A s \in Hard : waiters'[s] = waiters[s]
  <2>1. CASE TimedWaitUtil[t]
    <3>1. waiters' = waiters /\ ~Queued(t)
      BY <1>1, <2>1 DEF TimedWaitReturns, SInv, Member, Timed
    <3> QED
      BY <3>1, HardAssumption DEF SInv, SType, Unlisted, Queued
  <2>2. CASE ~TimedWaitUtil[t]
    <3> DEFINE s == waitsOn[t]
    <3>1. waiters' = [waiters EXCEPT ![s] = Without(@, t)]
      BY <2>2 DEF TimedWaitReturns
    <3>2. In(waiters[s], t)
      BY <1>1, <2>2, NoSemAssumption DEF SInv, Member, Timed, Waiting, WaitsIn, Queued
    <3> HIDE DEF s
    <3>3. s \in Sems \ Hard
      BY <1>1 DEF s
    <3>4. /\ waiters' \in [Sems -> Seq(Threads)] /\ Apiece(waiters') /\ Unlisted(waiters, t, waiters')
          /\ \A r \in Sems \ {s} : waiters'[r] = waiters[r]
      BY <3>1, <3>2, <3>3, WithoutLists DEF SInv
    <3>5. waiters[s] # <<>>
      BY <3>2 DEF In
    <3> QED
      BY <3>3, <3>4, <3>5, HardAssumption
  <2> QED
    BY <2>1, <2>2
<1>4. ASSUME NEW x \in Threads \ {t}
      PROVE  Member(x)'
  <2>1. Same(x)
    BY <1>2, <1>3 DEF Same, Unlisted
  <2> QED
    BY <1>1, <2>1, MemberSpared DEF SInv
<1>5. Member(t)'
  <2>1. place'[t] # "system"
    BY <1>1 DEF vars, threads
  <2> QED
    BY <1>2, <1>3, <2>1, MemberFree DEF Unlisted
<1>6. \A s \in Sems : Counted(s)'
  BY <1>1, <1>3 DEF SInv, Counted
<1>7. SType'
  BY <1>1, <1>3 DEF SInv, SType, TimedWaitReturns, Returns
<1> QED
  BY <1>3, <1>4, <1>5, <1>6, <1>7 DEF SInv

----------------------------------------------------------------------------
(* The steps: each is one of the executive's, and keeps the invariant.     *)
LEMMA CountKept ==
  ASSUME SInv, NEW s \in Sems, NEW n \in Int, waiters' = waiters, Count' = [Count EXCEPT ![s] = n],
         IF s \in Hard THEN n >= 0 /\ Count[s] >= 0 ELSE n >= 0 /\ (n > 0 => waiters[s] = <<>>)
  PROVE  \A r \in Sems : Counted(r)'
<1>1. Count'[s] = n /\ (\A r \in Sems \ {s} : Count'[r] = Count[r]) /\ Count[s] \in Int
  BY DEF SInv, SType
<1>2. Counted(s)'
  BY <1>1 DEF SInv, Counted
<1> QED
  BY <1>1, <1>2 DEF SInv, Counted

(* A call that leaves the lists alone.                                     *)
LEMMA PlainStep ==
  ASSUME TInv, GInv, SInv, NEW t \in Threads, place[t] # "return" \/ waitsOn[t] = NoSem,
         \/ SystemEnter(t) /\ rc'[t] = "none"
         \/ SystemPlain(t)
         \/ StopEnd(t)
         \/ StopBegin(t)
         \/ SystemReturn(t),
         UNCHANGED <<waiters, waitsOn>>, SType', \A s \in Sems : Counted(s)',
         \A x \in Threads \ {t} : rc'[x] = rc[x]
  PROVE  Next /\ SInv'
<1>1. current = t /\ \A x \in Threads \ {t} : Undisturbed(x)
  BY CallSpares
<1>2. Free(t)
  BY <1>1, CallerFree DEF Free
<1>3. place'[t] = "system" => rc'[t] = "none"
  BY DEF SystemEnter, SystemPlain, StopEnd, StopBegin, SystemReturn, TInv, TypeOK
<1>4. Next
  BY DEF Next, Kernel, InSystem, Program
<1> QED
  BY <1>1, <1>2, <1>3, <1>4, StayKeeps

(* Taking a unit that is there is a step of the executive and keeps the    *)
(* invariant, ...                                                          *)
LEMMA ObtainStep ==
  ASSUME TInv, GInv, SInv, NEW t \in Threads, NEW s \in Sems \ Hard, Obtain(t, s)
  PROVE  Next /\ SInv'
<1>1. /\ SystemPlain(t) /\ place[t] = "system" /\ UNCHANGED <<waiters, waitsOn, stopping>>
      /\ Count' = [Count EXCEPT ![s] = Count[s] - 1] /\ rc' = [rc EXCEPT ![t] = "true"]
      /\ Count[s] \in Int /\ Count[s] > 0
  BY DEF Obtain, SystemPlain, At, Decrement, Returns, SInv, SType
<1>2. waiters[s] = <<>>
  BY <1>1 DEF SInv, Counted
<1>3. SType'
  BY <1>1 DEF SInv, SType
<1>4. \A r \in Sems : Counted(r)'
  <2>1. Count[s] - 1 \in Int /\ Count[s] - 1 >= 0
    BY <1>1
  <2> QED
    BY <1>1, <1>2, <2>1, CountKept
<1>5. \A x \in Threads \ {t} : rc'[x] = rc[x]
  BY <1>1 DEF SInv, SType
<1> QED
  BY <1>1, <1>3, <1>4, <1>5, PlainStep

(* ... so is a Wait(), TestWait() or TimedWait(), ...                      *)
LEMMA WaitStep ==
  ASSUME TInv, GInv, SInv, NEW t \in Threads, NEW s \in Sems \ Hard,
         Wait(t, s) \/ TestWait(t, s) \/ \E d \in 1 .. MaxSleep : TimedWait(t, s, d)
  PROVE  Next /\ SInv'
<1>0. rc \in [Threads -> {"none", "true", "false"}]
  BY DEF SInv, SType
<1>1. CASE Obtain(t, s)
  BY <1>1, ObtainStep
<1>2. CASE /\ Count[s] <= 0 /\ SystemPlain(t) /\ Returns(t, "false")
           /\ UNCHANGED <<Count, waiters, waitsOn, stopping>>
  <2>1. place[t] = "system" /\ rc' = [rc EXCEPT ![t] = "false"]
    BY <1>2 DEF SystemPlain, At, Returns
  <2>2. SType' /\ (\A r \in Sems : Counted(r)') /\ \A x \in Threads \ {t} : rc'[x] = rc[x]
    BY <1>2, <2>1 DEF SInv, SType, Counted
  <2> QED
    BY <1>2, <2>1, <2>2, PlainStep
<1>3. ASSUME current = t, place[t] = "system", place' = [place EXCEPT ![t] = "return"],
             \A x \in Threads \ {t} : Undisturbed(x),
             Count[s] <= 0, Queue(t, s), Returns(t, "true"), UNCHANGED <<Count, stopping>>,
             \/ waitsOn' = waitsOn /\ status'[t] = "semaphore"
             \/ /\ waitsOn' = [waitsOn EXCEPT ![t] = s] /\ ~TimedWaitUtil'[t]
                /\ status'[t] = "timedwait" \/ current' = t
      PROVE  SInv'
  <2>1. Free(t)
    BY <1>3, CallerFree DEF Free
  <2>2. /\ rc' = [rc EXCEPT ![t] = "true"] /\ place'[t] = "return" /\ waiters' \in [Sems -> Seq(Threads)]
    BY <1>3, <2>1, QueueLists DEF Returns, TInv, TypeOK, SInv, Free
  <2>3. SType'
    BY <1>3, <2>2 DEF SInv, SType
  <2>4. /\ rc'[t] = "true" /\ place'[t] # "system"
        /\ \A x \in Threads \ {t} : rc'[x] = rc[x] /\ waitsOn'[x] = waitsOn[x]
    BY <1>3, <2>2 DEF SInv, SType
  <2>5. \/ waitsOn'[t] = NoSem /\ status'[t] = "semaphore"
        \/ /\ waitsOn'[t] = s /\ s \notin Hard /\ place'[t] = "return" /\ ~TimedWaitUtil'[t]
           /\ status'[t] = "timedwait" \/ current' = t
    BY <1>3, <2>1, <2>2 DEF SInv, SType, Free
  <2>6. Count' = IF s \in Hard THEN [Count EXCEPT ![s] = @ - 1] ELSE Count
    BY <1>3
  <2> QED
    BY <1>3, <2>1, <2>3, <2>4, <2>5, <2>6, JoinKeeps
<1>4. CASE /\ Count[s] <= 0 /\ SystemSuspend(t) /\ Queue(t, s) /\ Returns(t, "true")
           /\ UNCHANGED <<Count, waitsOn, stopping>>
  <2>1. /\ current = t /\ place[t] = "system" /\ place' = [place EXCEPT ![t] = "return"]
        /\ \A x \in Threads \ {t} : Undisturbed(x)
        /\ Dispatch(runq, Marked(status, t, "semaphore"), HighestAvailPri)
    BY <1>4, CallSpares DEF SystemSuspend, At, Marked
  <2>2. status'[t] = "semaphore"
    BY <2>1, CallerWaits DEF Status
  <2>3. SInv'
    BY <1>3, <1>4, <2>1, <2>2
  <2> QED
    BY <1>4, <2>3 DEF Next, Kernel, InSystem
<1>5. ASSUME NEW d \in 1 .. MaxSleep, Count[s] <= 0, TimedSuspend(t, d), Queue(t, s), Returns(t, "true"),
             waitsOn' = [waitsOn EXCEPT ![t] = s], UNCHANGED <<Count, stopping>>
      PROVE  Next /\ SInv'
  <2>1. /\ current = t /\ place[t] = "system" /\ place' = [place EXCEPT ![t] = "return"]
        /\ \A x \in Threads \ {t} : Undisturbed(x)
        /\ Dispatch(runq, Marked(status, t, "timedwait"), HighestAvailPri)
        /\ ~TimedWaitUtil'[t]
    BY <1>5, CallSpares DEF TimedSuspend, SleepAs, At, Marked, TInv, TypeOK
  <2>2. status'[t] = "timedwait" \/ current' = t
    BY <2>1, CallerWaits DEF Status
  <2>3. SInv'
    BY <1>3, <1>5, <2>1, <2>2
  <2> QED
    BY <1>5, <2>3 DEF Next, Kernel, InSystem
<1> QED
  BY <1>1, <1>2, <1>4, <1>5 DEF Wait, TestWait, TimedWait

(* Signal(), which SignalStop() makes too.                                 *)
LEMMA SignalStep ==
  ASSUME TInv, GInv, SInv, NEW t \in Threads, NEW s \in Sems \ Hard, Signal(t, s), stopping' \subseteq Threads
  PROVE  Next /\ SInv'
<1>0. UNCHANGED <<waitsOn, rc>>
  BY DEF Signal
<1>1. ASSUME waiters[s] # <<>>, ResumeBy(t, Head(waiters[s])), Dequeue(s), UNCHANGED Count
      PROVE  Next /\ SInv'
  <2>1. place[t] = "system" /\ current = t /\ place' = [place EXCEPT ![t] = "return"]
    BY <1>1 DEF ResumeBy, At
  <2>2. PICK u \in Threads : u = Head(waiters[s]) /\ Suspended(u)
    BY <1>1, <2>1, HeadSuspended
  <2>3. ResumeBy(t, u)
    BY <1>1, <2>2
  <2>4. u # t /\ \A x \in Threads \ {t, u} : Undisturbed(x)
    BY <2>2, <2>3, ResumeSpares
  <2>5. Free(t) /\ place'[t] # "system" /\ place'[u] = place[u]
    BY <2>1, <2>4, CallerFree DEF Free, TInv, TypeOK
  <2>6. Untimed(u)
    BY <2>3 DEF ResumeBy, Resume
  <2>7. SType'
    BY <1>0, <1>1, DequeueLists DEF SInv, SType
  <2>8. \A x \in Threads \ {u} : Undisturbed(x) \/ (Free(x) /\ place'[x] # "system")
    BY <2>4, <2>5
  <2>9. Count' = IF s \in Hard THEN [Count EXCEPT ![s] = @ + 1] ELSE Count
    BY <1>1
  <2>10. SInv'
    BY <1>0, <1>1, <2>2, <2>5, <2>6, <2>7, <2>8, <2>9, WakeKeeps
  <2>11. Next
    BY <2>2, <2>3 DEF Next, Kernel, InSystem, SystemResume
  <2> QED
    BY <2>10, <2>11
<1>2. ASSUME ~(Count[s] >= 0 /\ waiters[s] # <<>>), SystemPlain(t), Increment(s), UNCHANGED waiters
      PROVE  Next /\ SInv'
  <2>1. place[t] = "system"
    BY <1>2 DEF SystemPlain, At
  <2>2. /\ Count[s] \in Int /\ Count[s] >= 0 /\ waiters[s] = <<>>
        /\ Count' = [Count EXCEPT ![s] = Count[s] + 1]
    BY <1>2 DEF SInv, SType, Counted, Increment
  <2>3. \A r \in Sems : Counted(r)'
    <3>1. Count[s] + 1 \in Int /\ Count[s] + 1 >= 0
      BY <2>2
    <3> QED
      BY <1>2, <2>2, <3>1, CountKept
  <2>4. SType'
    BY <1>0, <1>2, <2>2 DEF SInv, SType
  <2> QED
    BY <1>0, <1>2, <2>1, <2>3, <2>4, PlainStep
<1> QED
  BY <1>1, <1>2 DEF Signal

(* ... everything a thread does with a semaphore, ...                      *)
LEMMA KernelStep ==
  ASSUME TimedHard = FALSE, TInv, GInv, SInv, NEW t \in Threads, SemKernel(t) \/ Enter(t)
  PROVE  [Next]_vars /\ SInv'
<1>1. CASE Enter(t)
  <2>1. /\ SystemEnter(t) /\ rc' = [rc EXCEPT ![t] = "none"] /\ place[t] = "user"
        /\ UNCHANGED <<Count, waiters, waitsOn, stopping>>
    BY <1>1 DEF Enter, SystemEnter, At, Returns
  <2>2. /\ SType' /\ (\A s \in Sems : Counted(s)') /\ rc'[t] = "none"
        /\ \A x \in Threads \ {t} : rc'[x] = rc[x]
    BY <2>1 DEF SInv, SType, Counted
  <2> QED
    BY <2>1, <2>2, PlainStep
<1>2. ASSUME UNCHANGED semState, place[t] # "return" \/ waitsOn[t] = NoSem,
             SystemPlain(t) \/ StopEnd(t) \/ StopBegin(t) \/ SystemReturn(t)
      PROVE  [Next]_vars /\ SInv'
  <2>1. /\ UNCHANGED <<waiters, waitsOn>> /\ SType' /\ (\A s \in Sems : Counted(s)')
        /\ \A x \in Threads \ {t} : rc'[x] = rc[x]
    BY <1>2 DEF semState, SInv, SType, Counted
  <2> QED
    BY <1>2, <2>1, PlainStep
<1>3. CASE Body(t)
  <2>1. CASE SystemPlain(t) /\ UNCHANGED semState
    BY <1>2, <2>1 DEF SystemPlain, At
  <2>2. ASSUME NEW s \in Sems \ Hard, Wait(t, s) \/ TestWait(t, s)
        PROVE  [Next]_vars /\ SInv'
    BY <2>2, WaitStep
  <2>3. ASSUME NEW s \in Sems \ Hard, SignalStop(t, s) \/ (Signal(t, s) /\ UNCHANGED stopping)
        PROVE  [Next]_vars /\ SInv'
    BY <2>3, SignalStep DEF SignalStop, SInv, SType
  <2>4. ASSUME NEW s \in Sems \ Hard, NEW d \in 1 .. MaxSleep, TimedWait(t, s, d)
        PROVE  [Next]_vars /\ SInv'
    BY <2>4, WaitStep
  <2>5. (IF TimedHard THEN Sems ELSE Sems \ Hard) = Sems \ Hard
    OBVIOUS
  <2> QED
    BY <1>3, <2>1, <2>2, <2>3, <2>4, <2>5 DEF Body
<1>4. CASE TimedWaitReturns(t)
  BY <1>4, ReturnKeeps DEF TimedWaitReturns
<1>5. CASE Leave(t)
  BY <1>2, <1>5 DEF Leave
<1>6. CASE StopEnd(t) /\ UNCHANGED semState
  BY <1>2, <1>6 DEF StopEnd, At
<1> QED
  BY <1>1, <1>3, <1>4, <1>5, <1>6 DEF SemKernel

(* The hardened pair.                                                      *)
LEMMA HardenedWaitStep ==
  ASSUME TInv, GInv, SInv, NEW t \in Threads, NEW s \in Hard, HardenedWait(t, s)
  PROVE  [Next]_vars /\ SInv'
<1>1. /\ current = t /\ place[t] = "user" /\ Free(t) /\ s \in Sems
      /\ Count' = [Count EXCEPT ![s] = Count[s] - 1] /\ rc' = [rc EXCEPT ![t] = "true"]
      /\ UNCHANGED <<waitsOn, stopping>> /\ Count[s] \in Int /\ Counted(s)
  BY HardAssumption, CallerFree DEF HardenedWait, At, Decrement, Returns, Free, SInv, SType
<1>2. rc'[t] = "true" /\ \A x \in Threads \ {t} : rc'[x] = rc[x]
  BY <1>1 DEF SInv, SType
<1>3. CASE Count[s] <= 0
  <2>1. Suspend(t) /\ Queue(t, s)
    BY <1>3 DEF HardenedWait
  <2>2. /\ \A x \in Threads \ {t} : Undisturbed(x)
        /\ place' = place /\ Dispatch(runq, Marked(status, t, "semaphore"), HighestAvailPri)
    BY <2>1, CallSpares DEF Suspend, Marked
  <2>3. status'[t] = "semaphore"
    BY <1>1, <2>2, CallerWaits DEF Status
  <2>4. waiters' \in [Sems -> Seq(Threads)]
    BY <1>1, <2>1, QueueLists DEF SInv, Free
  <2>5. SType'
    <3>1. Count[s] - 1 \in Int
      BY <1>1
    <3> QED
      BY <1>1, <2>4, <3>1 DEF SInv, SType
  <2>6. Count' = IF s \in Hard THEN [Count EXCEPT ![s] = @ - 1] ELSE Count
    BY <1>1
  <2>7. waitsOn'[t] = NoSem /\ place'[t] # "system"
    BY <1>1, <2>2 DEF Free
  <2>8. SInv'
    BY <1>1, <1>2, <1>3, <2>1, <2>2, <2>3, <2>5, <2>6, <2>7, JoinKeeps
  <2> QED
    BY <2>1, <2>8 DEF Next, Program
<1>4. CASE Count[s] > 0
  <2>1. UNCHANGED <<vars, waiters>>
    BY <1>1, <1>4 DEF HardenedWait
  <2>2. \A r \in Sems : Counted(r)'
    <3>1. Count[s] - 1 \in Int /\ Count[s] - 1 >= 0 /\ Count[s] >= 0
      BY <1>1, <1>4
    <3> QED
      BY <1>1, <2>1, <3>1, CountKept
  <2>3. SType'
    <3>1. Count[s] - 1 \in Int
      BY <1>1
    <3> QED
      BY <1>1, <2>1, <3>1 DEF SInv, SType
  <2>4. \A x \in Threads \ {t} : Undisturbed(x)
    BY <2>1 DEF vars, threads, cpu, Undisturbed, Suspends
  <2>5. place'[t] # "system"
    BY <1>1, <2>1 DEF vars, threads
  <2>6. SInv'
    BY <1>1, <1>2, <2>1, <2>2, <2>3, <2>4, <2>5, StayKeeps
  <2> QED
    BY <2>1, <2>6
<1> QED
  BY <1>1, <1>3, <1>4

(* ... and a HardenedSignal() from an interrupt.                           *)
LEMMA HardenedSignalStep ==
  ASSUME TInv, GInv, SInv, NEW s \in Hard, HardenedSignal(s)
  PROVE  Next /\ SInv'
<1>1. /\ s \in Sems /\ Count' = [Count EXCEPT ![s] = Count[s] + 1] /\ Count[s] \in Int /\ Counted(s)
      /\ UNCHANGED <<waitsOn, rc, stopping>>
  BY HardAssumption DEF HardenedSignal, Increment, SInv, SType
<1>2. CASE Count[s] < 0
  <2>1. IntrResume(Head(waiters[s])) /\ Dequeue(s)
    BY <1>2 DEF HardenedSignal
  <2>2. waiters[s] # <<>>
    BY <1>1, <1>2 DEF Counted
  <2>3. PICK u \in Threads : u = Head(waiters[s]) /\ Suspended(u)
    BY <1>1, <2>2, HeadSuspended
  <2>4. IntrResume(u)
    BY <2>1, <2>3
  <2>5. \A x \in Threads \ {u} : Undisturbed(x)
    BY <2>3, <2>4, IntrResumeSpares
  <2>6. Untimed(u) /\ place'[u] = place[u]
    BY <2>4 DEF IntrResume
  <2>7. SType'
    BY <1>1, <2>1, <2>2, DequeueLists DEF SInv, SType
  <2>8. Count' = IF s \in Hard THEN [Count EXCEPT ![s] = @ + 1] ELSE Count
    BY <1>1
  <2>9. \A x \in Threads \ {u} : Undisturbed(x) \/ (Free(x) /\ place'[x] # "system")
    BY <2>5
  <2>10. SInv'
    BY <1>1, <1>2, <2>1, <2>2, <2>3, <2>6, <2>7, <2>8, <2>9, WakeKeeps
  <2>11. Next
    BY <2>3, <2>4 DEF Next, DeviceResume
  <2> QED
    BY <2>10, <2>11
<1>3. CASE Count[s] >= 0
  <2>1. DeviceInterrupt /\ waiters' = waiters
    BY <1>1, <1>3 DEF HardenedSignal
  <2>2. \A r \in Sems : Counted(r)'
    <3>1. Count[s] + 1 \in Int /\ Count[s] + 1 >= 0
      BY <1>1, <1>3
    <3> QED
      BY <1>1, <1>3, <2>1, <3>1, CountKept
  <2>3. SType'
    BY <1>1, <2>1 DEF SInv, SType
  <2>4. \A x \in Threads : Undisturbed(x) /\ rc'[x] = rc[x]
    BY <1>1, <2>1, DeviceSpares
  <2>5. SInv'
    BY <1>1, <2>1, <2>2, <2>3, <2>4, StayKeeps
  <2> QED
    BY <2>1, <2>5 DEF Next
<1> QED
  BY <1>1, <1>2, <1>3

----------------------------------------------------------------------------
(* The invariance proof.                                                   *)
LEMMA SInvInit ==
  ASSUME SemInit
  PROVE  SInv
<1>1. SType
  BY CountAssumption DEF SemInit, SType
<1>2. \A s \in Sems : waiters[s] = <<>> /\ Len(waiters[s]) = 0 /\ Count[s] \in Nat
  BY CountAssumption DEF SemInit
<1>3. \A s \in Sems : \A x : ~In(waiters[s], x)
  BY <1>2 DEF In
<1>4. \A x \in Threads : Member(x)
  BY <1>3 DEF SemInit, Init, Member, Waiting, Timed, Calling, WaitsIn
<1>5. Apiece(waiters)
  BY <1>2, <1>3 DEF Apiece, Once
<1>6. \A s \in Sems : Counted(s)
  BY <1>2 DEF Counted
<1> QED
  BY <1>1, <1>4, <1>5, <1>6 DEF SInv

(* Every step of the semaphores keeps the invariant and is one of the      *)
(* executive's.                                                            *)
LEMMA SInvStep ==
  ASSUME TimedHard = FALSE, TInv, GInv, SInv, [SemNext]_semvars
  PROVE  [Next]_vars /\ SInv'
<1>1. CASE UNCHANGED semvars
  BY <1>1 DEF semvars, semState, vars, threads, cpu, SInv, SType, Member, Waiting, Timed, Calling,
              WaitsIn, Queued, Apiece, Counted
<1>2. CASE Elsewhere
  <2>1. /\ \A x \in Threads : Undisturbed(x) /\ rc'[x] = rc[x]
        /\ UNCHANGED semState
    BY <1>2, ElsewhereSpares DEF Elsewhere, semState
  <2>2. SType' /\ (\A s \in Sems : Counted(s)') /\ UNCHANGED <<waiters, waitsOn>>
    BY <2>1 DEF semState, SInv, SType, Counted
  <2>3. SInv'
    BY <2>1, <2>2, StayKeeps
  <2> QED
    BY <1>2, <2>3 DEF Elsewhere, Next
<1> QED
  BY <1>1, <1>2, KernelStep, HardenedWaitStep, HardenedSignalStep DEF SemNext

(* What the invariant says of the lists and the counts.                    *)
LEMMA SInvSound ==
  ASSUME SInv
  PROVE  IdLive /\ CountTrue
<1>1. \A s \in Sems : waiters[s] \in Seq(Threads)
  BY DEF SInv, SType
<1>2. IdLive
  <2>1. ASSUME NEW s \in Sems, NEW i \in 1 .. Len(waiters[s])
        PROVE  IF waitsOn[waiters[s][i]] = NoSem THEN status[waiters[s][i]] = "semaphore"
                                                 ELSE waitsOn[waiters[s][i]] = s
    <3>1. waiters[s][i] \in Threads /\ WaitsIn(waiters[s][i], s)
      BY <1>1, ElementOfSeq DEF WaitsIn, In
    <3> QED
      BY <3>1 DEF SInv, Member, Waiting
  <2> QED
    BY <2>1 DEF IdLive
<1>3. HardCount
  BY HardAssumption DEF HardCount, SInv, Counted
<1>4. NoIdleUnits
  <2>1. ASSUME NEW s \in Sems, Count[s] > 0
        PROVE  waiters[s] = <<>>
    <3>1. CASE s \in Hard
      <4>1. Len(waiters[s]) = 0
        BY <2>1, <3>1 DEF SInv, SType, Counted
      <4> QED
        BY <1>1, <4>1, EmptySeq
    <3> QED
      BY <2>1, <3>1 DEF SInv, Counted
  <2> QED
    BY <2>1 DEF NoIdleUnits
<1> QED
  BY <1>2, <1>3, <1>4 DEF CountTrue

SemInv == TInv /\ GInv /\ SInv

(* The invariant, the executive's included, holds at first, ...            *)
LEMMA SemInvInit ==
  SemInit => SemInv /\ Init
BY TypeInit, GInvInit, SInvInit DEF SemInit, SemInv

(* ... and every step keeps it.                                            *)
LEMMA SemInvStep ==
  ASSUME TimedHard = FALSE
  PROVE  SemInv /\ [SemNext]_semvars => SemInv' /\ [Next]_vars
BY SInvStep, TypeStep, GInvStep DEF SemInv

(* Whatever the semaphores do with threads is something the executive may  *)
(* do: in particular they only ever Resume() a thread that is suspended,   *)
(* and so every invariant of the executive's holds of them.                *)
THEOREM SemaphoresImplementExecutive ==
  ASSUME TimedHard = FALSE
  PROVE  SemSpec => ImplementsExecutive
<1>1. SemInit => SemInv /\ Init
  BY SemInvInit
<1>2. SemInv /\ [SemNext]_semvars => SemInv' /\ [Next]_vars
  BY SemInvStep
<1> QED
  BY <1>1, <1>2, PTL DEF SemSpec, ImplementsExecutive, Spec

(* The types of the semaphores and of the executive under them.            *)
THEOREM SemTypesCorrect ==
  ASSUME TimedHard = FALSE
  PROVE  SemSpec => []SemTypeOK
<1>1. SemInit => SemInv
  BY SemInvInit
<1>2. SemInv /\ [SemNext]_semvars => SemInv'
  BY SemInvStep
<1>3. SemInv => SemTypeOK
  BY DEF SemInv, TInv, SInv, SType, SemTypeOK
<1> QED
  BY <1>1, <1>2, <1>3, PTL DEF SemSpec

(* An Id on a list is that of a thread suspended in that wait, or whose    *)
(* TimedWait() is about to unlink it: no list points into a dead stack     *)
(* frame, however time-outs and signals interleave.                        *)
THEOREM IdsLive ==
  ASSUME TimedHard = FALSE
  PROVE  SemSpec => []IdLive
<1>1. SemInit => SemInv
  BY SemInvInit
<1>2. SemInv /\ [SemNext]_semvars => SemInv'
  BY SemInvStep
<1>3. SemInv => IdLive
  BY SInvSound DEF SemInv
<1> QED
  BY <1>1, <1>2, <1>3, PTL DEF SemSpec

(* A unit is never kept while somebody waits for it, and a negative        *)
(* hardened count is the number of waiters.                                *)
THEOREM CountsTrue ==
  ASSUME TimedHard = FALSE
  PROVE  SemSpec => []CountTrue
<1>1. SemInit => SemInv
  BY SemInvInit
<1>2. SemInv /\ [SemNext]_semvars => SemInv'
  BY SemInvStep
<1>3. SemInv => CountTrue
  BY SInvSound DEF SemInv
<1> QED
  BY <1>1, <1>2, <1>3, PTL DEF SemSpec


----------------------------------------------------------------------------
(* The refinement.  What the lists and the records say of the last wait of *)
(* each thread, and the counts of the units to be had: those of the        *)
(* mapping.                                                                *)
Result(x) == IF Queued(x) THEN "waiting"
             ELSE CASE rc[x] = "true"  -> "got"
                    [] rc[x] = "false" -> "failed"
                    [] OTHER           -> "none"

Results == [x \in Threads |-> Result(x)]

Stored(s) == IF Count[s] > 0 THEN Count[s] ELSE 0
Stores    == [s \in Sems |-> Stored(s)]

(* The outcomes when only that of t changes.                               *)
LEMMA ResultOne ==
  ASSUME NEW t \in Threads, \A x \in Threads \ {t} : Result(x)' = Result(x)
  PROVE  Results' = [Results EXCEPT ![t] = Result(t)']
BY DEF Results

(* The units to be had when only the count of s changes.                   *)
LEMMA StoredOne ==
  ASSUME SType, NEW s \in Sems, NEW n \in Int, Count' = [Count EXCEPT ![s] = n]
  PROVE  Stores' = [Stores EXCEPT ![s] = IF n > 0 THEN n ELSE 0]
<1>1. Count'[s] = n /\ \A r \in Sems \ {s} : Count'[r] = Count[r]
  BY DEF SType
<1>2. Stored(s)' = (IF n > 0 THEN n ELSE 0) /\ \A r \in Sems \ {s} : Stored(r)' = Stored(r)
  BY <1>1 DEF Stored
<1> QED
  BY <1>2 DEF Stores

(* A wait that finds a unit takes it, ...                                  *)
LEMMA TakeMaps ==
  ASSUME SInv, NEW t \in Threads, NEW s \in Sems, Free(t), Count[s] > 0, Decrement(s), Returns(t, "true"),
         waiters' = waiters
  PROVE  Abstract!Take(t, s)
<1>1. Count[s] \in Int /\ Count[s] - 1 \in Int /\ Count' = [Count EXCEPT ![s] = Count[s] - 1]
  BY DEF SInv, SType, Decrement
<1>2. Stores' = [Stores EXCEPT ![s] = Count[s] - 1] /\ Stores[s] = Count[s]
  <2>1. (IF Count[s] - 1 > 0 THEN Count[s] - 1 ELSE 0) = Count[s] - 1
    BY <1>1
  <2>2. Stores' = [Stores EXCEPT ![s] = IF Count[s] - 1 > 0 THEN Count[s] - 1 ELSE 0]
    BY <1>1, StoredOne DEF SInv
  <2> QED
    BY <2>1, <2>2 DEF Stores, Stored
<1>3. /\ \A x \in Threads : Queued(x)' <=> Queued(x)
      /\ ~Queued(t) /\ rc'[t] = "true" /\ \A x \in Threads \ {t} : rc'[x] = rc[x]
  BY DEF Queued, Free, Returns, SInv, SType
<1>4. Results' = [Results EXCEPT ![t] = "got"]
  <2>1. Result(t)' = "got" /\ \A x \in Threads \ {t} : Result(x)' = Result(x)
    BY <1>3 DEF Result
  <2> QED
    BY <2>1, ResultOne
<1>5. Results[t] # "waiting"
  BY <1>3 DEF Results, Result
<1> QED
  BY <1>1, <1>2, <1>4, <1>5 DEF Abstract!Take, Abstract!Becomes, Abstract!Waiting,
     Results, Result, Stores, Stored

(* ... one that does not joins the queue, ...                              *)
LEMMA JoinMaps ==
  ASSUME SInv, NEW t \in Threads, NEW s \in Sems, Free(t), Count[s] <= 0, Queue(t, s), Returns(t, "true"),
         Count' = Count \/ Decrement(s)
  PROVE  Abstract!Join(t, s)
<1>1. Count[s] \in Int /\ Count[s] - 1 \in Int
  BY DEF SInv, SType
<1>2. Stores' = Stores /\ Stores[s] = 0
  <2>1. CASE Count' = Count
    BY <1>1, <2>1 DEF Stores, Stored
  <2>2. CASE Decrement(s)
    <3>1. ~(Count[s] - 1 > 0) /\ ~(Count[s] > 0)
      BY <1>1
    <3>2. Stores' = [Stores EXCEPT ![s] = IF Count[s] - 1 > 0 THEN Count[s] - 1 ELSE 0]
      BY <1>1, <2>2, StoredOne DEF SInv, SType, Decrement
    <3> QED
      BY <3>1, <3>2 DEF Stores, Stored
  <2> QED
    BY <2>1, <2>2
<1>3. Listed(waiters, t, s, waiters')
  BY QueueLists DEF SInv, Free
<1>4. /\ \A x \in Threads \ {t} : Queued(x)' <=> Queued(x)
      /\ Queued(t)' /\ ~Queued(t) /\ \A x \in Threads \ {t} : rc'[x] = rc[x]
  BY <1>3 DEF Queued, Free, Listed, Returns, SInv, SType
<1>5. Results' = [Results EXCEPT ![t] = "waiting"]
  <2>1. Result(t)' = "waiting" /\ \A x \in Threads \ {t} : Result(x)' = Result(x)
    BY <1>4 DEF Result
  <2> QED
    BY <2>1, ResultOne
<1>6. Results[t] # "waiting"
  BY <1>4 DEF Results, Result
<1> QED
  BY <1>2, <1>5, <1>6 DEF Abstract!Join, Abstract!Becomes, Abstract!Waiting, Queue,
     Results, Result, Stores, Stored

(* ... or is refused; ...                                                  *)
LEMMA RefuseMaps ==
  ASSUME SInv, NEW t \in Threads, NEW s \in Sems, Free(t), Count[s] <= 0, place[t] = "system",
         Returns(t, "false"), UNCHANGED <<Count, waiters>>
  PROVE  Abstract!Refuse(t, s)
<1>1. Stores' = Stores /\ Stores[s] = 0
  BY DEF Stores, Stored, SInv, SType
<1>2. /\ \A x \in Threads : Queued(x)' <=> Queued(x)
      /\ ~Queued(t) /\ rc'[t] = "false" /\ \A x \in Threads \ {t} : rc'[x] = rc[x]
      /\ rc[t] = "none"
  BY DEF Queued, Free, Returns, SInv, SType, Member, Calling
<1>3. Results' = [Results EXCEPT ![t] = "failed"]
  <2>1. Result(t)' = "failed" /\ \A x \in Threads \ {t} : Result(x)' = Result(x)
    BY <1>2 DEF Result
  <2> QED
    BY <2>1, ResultOne
<1>4. Results[t] = "none"
  BY <1>2 DEF Results, Result
<1> QED
  BY <1>1, <1>3, <1>4 DEF Abstract!Refuse, Abstract!Becomes, Results, Result, Stores, Stored

(* ... the next call forgets what came of it; ...                          *)
LEMMA ForgetMaps ==
  ASSUME SInv, NEW t \in Threads, Free(t), Returns(t, "none"), UNCHANGED <<Count, waiters>>
  PROVE  Abstract!Forget(t)
<1>1. Stores' = Stores
  BY DEF Stores, Stored
<1>2. /\ \A x \in Threads : Queued(x)' <=> Queued(x)
      /\ ~Queued(t) /\ rc'[t] = "none" /\ \A x \in Threads \ {t} : rc'[x] = rc[x]
  BY DEF Queued, Free, Returns, SInv, SType
<1>3. Results' = [Results EXCEPT ![t] = "none"]
  <2>1. Result(t)' = "none" /\ \A x \in Threads \ {t} : Result(x)' = Result(x)
    BY <1>2 DEF Result
  <2> QED
    BY <2>1, ResultOne
<1>4. Results[t] # "waiting"
  BY <1>2 DEF Results, Result
<1> QED
  BY <1>1, <1>3, <1>4 DEF Abstract!Forget, Abstract!Becomes, Abstract!Waiting, Results, Result, Stores, Stored

(* ... a signal hands its unit to the first in the queue, ...              *)
LEMMA HandMaps ==
  ASSUME SInv, NEW s \in Sems, waiters[s] # <<>>, Dequeue(s), rc' = rc,
         Count' = Count \/ (Increment(s) /\ Count[s] < 0)
  PROVE  Abstract!Hand(s)
<1>1. Count[s] \in Int /\ Count[s] + 1 \in Int
  BY DEF SInv, SType
<1>2. Stores' = Stores
  <2>1. CASE Count' = Count
    BY <2>1 DEF Stores, Stored
  <2>2. CASE Increment(s) /\ Count[s] < 0
    <3>1. ~(Count[s] + 1 > 0) /\ ~(Count[s] > 0)
      BY <1>1, <2>2
    <3>2. Stores' = [Stores EXCEPT ![s] = IF Count[s] + 1 > 0 THEN Count[s] + 1 ELSE 0]
      BY <1>1, <2>2, StoredOne DEF SInv, SType, Increment
    <3> QED
      BY <3>1, <3>2 DEF Stores, Stored
  <2> QED
    BY <2>1, <2>2
<1>3. PICK u \in Threads : u = Head(waiters[s]) /\ WaitsIn(u, s) /\ Unlisted(waiters, u, waiters')
  BY DequeueLists DEF SInv, WaitsIn
<1>4. /\ \A x \in Threads \ {u} : Queued(x)' <=> Queued(x)
      /\ ~Queued(u)' /\ rc[u] = "true"
  BY <1>3 DEF Queued, Unlisted, SInv, Member, Waiting
<1>5. Results' = [Results EXCEPT ![u] = "got"]
  <2>1. Result(u)' = "got" /\ \A x \in Threads \ {u} : Result(x)' = Result(x)
    BY <1>4 DEF Result
  <2> QED
    BY <2>1, ResultOne
<1> QED
  BY <1>2, <1>3, <1>5 DEF Abstract!Hand, Abstract!Becomes, Dequeue, Results, Result, Stores, Stored

(* ... and only stores it when nobody waits; ...                           *)
LEMMA StoreMaps ==
  ASSUME SInv, NEW s \in Sems, waiters[s] = <<>>, Count[s] >= 0, Increment(s), UNCHANGED <<waiters, rc>>
  PROVE  Abstract!Store(s)
<1>1. Count[s] \in Int /\ Count[s] + 1 \in Int /\ Count' = [Count EXCEPT ![s] = Count[s] + 1]
  BY DEF SInv, SType, Increment
<1>2. Stores' = [Stores EXCEPT ![s] = Count[s] + 1] /\ Stores[s] = Count[s]
  <2>1. Count[s] + 1 > 0 /\ (IF Count[s] > 0 THEN Count[s] ELSE 0) = Count[s]
    BY <1>1
  <2>2. Stores' = [Stores EXCEPT ![s] = IF Count[s] + 1 > 0 THEN Count[s] + 1 ELSE 0]
    BY <1>1, StoredOne DEF SInv
  <2> QED
    BY <2>1, <2>2 DEF Stores, Stored
<1>3. Results' = Results
  BY DEF Results, Result, Queued
<1> QED
  BY <1>2, <1>3 DEF Abstract!Store, Results, Result, Stores, Stored

(* ... and a timed-out wait that unlinks its Id gives up.                  *)
LEMMA GiveUpMaps ==
  ASSUME SInv, NEW t \in Threads, NEW s \in Sems, In(waiters[s], t), Returns(t, "false"),
         waiters' = [waiters EXCEPT ![s] = Without(@, t)], Count' = Count
  PROVE  Abstract!GiveUp(t, s)
<1>1. PICK k \in 1 .. Len(waiters[s]) :
        /\ waiters[s][k] = t
        /\ Without(waiters[s], t) = SubSeq(waiters[s], 1, k - 1) \o SubSeq(waiters[s], k + 1, Len(waiters[s]))
  BY DEF In, Without
<1>2. Stores' = Stores
  BY DEF Stores, Stored
<1>3. Unlisted(waiters, t, waiters')
  BY WithoutLists DEF SInv
<1>4. /\ \A x \in Threads \ {t} : Queued(x)' <=> Queued(x)
      /\ ~Queued(t)' /\ rc'[t] = "false" /\ \A x \in Threads \ {t} : rc'[x] = rc[x]
  BY <1>3 DEF Queued, Unlisted, Returns, SInv, SType
<1>5. Results' = [Results EXCEPT ![t] = "failed"]
  <2>1. Result(t)' = "failed" /\ \A x \in Threads \ {t} : Result(x)' = Result(x)
    BY <1>4 DEF Result
  <2> QED
    BY <2>1, ResultOne
<1>6. waiters' = [waiters EXCEPT ![s] = SubSeq(@, 1, k - 1) \o SubSeq(@, k + 1, Len(@))]
  BY <1>1
<1> QED
  BY <1>1, <1>2, <1>5, <1>6 DEF Abstract!GiveUp, Abstract!Becomes, Results, Result, Stores, Stored

(* The return of a TimedWait() that was signalled changes nothing: the     *)
(* unit was handed to it when the signal came.                             *)
LEMMA ReturnMaps ==
  ASSUME SInv, NEW t \in Threads, TimedWaitReturns(t)
  PROVE  \/ \E s \in Sems : Abstract!GiveUp(t, s)
         \/ UNCHANGED <<Count, waiters, rc>>
<1>1. Count' = Count /\ waitsOn[t] \in Sems /\ Member(t)
  BY DEF TimedWaitReturns, SInv, SType
<1>2. CASE TimedWaitUtil[t]
  BY <1>1, <1>2 DEF TimedWaitReturns, Returns, SInv, SType, Member, Timed
<1>3. CASE ~TimedWaitUtil[t]
  <2>1. PICK s \in Sems : s = waitsOn[t]
    BY <1>1
  <2>2. In(waiters[s], t)
    BY <1>1, <1>3, <2>1, NoSemAssumption DEF Member, Timed, Waiting, WaitsIn, Queued
  <2>3. waiters' = [waiters EXCEPT ![s] = Without(@, t)] /\ Returns(t, "false")
    BY <1>3, <2>1 DEF TimedWaitReturns
  <2>4. Abstract!GiveUp(t, s)
    BY <1>1, <2>2, <2>3, GiveUpMaps
  <2> QED
    BY <2>4
<1> QED
  BY <1>2, <1>3

(* A step that touches neither counts, lists nor results is a stutter.     *)
LEMMA StutterMaps ==
  ASSUME UNCHANGED <<Count, waiters, rc>>
  PROVE  UNCHANGED Abstract!cvars
BY DEF Abstract!cvars, Queued

(* A Signal() hands its unit to the first waiter or stores it, ...         *)
LEMMA SignalMaps ==
  ASSUME SInv, NEW t \in Threads, NEW s \in Sems \ Hard, Signal(t, s)
  PROVE  Abstract!Hand(s) \/ Abstract!Store(s)
<1>1. rc' = rc /\ Counted(s) /\ Count[s] >= 0
  BY DEF Signal, SInv, Counted
<1>2. CASE waiters[s] # <<>>
  BY <1>1, <1>2, HandMaps DEF Signal
<1>3. CASE waiters[s] = <<>>
  BY <1>1, <1>3, StoreMaps DEF Signal
<1> QED
  BY <1>2, <1>3

(* ... and so does a HardenedSignal().                                     *)
LEMMA HardenedSignalMaps ==
  ASSUME SInv, NEW s \in Hard, HardenedSignal(s)
  PROVE  Abstract!Hand(s) \/ Abstract!Store(s)
<1>1. rc' = rc /\ Counted(s) /\ Count[s] \in Int /\ waiters[s] \in Seq(Threads) /\ s \in Sems
  BY HardAssumption DEF HardenedSignal, SInv, SType
<1>2. CASE Count[s] < 0
  <2>1. waiters[s] # <<>>
    BY <1>1, <1>2 DEF Counted
  <2> QED
    BY <1>1, <1>2, <2>1, HandMaps DEF HardenedSignal
<1>3. CASE Count[s] >= 0
  <2>1. waiters[s] = <<>>
    BY <1>1, <1>3, EmptySeq DEF Counted
  <2> QED
    BY <1>1, <1>3, <2>1, StoreMaps DEF HardenedSignal
<1> QED
  BY <1>1, <1>2, <1>3

(* Each operation of a thread maps to a step of the counting semaphore,    *)
(* ...                                                                     *)
LEMMA BodyMaps ==
  ASSUME TimedHard = FALSE, GInv, SInv, NEW t \in Threads, Body(t)
  PROVE  Abstract!CNext \/ UNCHANGED <<Count, waiters, rc>>
<1>1. CASE SystemPlain(t) /\ UNCHANGED semState
  BY <1>1 DEF semState
<1>2. ASSUME NEW s \in Sems \ Hard,
             Wait(t, s) \/ TestWait(t, s) \/ \E d \in 1 .. MaxSleep : TimedWait(t, s, d)
      PROVE  Abstract!CNext
  <2>1. place[t] = "system" /\ Free(t)
    <3>1. current = t /\ place[t] = "system"
      BY <1>2 DEF Wait, TestWait, TimedWait, Obtain, SystemPlain, SystemSuspend, TimedSuspend, SleepAs, At
    <3> QED
      BY <3>1, CallerFree DEF Free
  <2>2. CASE Obtain(t, s)
    BY <2>1, <2>2, TakeMaps DEF Obtain, Abstract!CNext
  <2>3. CASE Count[s] <= 0 /\ Returns(t, "false") /\ UNCHANGED <<Count, waiters>>
    BY <2>1, <2>3, RefuseMaps DEF Abstract!CNext
  <2>4. CASE Count[s] <= 0 /\ Queue(t, s) /\ Returns(t, "true") /\ Count' = Count
    BY <2>1, <2>4, JoinMaps DEF Abstract!CNext
  <2> QED
    BY <1>2, <2>2, <2>3, <2>4 DEF Wait, TestWait, TimedWait
<1>3. ASSUME NEW s \in Sems \ Hard, Signal(t, s)
      PROVE  Abstract!CNext
  BY <1>3, SignalMaps DEF Abstract!CNext
<1>4. (IF TimedHard THEN Sems ELSE Sems \ Hard) = Sems \ Hard
  OBVIOUS
<1> QED
  BY <1>1, <1>2, <1>3, <1>4 DEF Body, SignalStop

(* ... each step does, or to a stutter, ...                                *)
LEMMA SemStepMaps ==
  ASSUME TimedHard = FALSE, GInv, SInv, [SemNext]_semvars
  PROVE  [Abstract!CNext]_(Abstract!cvars)
<1>1. CASE UNCHANGED semvars \/ Elsewhere
  BY <1>1, StutterMaps DEF semvars, semState, Elsewhere
<1>2. ASSUME NEW s \in Hard, HardenedSignal(s)
      PROVE  Abstract!CNext
  BY <1>2, HardenedSignalMaps, HardAssumption DEF Abstract!CNext
<1>3. ASSUME NEW t \in Threads, Enter(t)
      PROVE  Abstract!CNext
  <2>1. Free(t)
    BY <1>3, CallerFree DEF Free, Enter, SystemEnter, At
  <2> QED
    BY <1>3, <2>1, ForgetMaps DEF Enter, Abstract!CNext
<1>4. ASSUME NEW t \in Threads, SemKernel(t)
      PROVE  [Abstract!CNext]_(Abstract!cvars)
  <2>1. CASE Body(t)
    BY <2>1, BodyMaps, StutterMaps
  <2>2. CASE TimedWaitReturns(t)
    BY <2>2, ReturnMaps, StutterMaps DEF Abstract!CNext
  <2>3. CASE UNCHANGED semState
    BY <2>3, StutterMaps DEF semState
  <2> QED
    BY <1>4, <2>1, <2>2, <2>3 DEF SemKernel, Leave
<1>5. ASSUME NEW t \in Threads, NEW s \in Hard, HardenedWait(t, s)
      PROVE  Abstract!CNext
  <2>1. Free(t) /\ s \in Sems /\ Count[s] \in Int
    BY <1>5, CallerFree, HardAssumption DEF Free, HardenedWait, At, SInv, SType
  <2>2. CASE Count[s] <= 0
    BY <1>5, <2>1, <2>2, JoinMaps DEF HardenedWait, Abstract!CNext
  <2>3. CASE Count[s] > 0
    <3>1. ~(Count[s] <= 0)
      BY <2>1, <2>3
    <3> QED
      BY <1>5, <2>1, <2>3, <3>1, TakeMaps DEF HardenedWait, Abstract!CNext
  <2> QED
    BY <2>1, <2>2, <2>3
<1> QED
  BY <1>1, <1>2, <1>3, <1>4, <1>5 DEF SemNext

(* ... and an initial state to an initial state.                           *)
LEMMA SemInitMaps ==
  ASSUME SemInit
  PROVE  Abstract!CInit
<1>1. \A x \in Threads : ~Queued(x) /\ rc[x] = "none"
  BY DEF SemInit, Queued, In
<1>2. \A s \in Sems : (IF Count[s] > 0 THEN Count[s] ELSE 0) \in Nat
  BY CountAssumption DEF SemInit
<1> QED
  BY <1>1, <1>2 DEF SemInit, Abstract!CInit

(* The semaphores hand out each unit once, in order of arrival, and tell   *)
(* their caller truly whether it got one: every step is one of the         *)
(* abstract counting semaphore's, or a stutter, however time-outs, signals *)
(* and the dispatching of the timed-out thread interleave.                 *)
THEOREM SemaphoresImplementCounting ==
  ASSUME TimedHard = FALSE
  PROVE  SemSpec => ImplementsCounting
<1>1. SemInit => SemInv /\ Abstract!CInit
  BY SemInvInit, SemInitMaps
<1>2. SemInv /\ [SemNext]_semvars => SemInv' /\ [Abstract!CNext]_(Abstract!cvars)
  BY SemInvStep, SemStepMaps DEF SemInv
<1> QED
  BY <1>1, <1>2, PTL DEF SemSpec, ImplementsCounting, Abstract!CSpec
=============================================================================
