--------------------------- MODULE Queues_proofs ---------------------------
(***************************************************************************)
(* The executive's queues, for any number of threads, priorities and clock *)
(* values: every thread is in one place, the one its records say, and the  *)
(* timer queue is in the order in which its threads are due.               *)
(***************************************************************************)
EXTENDS Executive_proofs

(* What the queues hold, for the queues q and tq, the statuses st, the     *)
(* recorded priorities pr and the running thread c, so that it can be said *)
(* of the values a call has computed when it enters the dispatcher.        *)
Held(q, tq, st, c) ==
  \A t \in Threads :
    /\ On(q, t)   => st[t] \in {"startup", "sliced", "runnable", "timedwait"}
    /\ In(tq, t)  => st[t] \in {"sleep", "timedwait"} /\ ~On(q, t)
    /\ c = t      => st[t] \in {"running", "killed"}
    /\ st[t] \in {"startup", "sliced", "runnable"} => On(q, t)
    /\ st[t] = "sleep" => In(tq, t)
    /\ st[t] = "timedwait" => In(tq, t) \/ On(q, t)

Recorded(q, pr) == \A p \in Priorities, t \in Threads : In(q[p], t) => pr[t] = p

Good(q, tq, st, pr, c) ==
  /\ Once(tq)
  /\ \A p \in Priorities : Once(q[p])
  /\ Held(q, tq, st, c)
  /\ Recorded(q, pr)

(* Each thread's priority: the recorded one, or the one SetPhysPri() is    *)
(* setting.                                                                *)
due == [t \in Threads |-> DuePri(t)]

(* A thread between the stores of SetPhysPri() runs or has been preempted. *)
Busy == {"sliced", "runnable", "running", "killed"}

(* The places in System(), EnterProcess() and SetPhysPri() where the       *)
(* priority is what those have made it.                                    *)
KernelHigh ==
  \A t \in Threads :
    /\ place[t] \in {"system", "return"} => priority[t] = HIGHPRI
    /\ place[t] = "create" => current = t /\ CurrentPri = HIGHPRI /\ priority[t] = oldpri[t]
    /\ status[t] = "none"  => place[t] = "user"
    /\ t \in Setters       => status[t] \in Busy
    /\ place[t] = "raise"  => setting[t].pri = HIGHPRI

Running == current \in Threads /\ place[current] # "create" => due[current] = CurrentPri

(* The inductive invariant.                                                *)
GInv == Good(runq, timerq, status, due, current) /\ Running /\ KernelHigh

(* It says of members what the properties say of indices.                  *)
LEMMA GInvSound ==
  ASSUME TInv, GInv
  PROVE  OnePlace /\ PriorityRecorded
<1>1. \A p \in Priorities : \A i \in 1 .. Len(runq[p]) :
        runq[p][i] \in Threads /\ In(runq[p], runq[p][i])
  BY ElementOfSeq DEF TInv, TypeOK, In
<1>2. Apart(runq)
  BY DEF GInv, Good, Recorded, Apart
<1>3. QueuedByStatus
  BY DEF GInv, Good, Held, QueuedByStatus, OnRunq, OnTimer
<1>4. \A t \in Threads : due[t] = DuePri(t)
  BY DEF due
<1> QED
  BY <1>1, <1>2, <1>3, <1>4 DEF GInv, Good, Recorded, Running, OnePlace, PriorityRecorded

----------------------------------------------------------------------------
(* The run queues as one: a thread joins or leaves one of them.            *)

Enqueued(q, p, t) == [q EXCEPT ![p] = Append(@, t)]
Dequeued(q, p)    == [q EXCEPT ![p] = Tail(@)]
Marked(st, t, s)  == [st EXCEPT ![t] = s]

(* Who is on the run queues when t has joined the queue of priority p.     *)
LEMMA EnqueueOn ==
  ASSUME NEW q \in RunqType, NEW p \in Priorities, NEW t \in Threads
  PROVE  /\ \A r \in Priorities : \A x :
              In(Enqueued(q, p, t)[r], x) <=> In(q[r], x) \/ (r = p /\ x = t)
         /\ \A x : On(Enqueued(q, p, t), x) <=> On(q, x) \/ x = t
         /\ (\A r \in Priorities : Once(q[r])) /\ ~On(q, t)
              => \A r \in Priorities : Once(Enqueued(q, p, t)[r])
<1> DEFINE q2 == Enqueued(q, p, t)
<1>1. q[p] \in Seq(Threads)
  BY DEF RunqType
<1>2. q2[p] = Append(q[p], t) /\ \A r \in Priorities \ {p} : q2[r] = q[r]
  BY DEF RunqType, Enqueued
<1> HIDE DEF q2
<1>3. \A r \in Priorities : \A x : In(q2[r], x) <=> In(q[r], x) \/ (r = p /\ x = t)
  <2>1. \A x : In(q2[p], x) <=> In(q[p], x) \/ x = t
    BY <1>1, <1>2, AppendList
  <2> QED
    BY <1>2, <2>1
<1>4. \A x : On(q2, x) <=> On(q, x) \/ x = t
  BY <1>3 DEF On
<1>5. ASSUME \A r \in Priorities : Once(q[r]), ~On(q, t)
      PROVE  \A r \in Priorities : Once(q2[r])
  <2>1. Once(q2[p])
    <3>1. Once(q[p]) /\ ~In(q[p], t)
      BY <1>5 DEF On
    <3> QED
      BY <1>1, <1>2, <3>1, AppendList
  <2> QED
    BY <1>2, <1>5, <2>1
<1> QED
  BY <1>3, <1>4, <1>5 DEF q2

(* Who is on them when the head of the queue of priority p has left.       *)
LEMMA DequeueOn ==
  ASSUME NEW q \in RunqType, NEW p \in Priorities, q[p] # <<>>,
         \A r \in Priorities : Once(q[r]), NEW pr, Recorded(q, pr)
  PROVE  /\ Head(q[p]) \in Threads /\ pr[Head(q[p])] = p /\ On(q, Head(q[p]))
         /\ Dequeued(q, p) \in RunqType
         /\ \A r \in Priorities : \A x : In(Dequeued(q, p)[r], x) => In(q[r], x)
         /\ \A x \in Threads : On(Dequeued(q, p), x) <=> On(q, x) /\ x # Head(q[p])
         /\ \A r \in Priorities : Once(Dequeued(q, p)[r])
<1> DEFINE q2 == Dequeued(q, p)
           h  == Head(q[p])
<1>1. q[p] \in Seq(Threads) /\ Once(q[p])
  BY DEF RunqType
<1>2. /\ h \in Threads /\ Tail(q[p]) \in Seq(Threads) /\ In(q[p], h) /\ Once(Tail(q[p]))
      /\ \A x : In(Tail(q[p]), x) <=> In(q[p], x) /\ x # h
  BY <1>1, TailList
<1>3. q2[p] = Tail(q[p]) /\ (\A r \in Priorities \ {p} : q2[r] = q[r]) /\ q2 \in RunqType
  BY <1>2 DEF RunqType, Dequeued
<1> HIDE DEF q2, h
<1>4. pr[h] = p /\ On(q, h) /\ \A r \in Priorities : In(q[r], h) => r = p
  BY <1>2 DEF Recorded, On
<1>5. \A r \in Priorities : \A x : In(q2[r], x) <=> In(q[r], x) /\ (r = p => x # h)
  BY <1>2, <1>3
<1>6. \A x \in Threads : On(q2, x) <=> On(q, x) /\ x # h
  BY <1>4, <1>5 DEF On
<1>7. \A r \in Priorities : Once(q2[r])
  BY <1>2, <1>3
<1> QED
  BY <1>2, <1>3, <1>4, <1>5, <1>6, <1>7 DEF q2, h

(* A thread that is on no run queue joins the one of its priority, leaving *)
(* the timer queue or the processor if it was there.                       *)
LEMMA EnqueueGood ==
  ASSUME NEW q \in RunqType, NEW tq, NEW st \in StatusType, NEW pr, NEW c,
         Good(q, tq, st, pr, c),
         NEW t \in Threads, ~On(q, t),
         NEW s \in {"startup", "sliced", "runnable", "timedwait"},
         NEW p \in Priorities,
         NEW pr2, pr2[t] = p, \A x \in Threads \ {t} : pr2[x] = pr[x],
         NEW tq2, Once(tq2), \A x \in Threads : In(tq2, x) <=> In(tq, x) /\ x # t,
         NEW c2, \A x \in Threads : c2 = x => c = x /\ x # t
  PROVE  Good(Enqueued(q, p, t), tq2, Marked(st, t, s), pr2, c2)
<1> DEFINE q2  == Enqueued(q, p, t)
           st2 == Marked(st, t, s)
<1>1. /\ \A r \in Priorities : \A x : In(q2[r], x) <=> In(q[r], x) \/ (r = p /\ x = t)
      /\ \A x : On(q2, x) <=> On(q, x) \/ x = t
      /\ \A r \in Priorities : Once(q2[r])
  BY EnqueueOn DEF Good
<1>2. st2[t] = s /\ \A x \in Threads \ {t} : st2[x] = st[x]
  BY DEF StatusType, Marked
<1> HIDE DEF q2, st2
<1>3. Held(q2, tq2, st2, c2)
  <2>1. Held(q, tq, st, c)
    BY DEF Good
  <2>2. ASSUME NEW x \in Threads \ {t}
        PROVE  /\ On(q2, x) <=> On(q, x)
               /\ In(tq2, x) <=> In(tq, x)
               /\ st2[x] = st[x]
               /\ c2 = x => c = x
    BY <1>1, <1>2
  <2>3. On(q2, t) /\ ~In(tq2, t) /\ c2 # t /\ st2[t] = s
    BY <1>1, <1>2
  <2>4. s # "sleep" /\ s \notin {"running", "killed"}
    OBVIOUS
  <2> QED
    BY <2>1, <2>2, <2>3, <2>4 DEF Held
<1>4. Recorded(q2, pr2)
  <2>1. Recorded(q, pr)
    BY DEF Good
  <2>2. \A r \in Priorities : ~In(q[r], t)
    BY DEF On
  <2> QED
    BY <1>1, <2>1, <2>2 DEF Recorded
<1> QED
  BY <1>1, <1>3, <1>4 DEF Good, q2, st2

(* Nobody runs, and the first of a run queue is dispatched.                *)
LEMMA DequeueGood ==
  ASSUME NEW q \in RunqType, NEW tq, NEW st \in StatusType, NEW pr, NEW c, c \notin Threads,
         Good(q, tq, st, pr, c),
         NEW p \in Priorities, q[p] # <<>>
  PROVE  /\ Good(Dequeued(q, p), tq, Marked(st, Head(q[p]), "running"), pr, Head(q[p]))
         /\ Head(q[p]) \in Threads /\ pr[Head(q[p])] = p
<1> DEFINE h   == Head(q[p])
           q2  == Dequeued(q, p)
           st2 == Marked(st, h, "running")
<1>1. /\ h \in Threads /\ pr[h] = p /\ On(q, h) /\ q2 \in RunqType
      /\ \A r \in Priorities : \A x : In(q2[r], x) => In(q[r], x)
      /\ \A x \in Threads : On(q2, x) <=> On(q, x) /\ x # h
      /\ \A r \in Priorities : Once(q2[r])
  BY DequeueOn DEF Good
<1>2. st2[h] = "running" /\ \A x \in Threads \ {h} : st2[x] = st[x]
  BY <1>1 DEF StatusType, Marked
<1> HIDE DEF q2, st2, h
<1>3. Held(q2, tq, st2, h)
  <2>1. Held(q, tq, st, c)
    BY DEF Good
  <2>2. ~In(tq, h) /\ ~On(q2, h)
    BY <1>1, <2>1 DEF Held
  <2> QED
    BY <1>1, <1>2, <2>1, <2>2 DEF Held
<1>4. Recorded(q2, pr)
  BY <1>1 DEF Recorded, Good
<1> QED
  BY <1>1, <1>3, <1>4 DEF Good, q2, st2, h

(* The running thread goes to sleep.                                       *)
LEMMA SleepGood ==
  ASSUME NEW q, NEW tq, NEW st \in StatusType, NEW pr, NEW t \in Threads,
         Good(q, tq, st, pr, t), NEW s \in {"sleep", "timedwait"},
         NEW tq2, Once(tq2), \A x : In(tq2, x) <=> In(tq, x) \/ x = t
  PROVE  Good(q, tq2, Marked(st, t, s), pr, Idle)
<1>1. ~On(q, t)
  BY DEF Good, Held
<1>2. Marked(st, t, s)[t] = s /\ \A x \in Threads \ {t} : Marked(st, t, s)[x] = st[x]
  BY DEF StatusType, Marked
<1>3. Held(q, tq2, Marked(st, t, s), Idle)
  BY <1>1, <1>2, ThreadsAssumption DEF Held, Good
<1> QED
  BY <1>3 DEF Good

(* The running thread leaves the processor for no queue.                   *)
LEMMA LeaveGood ==
  ASSUME NEW q, NEW tq, NEW st \in StatusType, NEW pr, NEW c, Good(q, tq, st, pr, c)
  PROVE  /\ Good(q, tq, st, pr, Idle)
         /\ c \in Threads => Good(q, tq, Marked(st, c, "semaphore"), pr, Idle)
         /\ c \in Threads => Good(q, tq, Marked(st, c, "killed"), pr, c)
<1>1. Held(q, tq, st, Idle)
  BY ThreadsAssumption DEF Held, Good
<1>2. ASSUME c \in Threads
      PROVE  /\ Held(q, tq, Marked(st, c, "semaphore"), Idle)
             /\ Held(q, tq, Marked(st, c, "killed"), c)
  <2>1. ~On(q, c) /\ ~In(tq, c)
    BY <1>2 DEF Held, Good
  <2>2. /\ Marked(st, c, "semaphore")[c] = "semaphore"
        /\ Marked(st, c, "killed")[c] = "killed"
        /\ \A x \in Threads \ {c} : /\ Marked(st, c, "semaphore")[x] = st[x]
                                    /\ Marked(st, c, "killed")[x] = st[x]
    BY <1>2 DEF StatusType, Marked
  <2> QED
    BY <2>1, <2>2, ThreadsAssumption DEF Held, Good
<1> QED
  BY <1>1, <1>2 DEF Good

(* A timed-out thread is told that it was resumed: it is on a run queue.   *)
LEMMA ToldGood ==
  ASSUME NEW q, NEW tq, NEW st \in StatusType, NEW pr, NEW c, Good(q, tq, st, pr, c),
         NEW u \in Threads, st[u] = "timedwait", ~In(tq, u)
  PROVE  Good(q, tq, Marked(st, u, "runnable"), pr, c)
<1>1. On(q, u) /\ c # u
  BY DEF Held, Good
<1>2. /\ Marked(st, u, "runnable")[u] = "runnable"
      /\ \A x \in Threads \ {u} : Marked(st, u, "runnable")[x] = st[x]
  BY DEF StatusType, Marked
<1> QED
  BY <1>1, <1>2 DEF Held, Good

(* The running thread's recorded priority is not a queue's.                *)
LEMMA ReprioritiseGood ==
  ASSUME NEW q, NEW tq, NEW st, NEW pr, NEW t \in Threads, Good(q, tq, st, pr, t),
         NEW pr2, \A x \in Threads \ {t} : pr2[x] = pr[x]
  PROVE  Good(q, tq, st, pr2, t)
<1>1. ~On(q, t)
  BY DEF Good, Held
<1>2. Recorded(q, pr2)
  BY <1>1 DEF Good, Recorded, On
<1> QED
  BY <1>2 DEF Good

----------------------------------------------------------------------------
(* The executive's own routines.                                           *)

(* No thread loses the record that it has been started, and nobody who is  *)
(* in SetPhysPri() starts to wait.                                         *)
Fresh(st) == /\ \A t \in Threads : st[t] = "none" => status[t] = "none"
             /\ \A t \in Setters : st[t] \in Busy

(* Nothing changes the thread's priority.                                  *)
LEMMA DueSame ==
  ASSUME UNCHANGED <<priority, place, setting>>
  PROVE  due' = due
BY DEF due, DuePri, Setters

PlainPlaces == Places \ {"setpri", "lower", "raise"}

(* Outside SetPhysPri() a thread's priority is the recorded one.           *)
LEMMA DueRecorded ==
  ASSUME NEW t \in Threads, place[t] \in PlainPlaces
  PROVE  t \notin Setters /\ due[t] = priority[t]
BY DEF due, DuePri, Setters, PlainPlaces

(* Of a step of thread t outside SetPhysPri().                             *)
LEMMA DueMoves ==
  ASSUME TInv, NEW t \in Threads, place[t] \in PlainPlaces,
         NEW pl \in PlainPlaces, place' = [place EXCEPT ![t] = pl], UNCHANGED setting,
         \A x \in Threads \ {t} : priority'[x] = priority[x]
  PROVE  /\ due'[t] = priority'[t] /\ \A x \in Threads \ {t} : due'[x] = due[x]
         /\ priority'[t] = priority[t] => due' = due
<1>1. \A x \in Threads : place'[x] = IF x = t THEN pl ELSE place[x]
  BY DEF TInv, TypeOK
<1>2. \A x \in Threads : x \in Setters' <=> x \in Setters
  BY <1>1 DEF Setters, PlainPlaces
<1>3. due'[t] = priority'[t] /\ due[t] = priority[t]
  BY <1>1 DEF due, DuePri, Setters, PlainPlaces
<1>4. \A x \in Threads \ {t} : due'[x] = due[x]
  BY <1>2 DEF due, DuePri
<1> QED
  BY <1>3, <1>4 DEF due

(* What a step has to leave to be in order again.                          *)
Placed == Good(runq, timerq, status, due, current)' /\ Running'

(* Dispatch() leaves every thread where its status says.                   *)
LEMMA DispatchPlaces ==
  ASSUME NEW q \in RunqType, NEW st \in StatusType, NEW hint, Fresh(st),
         Good(q, timerq', st, due', Idle), Dispatch(q, st, hint)
  PROVE  Placed /\ Fresh(status')
<1>1. ASSUME NEW p \in Priorities,
             FirstAvail(q, hint, p),
             current'    = Head(q[p]),
             runq'       = Dequeued(q, p),
             status'     = Marked(st, Head(q[p]), "running"),
             CurrentPri' = p
      PROVE  Placed /\ Fresh(status')
  <2>1. q[p] # <<>>
    BY <1>1 DEF FirstAvail
  <2>2. /\ Good(Dequeued(q, p), timerq', Marked(st, Head(q[p]), "running"), due', Head(q[p]))
        /\ Head(q[p]) \in Threads /\ due'[Head(q[p])] = p
    BY <2>1, DequeueGood, ThreadsAssumption, Z3
  <2>3. Running'
    BY <1>1, <2>2 DEF Running
  <2>4. Fresh(status')
    BY <1>1, <2>2 DEF Fresh, Setters, Busy, StatusType, Marked
  <2> QED
    BY <1>1, <2>2, <2>3, <2>4 DEF Placed
<1>2. ASSUME current' = Idle, runq' = q, status' = st
      PROVE  Placed /\ Fresh(status')
  BY <1>2, ThreadsAssumption DEF Placed, Running
<1> QED
  BY <1>1, <1>2 DEF Dispatch, Dequeued, Marked

(* Yield(): the caller is queued at the priority it now has.               *)
LEMMA YieldPlaces ==
  ASSUME TInv, GInv, current \in Threads, NEW p \in Priorities, NEW hint,
         timerq' = timerq, due'[current] = p,
         \A x \in Threads \ {current} : due'[x] = due[x],
         YieldAt(p, hint)
  PROVE  Placed /\ Fresh(status')
<1> DEFINE q  == Enqueued(runq, p, current)
           st == Marked(status, current, "runnable")
<1>1. runq \in RunqType /\ status \in StatusType
  BY DEF TInv, TypeOK, RunqType, StatusType
<1>2. q \in RunqType /\ st \in StatusType /\ Fresh(st)
  <2>1. Fresh(status)
    BY DEF GInv, KernelHigh, Setters, Fresh
  <2> QED
    BY <1>1, <2>1, EnqueueType DEF StatusType, Status, Fresh, Busy, Enqueued, Marked
<1>3. ~On(runq, current) /\ ~In(timerq, current) /\ Once(timerq)
  BY DEF GInv, Good, Held
<1>4. \A x \in Threads : In(timerq, x) <=> In(timerq, x) /\ x # current
  BY <1>3
<1>5. Good(runq, timerq, status, due, current)
  BY DEF GInv
<1>6. \A x \in Threads : Idle = x => current = x /\ x # current
  BY ThreadsAssumption
<1>7. Good(q, timerq, st, due', Idle)
  BY <1>1, <1>3, <1>4, <1>5, <1>6, EnqueueGood
<1> QED
  BY <1>2, <1>7, DispatchPlaces DEF YieldAt, Enqueued, Marked

(* An interrupt's time slice: the thread that ran is queued at the priority*)
(* it ran at, which is its own.                                            *)
LEMMA SlicePlaces ==
  ASSUME TInv, GInv, CurrentPri # HIGHPRI, UNCHANGED <<priority, place, oldpri, setting>>,
         NEW q \in RunqType, NEW st \in StatusType, NEW hint, Fresh(st),
         Good(q, timerq', st, due, current), Slice(q, st, hint)
  PROVE  Placed /\ Fresh(status')
<1> DEFINE q2  == Enqueued(q, CurrentPri, current)
           st2 == Marked(st, current, "sliced")
<1>1. current \in Threads /\ CurrentPri \in Priorities
  BY DEF TInv, TypeOK, LowIsThread
<1>2. due'[current] = CurrentPri /\ due' = due
  BY <1>1, DueSame DEF GInv, Running, KernelHigh
<1>3. q2 \in RunqType /\ st2 \in StatusType /\ Fresh(st2)
  BY <1>1, EnqueueType DEF StatusType, Status, Fresh, Busy, Enqueued, Marked
<1>4. ~On(q, current) /\ ~In(timerq', current) /\ Once(timerq')
  BY <1>1 DEF Good, Held
<1>5. \A x \in Threads : In(timerq', x) <=> In(timerq', x) /\ x # current
  BY <1>4
<1>6. \A x \in Threads : Idle = x => current = x /\ x # current
  BY ThreadsAssumption
<1>7. Good(q2, timerq', st2, due', Idle)
  BY <1>1, <1>2, <1>4, <1>5, <1>6, EnqueueGood
<1> QED
  BY <1>3, <1>7, DispatchPlaces DEF Slice, Enqueued, Marked

(* Every interrupt handler ends in a slice or goes on with the thread it   *)
(* interrupted.                                                            *)
LEMMA InterruptKeeps ==
  ASSUME TInv, GInv, UNCHANGED <<priority, place, oldpri, setting>>,
         NEW q \in RunqType, NEW st \in StatusType, NEW hint, Fresh(st),
         Good(q, timerq', st, due, current),
         \/ CurrentPri # HIGHPRI /\ Slice(q, st, hint)
         \/ \E ticks : Continue(q, st, hint, ticks)
  PROVE  GInv'
<1>1. CASE CurrentPri # HIGHPRI /\ Slice(q, st, hint)
  <2>1. Placed /\ Fresh(status')
    BY <1>1, SlicePlaces
  <2>2. \/ current \notin Threads
        \/ place[current] # "create"
    BY <1>1 DEF GInv, KernelHigh
  <2>3. KernelHigh'
    BY <2>1, <2>2 DEF GInv, KernelHigh, Setters, Fresh
  <2> QED
    BY <2>1, <2>3 DEF Placed, GInv
<1>2. ASSUME NEW ticks, Continue(q, st, hint, ticks)
      PROVE  GInv'
  <2>1. due' = due
    BY DueSame
  <2>2. Good(runq, timerq, status, due, current)' /\ Running'
    BY <1>2, <2>1 DEF Continue, GInv, Running
  <2>3. KernelHigh'
    BY <1>2 DEF Continue, GInv, KernelHigh, Setters, Fresh
  <2> QED
    BY <2>2, <2>3 DEF GInv
<1> QED
  BY <1>1, <1>2

(* Resume() of a suspended thread, whether it waits, waits with a time-out,*)
(* or has been timed out already.                                          *)
LEMMA ResumedGood ==
  ASSUME TInv, GInv, NEW u \in Threads, Suspended(u), Untimed(u)
  PROVE  /\ Good(ResumedRunq(u), timerq', ResumedStatus(u), due, current)
         /\ Fresh(ResumedStatus(u))
<1>1. /\ runq \in RunqType /\ status \in StatusType /\ timerq \in Seq(Threads)
      /\ priority[u] \in Priorities
  BY DEF TInv, TypeOK, RunqType, StatusType
<1>0. u \notin Setters /\ due[u] = priority[u]
  <2>1. u \notin Setters
    BY DEF GInv, KernelHigh, Suspended, Busy
  <2> QED
    BY <2>1 DEF due, DuePri
<1>2. ResumedStatus(u) = Marked(status, u, "runnable")
  BY DEF ResumedStatus, Suspended, Marked
<1>3. Good(runq, timerq, status, due, current) /\ Once(timerq)
  BY DEF GInv, Good
<1>4. Fresh(ResumedStatus(u))
  BY <1>0, <1>1, <1>2 DEF Fresh, GInv, KernelHigh, Setters, Busy, StatusType, Marked
<1>5. CASE TimedOut(u)
  <2>1. ~In(timerq, u) /\ status[u] = "timedwait"
    BY <1>5 DEF TimedOut, OnTimer
  <2>2. timerq' = timerq /\ ResumedRunq(u) = runq
    BY <1>1, <1>5, <2>1, WithoutPlace DEF Untimed, ResumedRunq
  <2>3. Good(runq, timerq, Marked(status, u, "runnable"), due, current)
    BY <1>1, <1>3, <2>1, ToldGood
  <2> QED
    BY <1>2, <1>4, <2>2, <2>3
<1>6. CASE ~TimedOut(u)
  <2>1. ~On(runq, u)
    BY <1>6 DEF GInv, Good, Held, Suspended, TimedOut, OnTimer
  <2>2. Once(timerq') /\ \A x \in Threads : In(timerq', x) <=> In(timerq, x) /\ x # u
    <3>1. CASE status[u] = "timedwait"
      <4>1. In(timerq, u) /\ timerq' = Without(timerq, u)
        BY <1>6, <3>1 DEF TimedOut, OnTimer, Untimed
      <4>2. timerq' \in Seq(Threads)
            /\ \E k \in 1 .. Len(timerq) : timerq[k] = u /\ Removed(timerq, k, timerq')
        BY <1>1, <4>1, WithoutPlace
      <4> QED
        BY <1>1, <1>3, <4>2, RemovedList
    <3>2. CASE status[u] # "timedwait"
      <4>1. timerq' = timerq /\ ~In(timerq, u)
        BY <3>2 DEF Untimed, GInv, Good, Held, Suspended
      <4> QED
        BY <1>3, <4>1
    <3> QED
      BY <3>1, <3>2
  <2>3. \A x \in Threads : current = x => current = x /\ x # u
    BY DEF GInv, Good, Held, Suspended
  <2>4. Good(Enqueued(runq, priority[u], u), timerq', Marked(status, u, "runnable"),
             due, current)
    BY <1>0, <1>1, <1>3, <2>1, <2>2, <2>3, EnqueueGood
  <2> QED
    BY <1>2, <1>4, <1>6, <2>4 DEF ResumedRunq, Enqueued
<1> QED
  BY <1>5, <1>6

(* A thread is started at the tail of its priority's queue.                *)
LEMMA StartGood ==
  ASSUME TInv, GInv, NEW u \in Threads, NEW p \in Priorities, Start(u, p),
         due'[u] = p, \A x \in Threads \ {u} : due'[x] = due[x]
  PROVE  Good(runq, timerq, status, due, current)' /\ Fresh(status')
<1>1. runq \in RunqType /\ status \in StatusType
  BY DEF TInv, TypeOK, RunqType, StatusType
<1>2. ~On(runq, u) /\ ~In(timerq, u) /\ current # u
  BY DEF GInv, Good, Held, Start
<1>3. Good(runq, timerq, status, due, current) /\ Once(timerq)
  BY DEF GInv, Good
<1>4. timerq' = timerq /\ current' = current
  BY DEF Start
<1>5. \A x \in Threads : In(timerq', x) <=> In(timerq, x) /\ x # u
  BY <1>2, <1>4
<1>6. \A x \in Threads : current' = x => current = x /\ x # u
  BY <1>2, <1>4
<1>7. Once(timerq')
  BY <1>3, <1>4
<1>8. Good(Enqueued(runq, p, u), timerq', Marked(status, u, "startup"), due', current')
  BY <1>1, <1>2, <1>3, <1>4, <1>5, <1>6, <1>7, EnqueueGood
<1> QED
  BY <1>1, <1>8 DEF Start, Fresh, GInv, KernelHigh, Setters, Busy, StatusType, Enqueued, Marked

(* Sleep() and TimedSuspend().                                             *)
LEMMA SleepPlaces ==
  ASSUME TInv, GInv, NEW t \in Threads, NEW s \in {"sleep", "timedwait"}, NEW d, SleepAs(t, s, d)
  PROVE  Placed /\ Fresh(status')
<1>0. due' = due /\ t \notin Setters
  <2>1. place[t] \in PlainPlaces /\ "return" \in PlainPlaces
    BY DEF SleepAs, At, Places, PlainPlaces
  <2>2. place' = [place EXCEPT ![t] = "return"] /\ UNCHANGED <<priority, setting>>
    BY DEF SleepAs
  <2> QED
    BY <2>1, <2>2, DueMoves, DueRecorded
<1>1. runq \in RunqType /\ status \in StatusType /\ timerq \in Seq(Threads) /\ current = t
  BY DEF TInv, TypeOK, RunqType, StatusType, SleepAs, At
<1>2. Good(runq, timerq, status, due, t) /\ Once(timerq) /\ ~In(timerq, t)
  BY <1>1 DEF GInv, Good, Held
<1>3. Once(timerq') /\ \A x : In(timerq', x) <=> In(timerq, x) \/ x = t
  <2> DEFINE end == (Timer + d) % ClockSize
  <2>1. PICK k \in 1 .. Len(timerq) + 1 : Inserted(timerq, k, t, InsertTimed(timerq, t, end))
    BY <1>1, InsertTimedPlace
  <2>2. InsertTimed(timerq, t, end) \in Seq(Threads) /\ timerq' = InsertTimed(timerq, t, end)
    BY <1>1, InsertTimedPlace DEF SleepAs
  <2> QED
    BY <1>1, <1>2, <2>1, <2>2, InsertedList
<1>4. Marked(status, t, s) \in StatusType /\ Fresh(Marked(status, t, s))
  BY <1>0, <1>1 DEF StatusType, Status, Fresh, GInv, KernelHigh, Setters, Marked
<1>5. Good(runq, timerq', Marked(status, t, s), due, Idle)
  BY <1>1, <1>2, <1>3, SleepGood
<1>6. Dispatch(runq, Marked(status, t, s), HighestAvailPri)
  BY DEF SleepAs, Marked
<1> QED
  BY <1>0, <1>1, <1>4, <1>5, <1>6, DispatchPlaces

----------------------------------------------------------------------------
(* The steps.                                                              *)

(* Only the running thread can be inside EnterProcess().                   *)
NoCreate == \A t \in Threads : place[t] # "create"

(* Only the current thread can be in EnterProcess().                       *)
LEMMA NobodyCreates ==
  ASSUME GInv, current \in Threads => place[current] # "create"
  PROVE  NoCreate
BY DEF GInv, KernelHigh, NoCreate

(* A step of the running thread that gives up the processor, or not.       *)
LEMMA PlacedKeeps ==
  ASSUME TInv, GInv, NoCreate, NEW t \in Threads, Placed, Fresh(status'), current = t,
         NEW pl \in Places \ {"create"}, place' = [place EXCEPT ![t] = pl],
         \A x \in Threads \ {t} : priority'[x] = priority[x] /\ setting'[x] = setting[x],
         pl \in {"system", "return"} => priority'[t] = HIGHPRI,
         pl \notin PlainPlaces => status'[t] \in Busy,
         pl = "raise" => setting'[t].pri = HIGHPRI
  PROVE  GInv'
<1>1. status[t] # "none"
  BY DEF GInv, Good, Held
<1>2. \A x \in Threads : place'[x] = IF x = t THEN pl ELSE place[x]
  BY DEF TInv, TypeOK
<1>3. \A x \in Threads : x \in Setters' => status'[x] \in Busy
  BY <1>2 DEF Setters, Fresh, PlainPlaces
<1>4. KernelHigh'
  BY <1>1, <1>2, <1>3 DEF GInv, KernelHigh, NoCreate, Fresh
<1> QED
  BY <1>4 DEF GInv, Placed

(* A step that changes neither queues nor statuses.                        *)
LEMMA StayPlaces ==
  ASSUME GInv, UNCHANGED <<runq, timerq, status, current>>,
         current \in Threads => due'[current] = CurrentPri',
         \A x \in Threads : x # current => due'[x] = due[x]
  PROVE  Placed /\ Fresh(status')
<1>0. Fresh(status')
  BY DEF GInv, KernelHigh, Setters, Fresh
<1>1. CASE current \in Threads
  BY <1>0, <1>1, ReprioritiseGood DEF GInv, Placed, Running
<1>2. CASE current \notin Threads
  <2>1. \A p \in Priorities, x \in Threads : In(runq[p], x) => due'[x] = p
    BY <1>2 DEF GInv, Good, Recorded
  <2> QED
    BY <1>0, <1>2, <2>1 DEF GInv, Good, Recorded, Placed, Running
<1> QED
  BY <1>1, <1>2

(* Resume() by a kernel call.                                              *)
LEMMA ResumeByKeeps ==
  ASSUME TInv, GInv, NEW t \in Threads, NEW u \in Threads, Suspended(u), ResumeBy(t, u)
  PROVE  GInv'
<1>1. /\ Good(runq', timerq', status', due, current) /\ Fresh(status')
      /\ UNCHANGED <<cpu, priority, oldpri, setting>> /\ current = t /\ place[t] = "system"
      /\ place' = [place EXCEPT ![t] = "return"]
  BY ResumedGood DEF ResumeBy, Resume, At
<1>3. NoCreate
  BY <1>1, NobodyCreates
<1>4. /\ "return" \in Places \ {"create"} /\ "return" \in PlainPlaces /\ place[t] \in PlainPlaces
      /\ priority'[t] = HIGHPRI
  BY <1>1 DEF Places, PlainPlaces, GInv, KernelHigh
<1>5. due' = due
  BY <1>1, <1>4, DueMoves
<1>2. Placed
  BY <1>1, <1>3, <1>5 DEF GInv, Running, NoCreate, Placed, cpu
<1> QED
  BY <1>1, <1>2, <1>3, <1>4, PlacedKeeps

(* A call whose caller leaves the processor for a wait.                    *)
LEMMA SuspendPlaces ==
  ASSUME TInv, GInv, NEW t \in Threads, current = t, UNCHANGED <<timerq, due>>, t \notin Setters,
         \/ Dispatch(runq, [status EXCEPT ![t] = "semaphore"], HighestAvailPri)
         \/ Dispatch(runq, status, HighestAvailPri)
  PROVE  Placed /\ Fresh(status')
<1>1. runq \in RunqType /\ status \in StatusType /\ Marked(status, t, "semaphore") \in StatusType
  BY DEF TInv, TypeOK, RunqType, StatusType, Status, Marked
<1>2. Fresh(status) /\ Fresh(Marked(status, t, "semaphore"))
  BY DEF Fresh, GInv, KernelHigh, Setters, Marked, TInv, TypeOK
<1>3. /\ Good(runq, timerq', Marked(status, t, "semaphore"), due', Idle)
      /\ Good(runq, timerq', status, due', Idle)
  BY <1>1, LeaveGood DEF GInv
<1>4. CASE Dispatch(runq, Marked(status, t, "semaphore"), HighestAvailPri)
  BY <1>1, <1>2, <1>3, <1>4, DispatchPlaces
<1>5. CASE Dispatch(runq, status, HighestAvailPri)
  BY <1>1, <1>2, <1>3, <1>5, DispatchPlaces
<1> QED
  BY <1>4, <1>5 DEF Marked

(* The first store of SetPhysPri(): nobody looks at the queues.            *)
LEMMA SetPriKeeps ==
  ASSUME TInv, GInv, NoCreate, NEW t \in Threads, current = t, place[t] \in PlainPlaces,
         NEW p \in Priorities, NEW pl \in {"setpri", "lower", "raise"},
         pl = "raise" => p = HIGHPRI, SetPri(t, p, pl)
  PROVE  GInv'
<1>1. /\ UNCHANGED <<runq, timerq, status, current, priority>> /\ CurrentPri' = p
      /\ place' = [place EXCEPT ![t] = pl] /\ pl \in Places \ {"create"}
      /\ setting'[t].pri = p /\ \A x \in Threads \ {t} : setting'[x] = setting[x]
  BY DEF SetPri, queues, Places, TInv, TypeOK
<1>2. \A x \in Threads : place'[x] = IF x = t THEN pl ELSE place[x]
  BY <1>1 DEF TInv, TypeOK
<1>3. due'[t] = p /\ \A x \in Threads \ {t} : due'[x] = due[x]
  BY <1>1, <1>2 DEF due, DuePri, Setters
<1>4. Placed /\ Fresh(status')
  BY <1>1, <1>3, StayPlaces
<1>5. status'[t] \in Busy
  BY <1>1 DEF GInv, Good, Held, Busy
<1>6. pl \notin {"system", "return"}
  OBVIOUS
<1> QED
  BY <1>1, <1>4, <1>5, <1>6, PlacedKeeps

(* The others: the thread is given the priority under which an interrupt   *)
(* would have queued it.                                                   *)
LEMMA SetPriEndKeeps ==
  ASSUME TInv, GInv, NEW t \in Threads, SetPriEnd(t)
  PROVE  GInv'
<1>1. /\ current = t /\ t \in Setters /\ NoCreate
      /\ place' = [place EXCEPT ![t] = AfterSetPri(@)] /\ timerq' = timerq
  <2>1. current = t /\ t \in Setters /\ timerq' = timerq
        /\ place' = [place EXCEPT ![t] = AfterSetPri(@)]
    BY DEF SetPriEnd
  <2> QED
    BY <2>1, NobodyCreates DEF Setters
<1>2. /\ priority'[t] = setting[t].pri
      /\ \A x \in Threads \ {t} : priority'[x] = priority[x] /\ setting'[x] = setting[x]
  BY DEF SetPriEnd, ToRecord, TInv, TypeOK
<1> DEFINE pl == AfterSetPri(place[t])
<1>3. /\ pl \in PlainPlaces /\ pl \in Places \ {"create"} /\ pl \notin {"return", "raise"}
      /\ pl = "system" => place[t] = "raise"
  BY <1>1 DEF AfterSetPri, Setters, Places, PlainPlaces
<1>4. place' = [place EXCEPT ![t] = pl] /\ \A x \in Threads : place'[x] = IF x = t THEN pl ELSE place[x]
  BY <1>1 DEF TInv, TypeOK
<1> HIDE DEF pl
<1>5. due' = due
  <2>1. due'[t] = priority'[t] /\ due[t] = setting[t].pri
    BY <1>1, <1>3, <1>4 DEF due, DuePri, Setters, PlainPlaces
  <2>2. \A x \in Threads \ {t} : due'[x] = due[x]
    BY <1>2, <1>4 DEF due, DuePri, Setters
  <2> QED
    BY <1>2, <2>1, <2>2 DEF due
<1>6. due[t] = CurrentPri /\ CurrentPri \in Priorities
  BY <1>1 DEF GInv, Running, NoCreate, TInv, TypeOK
<1>7. Placed /\ Fresh(status')
  <2>1. CASE UNCHANGED <<runq, cpu, status>>
    BY <1>1, <1>5, <1>6, <2>1, StayPlaces DEF cpu
  <2>2. ASSUME NEW hint, YieldAt(CurrentPri, hint)
        PROVE  Placed /\ Fresh(status')
    BY <1>1, <1>5, <1>6, <2>2, YieldPlaces
  <2> QED
    BY <2>1, <2>2 DEF SetPriEnd
<1>8. pl = "system" => priority'[t] = HIGHPRI
  BY <1>2, <1>3 DEF GInv, KernelHigh
<1> QED
  BY <1>1, <1>2, <1>3, <1>4, <1>7, <1>8, PlacedKeeps

(* Each function called in System() keeps threads and queues in agreement, *)
(* ...                                                                     *)
LEMMA InSystemKeeps ==
  ASSUME TInv, GInv, NEW t \in Threads, InSystem(t)
  PROVE  GInv'
<1>0. /\ current = t /\ place[t] \in {"system", "copy"} /\ NoCreate
      /\ place[t] = "system" => priority[t] = HIGHPRI
      /\ "return" \in Places \ {"create"} /\ "return" \in PlainPlaces /\ "return" # "raise"
      /\ place[t] \in PlainPlaces /\ t \notin Setters /\ due[t] = CurrentPri
  <2>1. current = t /\ place[t] \in {"system", "copy"}
    BY DEF InSystem, SystemPlain, SystemSuspend, SystemResume, ResumeBy, SystemYield, CopyBegin,
           CopyEnd, Sleep, TimedSuspend, SleepAs, At
  <2>2. NoCreate /\ due[t] = CurrentPri
    BY <2>1, NobodyCreates DEF GInv, Running, NoCreate
  <2>3. place[t] \in PlainPlaces /\ "return" \in PlainPlaces
    BY <2>1 DEF Places, PlainPlaces
  <2> QED
    BY <2>1, <2>2, <2>3, DueRecorded DEF Places, GInv, KernelHigh
<1>1. ASSUME place' = [place EXCEPT ![t] = "return"], UNCHANGED <<priority, setting>>
      PROVE  due' = due
  BY <1>0, <1>1, DueMoves
<1>2. ASSUME Placed, Fresh(status'), place[t] = "system",
             place' = [place EXCEPT ![t] = "return"], UNCHANGED <<priority, setting>>
      PROVE  GInv'
  BY <1>0, <1>2, PlacedKeeps
<1>3. CASE SystemPlain(t)
  <2>1. /\ UNCHANGED <<runq, timerq, status, current, CurrentPri, priority, setting>>
        /\ place[t] = "system" /\ place' = [place EXCEPT ![t] = "return"]
    BY <1>3 DEF SystemPlain, At, queues, cpu
  <2>2. Placed /\ Fresh(status')
    BY <1>0, <1>1, <2>1, StayPlaces
  <2> QED
    BY <1>2, <2>1, <2>2
<1>4. CASE SystemSuspend(t)
  <2>1. /\ place[t] = "system" /\ place' = [place EXCEPT ![t] = "return"]
        /\ UNCHANGED <<timerq, priority, setting>>
    BY <1>4 DEF SystemSuspend, At
  <2>2. Placed /\ Fresh(status')
    BY <1>0, <1>1, <1>4, <2>1, SuspendPlaces DEF SystemSuspend
  <2> QED
    BY <1>2, <2>1, <2>2
<1>5. CASE SystemResume(t)
  BY <1>5, ResumeByKeeps DEF SystemResume
<1>6. CASE SystemYield(t)
  <2>1. /\ place[t] = "system" /\ place' = [place EXCEPT ![t] = "return"]
        /\ UNCHANGED <<timerq, priority, setting>> /\ HIGHPRI \in Priorities
    BY <1>6, LevelsAssumption DEF SystemYield, At, HIGHPRI, Priorities
  <2>2. due[t] = HIGHPRI
    BY <1>0, <2>1, DueRecorded
  <2>3. CASE UNCHANGED <<runq, HighestAvailPri, cpu, status>>
    <3>1. Placed /\ Fresh(status')
      BY <1>0, <1>1, <2>1, <2>3, StayPlaces DEF cpu
    <3> QED
      BY <1>2, <2>1, <3>1
  <2>4. CASE YieldAt(HIGHPRI, HighestAvailPri)
    <3>1. Placed /\ Fresh(status')
      BY <1>0, <1>1, <2>1, <2>2, <2>4, YieldPlaces
    <3> QED
      BY <1>2, <2>1, <3>1
  <2> QED
    BY <1>6, <2>3, <2>4 DEF SystemYield
<1>7. CASE CopyBegin(t)
  <2>1. HIGHPRI + 1 \in Priorities
    BY LevelsAssumption DEF HIGHPRI, Priorities
  <2> QED
    BY <1>0, <1>7, <2>1, SetPriKeeps DEF CopyBegin
<1>8. CASE CopyEnd(t)
  <2>1. HIGHPRI \in Priorities
    BY LevelsAssumption DEF HIGHPRI, Priorities
  <2> QED
    BY <1>0, <1>8, <2>1, SetPriKeeps DEF CopyEnd
<1>9. ASSUME NEW d \in 1 .. MaxSleep, Sleep(t, d) \/ TimedSuspend(t, d)
      PROVE  GInv'
  <2>1. PICK s \in {"sleep", "timedwait"} : SleepAs(t, s, d)
    BY <1>9 DEF Sleep, TimedSuspend
  <2>2. Placed /\ Fresh(status')
    BY <2>1, SleepPlaces
  <2>3. /\ place[t] = "system" /\ place' = [place EXCEPT ![t] = "return"]
        /\ UNCHANGED <<priority, setting>>
    BY <2>1 DEF SleepAs, At
  <2> QED
    BY <1>2, <2>2, <2>3
<1> QED
  BY <1>3, <1>4, <1>5, <1>6, <1>7, <1>8, <1>9 DEF InSystem

(* ... so does the way in and out of it, ...                               *)
LEMMA KernelKeeps ==
  ASSUME TInv, GInv, NEW t \in Threads, Kernel(t)
  PROVE  GInv'
<1>1. CASE InSystem(t)
  BY <1>1, InSystemKeeps
<1>2. CASE SystemReturn(t)
  <2>1. /\ current = t /\ NoCreate /\ oldpri[t] \in Priorities /\ timerq' = timerq
        /\ priority'[t] = oldpri[t] /\ \A x \in Threads \ {t} : priority'[x] = priority[x]
        /\ place[t] = "return" /\ setting' = setting
    BY <1>2, NobodyCreates DEF SystemReturn, At, TInv, TypeOK
  <2>2. /\ "user" \in Places \ {"create"} /\ place' = [place EXCEPT ![t] = "user"]
        /\ "user" \in PlainPlaces /\ place[t] \in PlainPlaces /\ "user" # "raise"
    BY <1>2, <2>1 DEF SystemReturn, Places, PlainPlaces
  <2>3. due'[t] = oldpri[t] /\ \A x \in Threads \ {t} : due'[x] = due[x]
    BY <2>1, <2>2, DueMoves
  <2>4. Placed /\ Fresh(status')
    <3>1. CASE YieldAt(oldpri[t], HighestAvailPri)
      BY <2>1, <2>3, <3>1, YieldPlaces
    <3>2. CASE CurrentPri' = oldpri[t] /\ UNCHANGED <<runq, HighestAvailPri, current, SliceTime, status>>
      BY <2>1, <2>3, <3>2, StayPlaces
    <3> QED
      BY <1>2, <3>1, <3>2 DEF SystemReturn
  <2> QED
    BY <2>1, <2>2, <2>4, PlacedKeeps
<1>3. CASE StopEnd(t)
  <2>1. /\ current = t /\ NoCreate /\ UNCHANGED <<timerq, priority, setting>>
        /\ Dispatch(runq, status, HighestAvailPri) /\ place[t] = "stop"
        /\ "gone" \in Places \ {"create"} /\ place' = [place EXCEPT ![t] = "gone"]
        /\ "gone" \in PlainPlaces /\ "stop" \in PlainPlaces /\ "gone" # "raise"
    BY <1>3, NobodyCreates DEF StopEnd, At, Places, PlainPlaces
  <2>2. due' = due /\ t \notin Setters
    BY <2>1, DueMoves, DueRecorded
  <2>3. Placed /\ Fresh(status')
    BY <2>1, <2>2, SuspendPlaces
  <2> QED
    BY <2>1, <2>3, PlacedKeeps
<1>4. ASSUME NEW u \in Threads, NEW p \in Priorities, EnterEnd(t, u, p)
      PROVE  GInv'
  <2>1. /\ current = t /\ place[t] = "create" /\ current' = t /\ priority[t] = oldpri[t]
        /\ \A x \in Threads \ {t} : place[x] # "create"
        /\ status[t] \in {"running", "killed"} /\ setting' = setting
    BY <1>4 DEF EnterEnd, Start, At, GInv, KernelHigh, Good, Held
  <2>2. /\ CurrentPri' = oldpri[t] /\ u # t /\ place[u] = "user"
        /\ priority' = [priority EXCEPT ![u] = p] /\ place' = [place EXCEPT ![t] = "user"]
    BY <1>4, <2>1 DEF EnterEnd, Start, GInv, KernelHigh
  <2>3. /\ \A x \in Threads : place'[x] = IF x = t THEN "user" ELSE place[x]
        /\ \A x \in Threads : priority'[x] = IF x = u THEN p ELSE priority[x]
    BY <2>2 DEF TInv, TypeOK
  <2>4. \A x \in Threads : x \in Setters' <=> x \in Setters
    BY <2>1, <2>3 DEF Setters
  <2>5. due'[u] = p /\ (\A x \in Threads \ {u} : due'[x] = due[x]) /\ due[t] = priority[t]
    BY <2>1, <2>2, <2>3, <2>4 DEF due, DuePri, Setters
  <2>6. Good(runq, timerq, status, due, current)' /\ Fresh(status')
    BY <1>4, <2>5, StartGood DEF EnterEnd
  <2>7. Running'
    BY <2>1, <2>2, <2>5 DEF Running
  <2>8. KernelHigh'
    BY <2>1, <2>2, <2>3, <2>4, <2>6 DEF GInv, KernelHigh, Fresh
  <2> QED
    BY <2>6, <2>7, <2>8 DEF GInv
<1> QED
  BY <1>1, <1>2, <1>3, <1>4, SetPriEndKeeps DEF Kernel

(* ... a program's own step, ...                                           *)
LEMMA ProgramKeeps ==
  ASSUME TInv, GInv, NEW t \in Threads, Program(t)
  PROVE  GInv'
<1>0. /\ current = t /\ NoCreate /\ place[t] \in {"user", "return"}
      /\ HIGHPRI \in Priorities /\ status[t] \in {"running", "killed"}
      /\ place[t] \in PlainPlaces /\ t \notin Setters /\ due[t] = priority[t]
      /\ due[t] = CurrentPri
  <2>1. current = t /\ place[t] \in {"user", "return"}
    BY DEF Program, SystemEnter, Suspend, EnterBegin, StopBegin, SetPhysPri, At
  <2>2. NoCreate /\ due[t] = CurrentPri
    BY <2>1, NobodyCreates DEF GInv, Running, NoCreate
  <2>3. place[t] \in PlainPlaces
    BY <2>1 DEF Places, PlainPlaces
  <2> QED
    BY <2>1, <2>2, <2>3, DueRecorded, LevelsAssumption DEF HIGHPRI, Priorities, GInv, Good, Held
<1>1. CASE SystemEnter(t)
  <2>1. /\ UNCHANGED <<runq, timerq, status, current>> /\ CurrentPri' = HIGHPRI
        /\ priority'[t] = HIGHPRI /\ \A x \in Threads \ {t} : priority'[x] = priority[x]
        /\ "system" \in Places \ {"create"} /\ place' = [place EXCEPT ![t] = "system"]
        /\ "system" \in PlainPlaces /\ setting' = setting /\ "system" # "raise"
    BY <1>1 DEF SystemEnter, queues, TInv, TypeOK, Places, PlainPlaces
  <2>2. due'[t] = HIGHPRI /\ \A x \in Threads \ {t} : due'[x] = due[x]
    BY <1>0, <2>1, DueMoves
  <2>3. Placed /\ Fresh(status')
    BY <1>0, <2>1, <2>2, StayPlaces
  <2> QED
    BY <1>0, <2>1, <2>3, PlacedKeeps
<1>2. CASE Suspend(t)
  <2>1. due' = due /\ timerq' = timerq
    BY <1>2, DueSame DEF Suspend
  <2>3. Placed /\ Fresh(status')
    BY <1>0, <1>2, <2>1, SuspendPlaces DEF Suspend
  <2>2. KernelHigh'
    BY <1>0, <1>2, <2>3 DEF Suspend, GInv, KernelHigh, NoCreate, Fresh, Setters
  <2> QED
    BY <2>2, <2>3 DEF GInv, Placed
<1>3. CASE EnterBegin(t)
  <2>1. /\ UNCHANGED <<runq, timerq, status, current, priority, setting>> /\ CurrentPri' = HIGHPRI
        /\ place' = [place EXCEPT ![t] = "create"] /\ oldpri' = [oldpri EXCEPT ![t] = CurrentPri]
        /\ "create" \in PlainPlaces
    BY <1>3 DEF EnterBegin, queues, Places, PlainPlaces
  <2>2. Good(runq, timerq, status, due, current)'
    <3>1. due' = due
      BY <1>0, <2>1, DueMoves
    <3> QED
      BY <2>1, <3>1 DEF GInv
  <2>3. priority[t] = CurrentPri
    BY <1>0
  <2>4. Running'
    BY <1>0, <2>1 DEF Running, TInv, TypeOK
  <2>5. KernelHigh'
    BY <1>0, <2>1, <2>3 DEF GInv, KernelHigh, NoCreate, Setters, TInv, TypeOK
  <2> QED
    BY <2>2, <2>4, <2>5 DEF GInv
<1>4. CASE StopBegin(t)
  <2>1. /\ UNCHANGED <<runq, timerq, current, CurrentPri, priority, setting>>
        /\ status' = Marked(status, t, "killed")
        /\ "stop" \in Places \ {"create"} /\ place' = [place EXCEPT ![t] = "stop"]
        /\ "stop" \in PlainPlaces /\ "stop" # "raise"
    BY <1>4 DEF StopBegin, queues, cpu, Marked, Places, PlainPlaces
  <2>5. due' = due
    BY <1>0, <2>1, DueMoves
  <2>2. Good(runq, timerq, Marked(status, t, "killed"), due, current)
    BY <1>0, LeaveGood DEF GInv, TInv, TypeOK, StatusType
  <2>3. Running' /\ Fresh(status')
    <3>1. Running'
      BY <1>0, <2>1, <2>5 DEF Running
    <3> QED
      BY <1>0, <2>1, <3>1 DEF GInv, KernelHigh, Setters, Fresh, Marked, TInv, TypeOK
  <2>4. Placed
    BY <2>1, <2>2, <2>3, <2>5 DEF Placed
  <2> QED
    BY <1>0, <2>1, <2>3, <2>4, PlacedKeeps
<1>5. ASSUME NEW p \in Priorities, SetPhysPri(t, p)
      PROVE  GInv'
  BY <1>0, <1>5, SetPriKeeps DEF SetPhysPri
<1> QED
  BY <1>1, <1>2, <1>3, <1>4, <1>5 DEF Program

(* ... the boot thread and the idle loop, ...                              *)
LEMMA BootKeeps ==
  ASSUME TInv, GInv, Boot \/ IdleScan
  PROVE  GInv'
<1>1. CASE IdleScan \/ BootStop
  <2>1. /\ current \notin Threads /\ NoCreate /\ Dispatch(runq, status, HighestAvailPri)
        /\ UNCHANGED <<timerq, priority, place, oldpri, setting>>
    BY <1>1, ThreadsAssumption, NobodyCreates DEF IdleScan, BootStop
  <2>5. due' = due
    BY <2>1, DueSame
  <2>2. Good(runq, timerq', status, due', Idle) /\ Fresh(status)
    BY <2>1, <2>5, LeaveGood DEF GInv, KernelHigh, Setters, TInv, TypeOK, StatusType, Fresh
  <2>3. Placed /\ Fresh(status')
    BY <2>1, <2>2, DispatchPlaces DEF TInv, TypeOK, RunqType, StatusType
  <2>4. KernelHigh'
    BY <2>1, <2>3 DEF GInv, KernelHigh, NoCreate, Setters, Fresh
  <2> QED
    BY <2>3, <2>4 DEF GInv, Placed
<1>2. ASSUME NEW u \in Threads, NEW p \in Priorities, BootEnter(u, p)
      PROVE  GInv'
  <2>1. /\ current \notin Threads /\ current' = current /\ NoCreate /\ UNCHANGED <<place, setting>>
        /\ place[u] = "user" /\ priority' = [priority EXCEPT ![u] = p]
    BY <1>2, ThreadsAssumption, NobodyCreates DEF BootEnter, Start, GInv, KernelHigh
  <2>2. \A x \in Threads : priority'[x] = IF x = u THEN p ELSE priority[x]
    BY <2>1 DEF TInv, TypeOK
  <2>3. due'[u] = p /\ \A x \in Threads \ {u} : due'[x] = due[x]
    BY <2>1, <2>2 DEF due, DuePri, Setters
  <2>4. Good(runq, timerq, status, due, current)' /\ Fresh(status')
    BY <1>2, <2>3, StartGood DEF BootEnter
  <2>5. Running' /\ KernelHigh'
    BY <2>1, <2>2, <2>4 DEF GInv, Running, KernelHigh, NoCreate, Setters, Fresh
  <2> QED
    BY <2>4, <2>5 DEF GInv
<1> QED
  BY <1>1, <1>2 DEF Boot

(* What the handlers may end in.                                           *)
LEMMA AfterWakeupsEnds ==
  ASSUME NEW q, NEW st, NEW hint, NEW preempt, AfterWakeups(q, st, hint, preempt)
  PROVE  \/ CurrentPri # HIGHPRI /\ Slice(q, st, hint)
         \/ \E ticks : Continue(q, st, hint, ticks)
BY DEF AfterWakeups

(* A device interrupt ends in a slice or by going back.                    *)
LEMMA IntrExitEnds ==
  ASSUME TInv, NEW q, NEW st, NEW hint \in Priorities, IntrExit(q, st, hint)
  PROVE  \/ CurrentPri # HIGHPRI /\ Slice(q, st, hint)
         \/ \E ticks : Continue(q, st, hint, ticks)
BY DEF IntrExit, HIGHPRI, Priorities, TInv, TypeOK

(* ... the timer's handler, which may wake a sleeper, ...                  *)
LEMMA TimerKeeps ==
  ASSUME TInv, GInv, TimerInterrupt
  PROVE  GInv'
<1>0. /\ runq \in RunqType /\ status \in StatusType /\ timerq \in Seq(Threads)
      /\ UNCHANGED <<priority, place, oldpri, setting>>
      /\ Good(runq, timerq, status, due, current)
  BY DEF TInv, TypeOK, RunqType, StatusType, TimerInterrupt, TimerWake, TimerNoWake, Tick, GInv
<1>1. CASE TimerNoWake
  <2>1. timerq' = timerq /\ Fresh(status) /\ AfterWakeups(runq, status, HighestAvailPri, FALSE)
    BY <1>1 DEF TimerNoWake, GInv, KernelHigh, Setters, Fresh
  <2> QED
    BY <1>0, <2>1, AfterWakeupsEnds, InterruptKeeps
<1>2. CASE TimerWake
  <2> DEFINE u  == Head(timerq)
             s  == IF status[u] = "timedwait" THEN "timedwait" ELSE "runnable"
             q  == Enqueued(runq, priority[u], u)
             st == Marked(status, u, s)
  <2>1. timerq # <<>> /\ timerq' = Tail(timerq) /\ Once(timerq)
    BY <1>0, <1>2 DEF TimerWake, HeadDue, Good
  <2>2. /\ u \in Threads /\ In(timerq, u) /\ Once(timerq') /\ timerq' \in Seq(Threads)
        /\ \A x : In(timerq', x) <=> In(timerq, x) /\ x # u
    BY <1>0, <2>1, TailList
  <2>3. \E hint, preempt : AfterWakeups(q, st, hint, preempt)
    BY <1>2 DEF TimerWake, Enqueued, Marked
  <2> HIDE DEF u
  <2>4. ~On(runq, u) /\ current # u /\ priority[u] \in Priorities
    BY <1>0, <2>2 DEF Good, Held, TInv, TypeOK
  <2>9. u \notin Setters /\ due[u] = priority[u]
    <3>1. u \notin Setters
      BY <1>0, <2>2 DEF Good, Held, GInv, KernelHigh, Busy
    <3> QED
      BY <2>2, <3>1 DEF due, DuePri
  <2>5. s \in {"startup", "sliced", "runnable", "timedwait"} /\ s # "none"
    OBVIOUS
  <2> HIDE DEF s
  <2>6. \A x \in Threads : current = x => current = x /\ x # u
    BY <2>4
  <2>7. Good(q, timerq', st, due, current)
    BY <1>0, <2>2, <2>4, <2>5, <2>6, <2>9, EnqueueGood
  <2>8. q \in RunqType /\ st \in StatusType /\ Fresh(st)
    <3>1. q \in RunqType
      BY <1>0, <2>2, <2>4, EnqueueType DEF Enqueued
    <3> QED
      BY <1>0, <2>5, <2>9, <3>1 DEF Fresh, GInv, KernelHigh, Setters, Marked, StatusType, Status
  <2> QED
    BY <1>0, <2>3, <2>7, <2>8, AfterWakeupsEnds, InterruptKeeps
<1> QED
  BY <1>1, <1>2 DEF TimerInterrupt

(* An interrupt of a device, and the Resume() its handler may do.          *)
LEMMA DeviceKeeps ==
  ASSUME TInv, GInv, DeviceInterrupt
  PROVE  GInv'
<1>1. /\ runq \in RunqType /\ status \in StatusType /\ Fresh(status) /\ HighestAvailPri \in Priorities
      /\ UNCHANGED <<priority, place, oldpri, setting>>
      /\ Good(runq, timerq', status, due, current)
      /\ IntrExit(runq, status, HighestAvailPri)
  BY DEF TInv, TypeOK, RunqType, StatusType, DeviceInterrupt, Fresh, GInv, KernelHigh, Setters
<1> QED
  BY <1>1, IntrExitEnds, InterruptKeeps

(* ... and a device that wakes a suspended thread.                         *)
LEMMA IntrResumeKeeps ==
  ASSUME TInv, GInv, NEW u \in Threads, Suspended(u), IntrResume(u)
  PROVE  GInv'
<1>1. /\ ResumedRunq(u) \in RunqType /\ ResumedStatus(u) \in StatusType /\ ResumedHint(u) \in Priorities
  BY ResumedType
<1>2. /\ Good(ResumedRunq(u), timerq', ResumedStatus(u), due, current)
      /\ Fresh(ResumedStatus(u))
  BY ResumedGood DEF IntrResume
<1>3. /\ UNCHANGED <<priority, place, oldpri, setting>>
      /\ IntrExit(ResumedRunq(u), ResumedStatus(u), ResumedHint(u))
  BY DEF IntrResume
<1> QED
  BY <1>1, <1>2, <1>3, IntrExitEnds, InterruptKeeps

----------------------------------------------------------------------------
(* The three facts of the invariance proof.                                *)
LEMMA GInvInit ==
  Init => GInv
<1> SUFFICES ASSUME Init
             PROVE  Good(runq, timerq, status, due, current) /\ Running /\ KernelHigh
  BY DEF GInv
<1>1. (\A x : ~In(timerq, x)) /\ Once(timerq)
  BY DEF Init, In, Once
<1>2. \A p \in Priorities : Once(runq[p]) /\ \A x : ~In(runq[p], x)
  BY DEF Init, In, Once
<1>3. \A x : ~On(runq, x)
  BY <1>2 DEF On
<1> QED
  BY <1>1, <1>2, <1>3, ThreadsAssumption DEF Init, Good, Held, Recorded, Running, KernelHigh, Setters

(* Every step keeps threads and queues in agreement.                       *)
LEMMA GInvStep ==
  TInv /\ GInv /\ [Next]_vars => GInv'
<1> SUFFICES ASSUME TInv, GInv, [Next]_vars
             PROVE  GInv'
  OBVIOUS
<1>1. CASE UNCHANGED vars
  <2>1. UNCHANGED <<runq, timerq, current, CurrentPri, status, priority, place, oldpri, setting>>
    BY <1>1 DEF vars, queues, cpu, threads
  <2>2. due' = due
    BY <2>1, DueSame
  <2> QED
    BY <2>1, <2>2 DEF GInv, Running, KernelHigh, Setters
<1>2. CASE IdleScan \/ Boot
  BY <1>2, BootKeeps
<1>3. CASE TimerInterrupt
  BY <1>3, TimerKeeps
<1>4. CASE DeviceInterrupt
  BY <1>4, DeviceKeeps
<1>5. ASSUME NEW t \in Threads, Kernel(t) \/ Program(t) \/ DeviceResume(t)
      PROVE  GInv'
  BY <1>5, KernelKeeps, ProgramKeeps, IntrResumeKeeps DEF DeviceResume
<1> QED
  BY <1>1, <1>2, <1>3, <1>4, <1>5 DEF Next

(* A thread is in one place, the one its status says, and on the queue of  *)
(* its recorded priority, under either processor's handlers: Sleep(),      *)
(* Resume(), the dispatcher and the interrupts never queue a thread twice  *)
(* nor lose one.  A thread preempted between the stores of SetPhysPri() is *)
(* on the queue of the priority it is setting, and its record is put right *)
(* when it goes on.                                                        *)
THEOREM OnePlaceEach ==
  Spec => [](OnePlace /\ PriorityRecorded)
<1>1. Init => TInv /\ GInv
  BY TypeInit, GInvInit
<1>2. TInv /\ GInv /\ [Next]_vars => TInv' /\ GInv'
  BY TypeStep, GInvStep
<1>3. TInv /\ GInv => OnePlace /\ PriorityRecorded
  BY GInvSound
<1> QED
  BY <1>1, <1>2, <1>3, PTL DEF Spec

----------------------------------------------------------------------------
(* The clock.  Times are compared as one machine word, by the sign of the  *)
(* difference: that is right as long as no two of them lie half the range  *)
(* of the word apart.  A sleeper is late by fewer ticks than there are     *)
(* threads, so the longest delay and that many ticks have to fit.          *)
NumThreads == Cardinality(Threads)

HalfRange == /\ IsFiniteSet(Threads)
             /\ 2 * (MaxSleep + NumThreads) <= ClockSize

(* The clock word: every time is a multiple of its size away from it.      *)
LEMMA Multiple ==
  ASSUME NEW k \in Int, k >= 1
  PROVE  k * ClockSize >= ClockSize
BY ClockAssumption

(* A time is a whole number of clock periods and a value of the clock      *)
(* word.                                                                   *)
LEMMA Word ==
  ASSUME NEW x \in Int
  PROVE  x % ClockSize \in 0 .. ClockSize - 1 /\ \E k \in Int : x = k * ClockSize + (x % ClockSize)
<1>1. x % ClockSize \in 0 .. ClockSize - 1 /\ x \div ClockSize \in Int
  BY ClockAssumption
<1>2. x = (x \div ClockSize) * ClockSize + (x % ClockSize)
  BY ClockAssumption
<1> QED
  BY <1>1, <1>2

(* Two times a whole number of periods apart have the same clock word.     *)
LEMMA SameWord ==
  ASSUME NEW x \in Int, NEW r \in 0 .. ClockSize - 1, NEW m \in Int, x = m * ClockSize + r
  PROVE  x % ClockSize = r
<1>1. PICK k \in Int : x = k * ClockSize + (x % ClockSize)
  BY Word
<1>2. PICK s \in 0 .. ClockSize - 1 : s = x % ClockSize
  BY Word
<1>3. (k - m) * ClockSize = r - s /\ (m - k) * ClockSize = s - r
  <2>1. k * ClockSize + s = m * ClockSize + r
    BY <1>1, <1>2
  <2>2. k * ClockSize \in Int /\ m * ClockSize \in Int
    BY ClockAssumption
  <2>3. (k - m) * ClockSize = k * ClockSize - m * ClockSize
    BY ClockAssumption
  <2>4. (m - k) * ClockSize = m * ClockSize - k * ClockSize
    BY ClockAssumption
  <2> QED
    BY <2>1, <2>2, <2>3, <2>4
<1>4. k - m \in Int /\ m - k \in Int
  OBVIOUS
<1>5. ~(k - m >= 1)
  BY <1>3, <1>4, Multiple, ClockAssumption
<1>6. ~(m - k >= 1)
  BY <1>3, <1>4, Multiple, ClockAssumption
<1> QED
  BY <1>2, <1>3, <1>5, <1>6, ClockAssumption

(* A delay counted from a tick later is one shorter.                       *)
LEMMA NextTick ==
  ASSUME NEW now \in Int, NEW d \in Int
  PROVE  (((now + 1) % ClockSize) + (d - 1)) % ClockSize = (now + d) % ClockSize
<1> DEFINE a == (now + 1) % ClockSize
           b == (now + d) % ClockSize
<1>1. PICK k \in Int : now + 1 = k * ClockSize + a
  BY Word
<1>2. PICK m \in Int : now + d = m * ClockSize + b
  BY Word
<1>3. a \in 0 .. ClockSize - 1 /\ b \in 0 .. ClockSize - 1
  BY Word
<1> HIDE DEF a, b
<1>4. a + (d - 1) = (m - k) * ClockSize + b /\ m - k \in Int /\ a + (d - 1) \in Int
  BY <1>1, <1>2, <1>3, ClockAssumption
<1>5. (a + (d - 1)) % ClockSize = b
  BY <1>3, <1>4, SameWord
<1> QED
  BY <1>5 DEF a, b

(* Two times less than half the range apart compare by their difference.   *)
LEMMA SignOfDifference ==
  ASSUME NEW now \in Int, NEW a \in Int, NEW b \in Int,
         2 * (b - a) < ClockSize, 2 * (a - b) <= ClockSize
  PROVE  After((now + a) % ClockSize, (now + b) % ClockSize) <=> b < a
<1> DEFINE x == (now + a) % ClockSize
           y == (now + b) % ClockSize
           v == (y - x) % ClockSize
<1>1. PICK k \in Int : now + a = k * ClockSize + x
  BY Word
<1>2. PICK m \in Int : now + b = m * ClockSize + y
  BY Word
<1>3. x \in 0 .. ClockSize - 1 /\ y \in 0 .. ClockSize - 1
  BY Word
<1> HIDE DEF x, y
<1>4. /\ y - x = (k - m) * ClockSize + (b - a) /\ k - m \in Int /\ y - x \in Int
      /\ y - x = (k - m - 1) * ClockSize + (b - a + ClockSize) /\ k - m - 1 \in Int
  BY <1>1, <1>2, <1>3, ClockAssumption
<1>5. CASE b >= a
  <2>1. b - a \in 0 .. ClockSize - 1
    BY <1>5, ClockAssumption
  <2>2. v = b - a
    BY <1>4, <2>1, SameWord
  <2> HIDE DEF v
  <2>3. ~(Signed(v) < 0)
    BY <1>5, <2>2 DEF Signed
  <2> QED
    BY <1>5, <2>3 DEF After, v, x, y
<1>6. CASE b < a
  <2>1. b - a + ClockSize \in 0 .. ClockSize - 1
    BY <1>6, ClockAssumption
  <2>2. v = b - a + ClockSize
    BY <1>4, <2>1, SameWord
  <2> HIDE DEF v
  <2>3. Signed(v) < 0
    BY <1>6, <2>2, ClockAssumption DEF Signed
  <2> QED
    BY <1>6, <2>3 DEF After, v, x, y
<1> QED
  BY <1>5, <1>6

(* Delays in the order of the queue: a sleeper who is late has been passed *)
(* on its way to the head of the queue by fewer threads than there are.    *)
Paced(w, n) ==
  /\ \A i \in 1 .. n : w[i] <= MaxSleep /\ (w[i] <= 0 => i - w[i] <= NumThreads)
  /\ \A i, j \in 1 .. n : i < j => w[i] <= w[j]

(* The delays left stay in order and late by less than their number when   *)
(* one of them goes, ...                                                   *)
LEMMA PacedWithout ==
  ASSUME NEW n \in Nat, NEW w \in [1 .. n -> Int], Paced(w, n), NumThreads \in Nat,
         NEW k \in 1 .. n, NEW v \in [1 .. n - 1 -> Int],
         \A i \in 1 .. n - 1 : v[i] = IF i < k THEN w[i] ELSE w[i + 1]
  PROVE  Paced(v, n - 1)
<1>1. ASSUME NEW i \in 1 .. n - 1
      PROVE  v[i] <= MaxSleep /\ (v[i] <= 0 => i - v[i] <= NumThreads)
  <2>1. CASE i < k
    BY <2>1 DEF Paced
  <2>2. CASE i >= k
    <3>1. v[i] = w[i + 1] /\ i + 1 \in 1 .. n
      BY <2>2
    <3>2. w[i + 1] <= MaxSleep /\ (w[i + 1] <= 0 => i + 1 - w[i + 1] <= NumThreads) /\ w[i + 1] \in Int
      BY <3>1 DEF Paced
    <3> QED
      BY <3>1, <3>2
  <2> QED
    BY <2>1, <2>2
<1>2. ASSUME NEW i \in 1 .. n - 1, NEW j \in 1 .. n - 1, i < j
      PROVE  v[i] <= v[j]
  <2>1. CASE j < k
    BY <1>2, <2>1 DEF Paced
  <2>2. CASE i < k /\ j >= k
    <3>1. v[i] = w[i] /\ v[j] = w[j + 1] /\ i \in 1 .. n /\ j + 1 \in 1 .. n /\ i < j + 1
      BY <1>2, <2>2
    <3> QED
      BY <3>1 DEF Paced
  <2>3. CASE i >= k
    <3>1. /\ v[i] = w[i + 1] /\ v[j] = w[j + 1] /\ i + 1 \in 1 .. n /\ j + 1 \in 1 .. n
          /\ i + 1 < j + 1
      BY <1>2, <2>3
    <3> QED
      BY <3>1 DEF Paced
  <2> QED
    BY <2>1, <2>2, <2>3
<1> QED
  BY <1>1, <1>2 DEF Paced

(* ... when one that was just asked for comes in at its place, ...         *)
LEMMA PacedWith ==
  ASSUME NEW n \in Nat, NEW w \in [1 .. n -> Int], Paced(w, n), NumThreads \in Nat,
         NEW k \in 1 .. n + 1, NEW d \in 1 .. MaxSleep,
         \A i \in 1 .. k - 1 : w[i] <= d, \A i \in k .. n : d <= w[i],
         NEW v \in [1 .. n + 1 -> Int],
         \A i \in 1 .. n + 1 : v[i] = IF i < k THEN w[i] ELSE IF i = k THEN d ELSE w[i - 1]
  PROVE  Paced(v, n + 1)
<1>0. MaxSleep \in Nat
  BY ClockAssumption
<1>1. ASSUME NEW i \in 1 .. n + 1
      PROVE  v[i] <= MaxSleep /\ (v[i] <= 0 => i - v[i] <= NumThreads)
  <2>1. CASE i < k
    BY <2>1 DEF Paced
  <2>2. CASE i = k
    BY <1>0, <2>2
  <2>3. CASE i > k
    <3>1. v[i] = w[i - 1] /\ i - 1 \in k .. n /\ i - 1 \in 1 .. n
      BY <2>3
    <3>2. w[i - 1] <= MaxSleep /\ d <= w[i - 1] /\ w[i - 1] \in Int
      BY <3>1 DEF Paced
    <3> QED
      BY <1>0, <3>1, <3>2
  <2> QED
    BY <2>1, <2>2, <2>3
<1>2. ASSUME NEW i \in 1 .. n + 1, NEW j \in 1 .. n + 1, i < j
      PROVE  v[i] <= v[j]
  <2>1. CASE i < k /\ j < k
    BY <1>2, <2>1 DEF Paced
  <2>2. CASE i < k /\ j = k
    BY <1>0, <1>2, <2>2
  <2>3. CASE i < k /\ j > k
    <3>1. v[i] = w[i] /\ v[j] = w[j - 1] /\ i \in 1 .. n /\ j - 1 \in 1 .. n /\ i < j - 1
      BY <2>3
    <3> QED
      BY <3>1 DEF Paced
  <2>4. CASE i = k /\ j > k
    <3>1. v[i] = d /\ v[j] = w[j - 1] /\ j - 1 \in k .. n
      BY <2>4
    <3> QED
      BY <3>1
  <2>5. CASE i > k /\ j > k
    <3>1. v[i] = w[i - 1] /\ v[j] = w[j - 1] /\ i - 1 \in 1 .. n /\ j - 1 \in 1 .. n /\ i - 1 < j - 1
      BY <1>2, <2>5
    <3> QED
      BY <3>1 DEF Paced
  <2> QED
    BY <1>2, <2>1, <2>2, <2>3, <2>4, <2>5
<1> QED
  BY <1>1, <1>2 DEF Paced

(* ... when all are one tick shorter and the first was not due, ...        *)
LEMMA PacedTick ==
  ASSUME NEW n \in Nat, NEW w \in [1 .. n -> Int], Paced(w, n), NumThreads \in Nat,
         n >= 1 => w[1] >= 2,
         NEW v \in [1 .. n -> Int], \A i \in 1 .. n : v[i] = w[i] - 1
  PROVE  Paced(v, n)
<1>1. ASSUME NEW i \in 1 .. n
      PROVE  w[i] >= 2 /\ w[i] <= MaxSleep
  BY DEF Paced
<1>2. \A i, j \in 1 .. n : i < j => v[i] <= v[j]
  BY DEF Paced
<1>3. ASSUME NEW i \in 1 .. n
      PROVE  v[i] <= MaxSleep /\ (v[i] <= 0 => i - v[i] <= NumThreads)
  <2>1. v[i] = w[i] - 1 /\ w[i] \in Int /\ MaxSleep \in Int
    BY ClockAssumption
  <2>2. v[i] >= 1 /\ v[i] <= MaxSleep /\ v[i] \in Int
    BY <1>1, <2>1
  <2> QED
    BY <2>2
<1> QED
  BY <1>2, <1>3 DEF Paced

(* ... and when all are one tick shorter and the first, which was due, has *)
(* gone.                                                                   *)
LEMMA PacedWake ==
  ASSUME NEW n \in Nat \ {0}, NEW w \in [1 .. n -> Int], Paced(w, n), NumThreads \in Nat,
         n <= NumThreads,
         NEW v \in [1 .. n - 1 -> Int], \A i \in 1 .. n - 1 : v[i] = w[i + 1] - 1
  PROVE  Paced(v, n - 1)
<1>1. ASSUME NEW i \in 1 .. n - 1
      PROVE  v[i] <= MaxSleep /\ (v[i] <= 0 => i - v[i] <= NumThreads)
  <2>1. i + 1 \in 1 .. n /\ w[i + 1] \in Int /\ v[i] = w[i + 1] - 1
    OBVIOUS
  <2>2. w[i + 1] <= MaxSleep /\ (w[i + 1] <= 0 => i + 1 - w[i + 1] <= NumThreads)
    BY <2>1 DEF Paced
  <2>3. PICK m \in Int : m = w[i + 1]
    BY <2>1
  <2>4. m - 1 <= MaxSleep /\ (m - 1 <= 0 => i - (m - 1) <= NumThreads)
    <3>1. m <= MaxSleep /\ (m <= 0 => i + 1 - m <= NumThreads)
      BY <2>2, <2>3
    <3>2. m - 1 <= MaxSleep
      BY <3>1, ClockAssumption
    <3>3. CASE m <= 0
      BY <3>1, <3>2, <3>3
    <3>4. CASE m = 1
      BY <3>2, <3>4
    <3>5. CASE m > 1
      BY <3>2, <3>5
    <3> QED
      BY <3>3, <3>4, <3>5
  <2> QED
    BY <2>1, <2>3, <2>4
<1>2. ASSUME NEW i \in 1 .. n - 1, NEW j \in 1 .. n - 1, i < j
      PROVE  v[i] <= v[j]
  <2>1. i + 1 \in 1 .. n /\ j + 1 \in 1 .. n /\ i + 1 < j + 1
    BY <1>2
  <2>2. w[i + 1] <= w[j + 1]
    BY <2>1 DEF Paced
  <2> QED
    BY <2>1, <2>2
<1> QED
  BY <1>1, <1>2 DEF Paced

(* The sleepers' wake-up times on the clock are their remaining delays.    *)
Delays(tq, rem) == [i \in 1 .. Len(tq) |-> rem[tq[i]]]

Clocked(tq, et, rem, now) == \A t \in Threads : In(tq, t) => et[t] = (now + rem[t]) % ClockSize

Timely(tq, et, rem, now) == Paced(Delays(tq, rem), Len(tq)) /\ Clocked(tq, et, rem, now)

CInv == Timely(timerq, endtime, remaining, Timer)

(* The delays left to the threads on the timer queue.                      *)
LEMMA DelaysType ==
  ASSUME NEW tq \in Seq(Threads), NEW rem \in [Threads -> Int]
  PROVE  /\ Len(tq) \in Nat /\ Delays(tq, rem) \in [1 .. Len(tq) -> Int]
         /\ \A i \in 1 .. Len(tq) : /\ tq[i] \in Threads /\ In(tq, tq[i])
                                    /\ rem[tq[i]] \in Int /\ Delays(tq, rem)[i] = rem[tq[i]]
<1>1. Len(tq) \in Nat /\ \A i \in 1 .. Len(tq) : tq[i] \in Threads /\ In(tq, tq[i])
  BY LenProperties, ElementOfSeq DEF In
<1> QED
  BY <1>1 DEF Delays

(* Only the delay of thread u has changed.                                 *)
SaveFor(u, et, rem, et2, rem2) ==
  \A x \in Threads \ {u} : et2[x] = et[x] /\ rem2[x] = rem[x]

(* A thread unlinked from the timer queue, wherever it is.                 *)
LEMMA UnlinkTimely ==
  ASSUME NEW tq \in Seq(Threads), Once(tq), NEW et, NEW rem \in [Threads -> Int], NEW now,
         Timely(tq, et, rem, now),
         NEW k \in 1 .. Len(tq), NEW r \in Seq(Threads), Removed(tq, k, r),
         NEW et2, NEW rem2 \in [Threads -> Int],
         SaveFor(tq[k], et, rem, et2, rem2),
         NumThreads \in Nat
  PROVE  Timely(r, et2, rem2, now)
<1> DEFINE w == Delays(tq, rem)
           v == Delays(r, rem2)
           n == Len(tq)
<1>1. /\ n \in Nat /\ w \in [1 .. n -> Int]
      /\ \A i \in 1 .. n : tq[i] \in Threads /\ w[i] = rem[tq[i]]
  BY DelaysType
<1>2. /\ v \in [1 .. Len(r) -> Int] /\ Len(r) = n - 1
      /\ \A i \in 1 .. n - 1 : v[i] = rem2[r[i]] /\ In(r, r[i]) /\ r[i] \in Threads
  <2>1. Len(r) = n - 1
    BY DEF Removed
  <2> QED
    BY <2>1, DelaysType
<1>3. \A x : In(r, x) <=> In(tq, x) /\ x # tq[k]
  BY RemovedList
<1>4. \A i \in 1 .. n - 1 : v[i] = rem[r[i]]
  BY <1>2, <1>3 DEF SaveFor
<1>5. \A i \in 1 .. n - 1 : r[i] = IF i < k THEN tq[i] ELSE tq[i + 1]
  BY DEF Removed
<1> HIDE DEF w, v, n
<1>6. \A i \in 1 .. n - 1 : v[i] = IF i < k THEN w[i] ELSE w[i + 1]
  <2>1. ASSUME NEW i \in 1 .. n - 1
        PROVE  v[i] = IF i < k THEN w[i] ELSE w[i + 1]
    <3>1. i \in 1 .. n /\ i + 1 \in 1 .. n
      BY <1>1
    <3>2. v[i] = rem[r[i]] /\ w[i] = rem[tq[i]] /\ w[i + 1] = rem[tq[i + 1]]
      BY <1>1, <1>4, <3>1
    <3>3. r[i] = IF i < k THEN tq[i] ELSE tq[i + 1]
      BY <1>5
    <3> QED
      BY <3>2, <3>3
  <2> QED
    BY <2>1
<1>7. Paced(w, n)
  BY DEF Timely, w, n
<1>8. Paced(v, n - 1)
  BY <1>1, <1>2, <1>6, <1>7, PacedWithout DEF n
<1>9. Clocked(r, et2, rem2, now)
  BY <1>3 DEF Timely, Clocked, SaveFor
<1> QED
  BY <1>2, <1>8, <1>9 DEF Timely, v

(* What is known of every sleeper.                                         *)
LEMMA Sleeper ==
  ASSUME HalfRange, NEW tq \in Seq(Threads), Once(tq), NEW et, NEW now,
         NEW rem \in [Threads -> Int], Timely(tq, et, rem, now), NEW i \in 1 .. Len(tq)
  PROVE  /\ tq[i] \in Threads /\ rem[tq[i]] \in Int /\ et[tq[i]] = (now + rem[tq[i]]) % ClockSize
         /\ rem[tq[i]] <= MaxSleep /\ rem[tq[i]] > -NumThreads
         /\ Delays(tq, rem)[i] = rem[tq[i]]
<1>1. /\ Len(tq) \in Nat /\ NumThreads \in Nat /\ Len(tq) <= NumThreads
  BY OnceLength DEF HalfRange, NumThreads
<1>2. tq[i] \in Threads /\ In(tq, tq[i]) /\ rem[tq[i]] \in Int /\ Delays(tq, rem)[i] = rem[tq[i]]
  BY DelaysType
<1>3. et[tq[i]] = (now + rem[tq[i]]) % ClockSize
  BY <1>2 DEF Timely, Clocked
<1>4. rem[tq[i]] <= MaxSleep /\ (rem[tq[i]] <= 0 => i - rem[tq[i]] <= NumThreads)
  BY <1>2 DEF Timely, Paced
<1>5. PICK m \in Int : m = rem[tq[i]]
  BY <1>2
<1>6. m > -NumThreads
  BY <1>1, <1>4, <1>5
<1> QED
  BY <1>2, <1>3, <1>4, <1>5, <1>6

(* Two of the times that are compared are less than half the range apart.  *)
LEMMA Comparable ==
  ASSUME HalfRange, NEW now \in Int, NEW d \in 1 .. MaxSleep, NEW m \in Int,
         m <= MaxSleep, m > -NumThreads
  PROVE  /\ After((now + m) % ClockSize, (now + d) % ClockSize) <=> d < m
         /\ After((now + d) % ClockSize, (now + m) % ClockSize) <=> m < d
<1>1. NumThreads \in Nat /\ MaxSleep \in Nat /\ ClockSize \in Nat
  BY FS_CardinalityType, ClockAssumption DEF HalfRange, NumThreads
<1>2. 2 * (d - m) < ClockSize /\ 2 * (m - d) < ClockSize
  BY <1>1 DEF HalfRange
<1>3. 2 * (d - m) <= ClockSize /\ 2 * (m - d) <= ClockSize
  BY <1>1, <1>2
<1>4. d \in Int
  OBVIOUS
<1>5. After((now + m) % ClockSize, (now + d) % ClockSize) <=> d < m
  BY <1>2, <1>3, <1>4, SignOfDifference
<1>6. After((now + d) % ClockSize, (now + m) % ClockSize) <=> m < d
  BY <1>2, <1>3, <1>4, SignOfDifference
<1> QED
  BY <1>5, <1>6

(* Sleep() finds the place that the remaining delays call for.             *)
LEMMA PlaceInOrder ==
  ASSUME HalfRange, NEW tq \in Seq(Threads), Once(tq), NEW now \in Int,
         NEW rem \in [Threads -> Int], Timely(tq, endtime, rem, now),
         NEW d \in 1 .. MaxSleep, NEW k \in 1 .. Len(tq) + 1,
         PlaceOf(tq, (now + d) % ClockSize, k)
  PROVE  /\ \A i \in 1 .. k - 1 : rem[tq[i]] <= d
         /\ \A i \in k .. Len(tq) : d <= rem[tq[i]]
<1>0. Len(tq) \in Nat
  BY LenProperties
<1>1. ASSUME NEW i \in 1 .. Len(tq)
      PROVE  /\ rem[tq[i]] \in Int
             /\ After(endtime[tq[i]], (now + d) % ClockSize) <=> d < rem[tq[i]]
             /\ After((now + d) % ClockSize, endtime[tq[i]]) <=> rem[tq[i]] < d
  <2>1. PICK m \in Int : /\ m = rem[tq[i]] /\ endtime[tq[i]] = (now + m) % ClockSize
                         /\ m <= MaxSleep /\ m > -NumThreads
    BY Sleeper
  <2>2. /\ After((now + m) % ClockSize, (now + d) % ClockSize) <=> d < m
        /\ After((now + d) % ClockSize, (now + m) % ClockSize) <=> m < d
    BY <2>1, Comparable
  <2> QED
    BY <2>1, <2>2
<1>2. ASSUME NEW i \in 1 .. k - 1
      PROVE  rem[tq[i]] <= d
  <2>1. i \in 1 .. Len(tq) /\ k > 1
    BY <1>0
  <2>2. CASE i = 1
    <3>1. ~After(endtime[tq[i]], (now + d) % ClockSize)
      BY <2>1, <2>2 DEF PlaceOf
    <3> QED
      BY <1>1, <2>1, <3>1
  <2>3. CASE i # 1
    <3>1. i \in 2 .. k - 1
      BY <2>3
    <3>2. After((now + d) % ClockSize, endtime[tq[i]])
      BY <2>1, <3>1 DEF PlaceOf
    <3> QED
      BY <1>1, <2>1, <3>2
  <2> QED
    BY <2>2, <2>3
<1>3. ASSUME k <= Len(tq)
      PROVE  d <= rem[tq[k]]
  <2>1. k \in 1 .. Len(tq) /\ tq # <<>>
    BY <1>0, <1>3
  <2>2. CASE k = 1
    <3>1. After(endtime[tq[k]], (now + d) % ClockSize)
      BY <2>1, <2>2 DEF PlaceOf
    <3> QED
      BY <1>1, <2>1, <3>1
  <2>3. CASE k # 1
    <3>1. ~After((now + d) % ClockSize, endtime[tq[k]])
      BY <1>3, <2>3 DEF PlaceOf
    <3> QED
      BY <1>1, <2>1, <3>1
  <2> QED
    BY <2>2, <2>3
<1>4. ASSUME NEW i \in k .. Len(tq)
      PROVE  d <= rem[tq[i]]
  <2>1. k <= Len(tq) /\ i \in 1 .. Len(tq) /\ k \in 1 .. Len(tq)
    BY <1>0
  <2>2. rem[tq[k]] <= rem[tq[i]]
    <3>1. CASE k = i
      BY <1>1, <2>1, <3>1
    <3>2. CASE k < i
      BY <2>1, <3>2, DelaysType DEF Timely, Paced
    <3> QED
      BY <3>1, <3>2
  <2> QED
    BY <1>1, <1>3, <2>1, <2>2
<1> QED
  BY <1>2, <1>4

(* What a thread linked in does to what is recorded along the list.        *)
Agree(q, f, g) == \A x : In(q, x) => g[x] = f[x]

Along(q, k, t, r, f, g) ==
  \A i \in 1 .. Len(q) + 1 : g[r[i]] = IF i < k THEN f[q[i]] ELSE IF i = k THEN g[t] ELSE f[q[i - 1]]

(* Values that go with the threads of a queue when one thread joins it at  *)
(* k.                                                                      *)
LEMMA AlongInserted ==
  ASSUME NEW q, NEW t, NEW k \in 1 .. Len(q) + 1, NEW r, Len(q) \in Nat, Inserted(q, k, t, r),
         NEW f, NEW g, Agree(q, f, g)
  PROVE  Along(q, k, t, r, f, g)
<1>2. ASSUME NEW i \in 1 .. Len(q) + 1
      PROVE  g[r[i]] = IF i < k THEN f[q[i]] ELSE IF i = k THEN g[t] ELSE f[q[i - 1]]
  <2>1. r[i] = IF i < k THEN q[i] ELSE IF i = k THEN t ELSE q[i - 1]
    BY DEF Inserted
  <2>2. (i < k => i \in 1 .. Len(q)) /\ (i > k => i - 1 \in 1 .. Len(q))
    OBVIOUS
  <2>3. \A j \in 1 .. Len(q) : g[q[j]] = f[q[j]]
    BY DEF Agree, In
  <2> QED
    BY <2>1, <2>2, <2>3
<1> QED
  BY <1>2 DEF Along

(* A thread linked into the timer queue by Sleep().                        *)
LEMMA LinkTimely ==
  ASSUME HalfRange, NEW tq \in Seq(Threads), Once(tq), NEW now \in Int,
         NEW rem \in [Threads -> Int], Timely(tq, endtime, rem, now),
         NEW t \in Threads, ~In(tq, t),
         NEW et2, NEW rem2 \in [Threads -> Int],
         et2[t] = (now + rem2[t]) % ClockSize, rem2[t] \in 1 .. MaxSleep,
         \A x \in Threads \ {t} : et2[x] = endtime[x] /\ rem2[x] = rem[x],
         NEW k \in 1 .. Len(tq) + 1, PlaceOf(tq, (now + rem2[t]) % ClockSize, k),
         NEW r \in Seq(Threads), Inserted(tq, k, t, r)
  PROVE  Timely(r, et2, rem2, now)
<1>1. /\ Len(tq) \in Nat /\ Delays(tq, rem) \in [1 .. Len(tq) -> Int]
      /\ \A i \in 1 .. Len(tq) : Delays(tq, rem)[i] = rem[tq[i]]
  BY DelaysType
<1>2. /\ Delays(r, rem2) \in [1 .. Len(tq) + 1 -> Int] /\ Len(r) = Len(tq) + 1
      /\ \A i \in 1 .. Len(tq) + 1 : Delays(r, rem2)[i] = rem2[r[i]]
  <2>1. Len(r) = Len(tq) + 1
    BY DEF Inserted
  <2> QED
    BY <2>1, DelaysType
<1>3. (\A i \in 1 .. k - 1 : rem[tq[i]] <= rem2[t]) /\ (\A i \in k .. Len(tq) : rem2[t] <= rem[tq[i]])
  BY PlaceInOrder
<1>4. Clocked(r, et2, rem2, now)
  <2>1. \A x : In(r, x) <=> In(tq, x) \/ x = t
    BY InsertedList
  <2> QED
    BY <2>1 DEF Timely, Clocked
<1>5. \A i \in 1 .. Len(tq) + 1 :
         rem2[r[i]] = IF i < k THEN rem[tq[i]] ELSE IF i = k THEN rem2[t] ELSE rem[tq[i - 1]]
  <2>1. Agree(tq, rem, rem2)
    BY ElementOfSeq DEF Agree, In
  <2> QED
    <3>1. Along(tq, k, t, r, rem, rem2)
      BY <1>1, <2>1, AlongInserted
    <3> QED
      BY <3>1 DEF Along
<1>6. NumThreads \in Nat /\ Paced(Delays(tq, rem), Len(tq))
  BY FS_CardinalityType DEF HalfRange, NumThreads, Timely
<1>7. ASSUME NEW n \in Nat, n = Len(tq), NEW w \in [1 .. n -> Int], NEW v \in [1 .. n + 1 -> Int],
             Paced(w, n),
             \A i \in 1 .. n : w[i] = rem[tq[i]],
             \A i \in 1 .. n + 1 : v[i] = rem2[r[i]]
      PROVE  Paced(v, n + 1)
  <2>1. k \in 1 .. n + 1
    BY <1>7
  <2>2. \A i \in 1 .. n + 1 : v[i] = IF i < k THEN w[i] ELSE IF i = k THEN rem2[t] ELSE w[i - 1]
    <3>1. ASSUME NEW i \in 1 .. n + 1
          PROVE  v[i] = IF i < k THEN w[i] ELSE IF i = k THEN rem2[t] ELSE w[i - 1]
      <4>1. v[i] = IF i < k THEN rem[tq[i]] ELSE IF i = k THEN rem2[t] ELSE rem[tq[i - 1]]
        BY <1>5, <1>7
      <4>2. (i < k => i \in 1 .. n) /\ (i > k => i - 1 \in 1 .. n)
        BY <2>1
      <4>3. (i < k => w[i] = rem[tq[i]]) /\ (i > k => w[i - 1] = rem[tq[i - 1]])
        BY <1>7, <4>2
      <4> QED
        BY <2>1, <4>1, <4>3
    <3> QED
      BY <3>1
  <2>3. \A i \in 1 .. k - 1 : w[i] <= rem2[t]
    BY <1>3, <1>7, <2>1
  <2>4. \A i \in k .. n : rem2[t] <= w[i]
    BY <1>3, <1>7, <2>1
  <2> QED
    BY <1>6, <1>7, <2>1, <2>2, <2>3, <2>4, PacedWith
<1>8. Paced(Delays(r, rem2), Len(tq) + 1)
  BY <1>1, <1>2, <1>6, <1>7
<1> QED
  BY <1>2, <1>4, <1>8 DEF Timely

----------------------------------------------------------------------------
(* What each step does to the clock and the timer queue.                   *)

(* The C40's test of the head of the queue is whether its delay runs out   *)
(* at this tick.                                                           *)
LEMMA DueIsRunOut ==
  ASSUME Handler = "C40", HalfRange, TInv, Once(timerq), CInv, timerq # <<>>
  PROVE  HeadDue <=> remaining[Head(timerq)] <= 1
<1>1. timerq \in Seq(Threads) /\ remaining \in [Threads -> Int] /\ Timer \in Int
  BY ClockAssumption DEF TInv, TypeOK
<1>2. 1 \in 1 .. Len(timerq) /\ Head(timerq) = timerq[1]
  BY <1>1, TailList
<1>3. PICK m \in Int : /\ m = remaining[timerq[1]] /\ endtime[timerq[1]] = (Timer + m) % ClockSize
                       /\ m <= MaxSleep /\ m > -NumThreads
  BY <1>1, <1>2, Sleeper DEF CInv
<1>4. 1 \in 1 .. MaxSleep
  BY ClockAssumption
<1>5. After((Timer + m) % ClockSize, (Timer + 1) % ClockSize) <=> 1 < m
  BY <1>1, <1>3, <1>4, Comparable
<1> QED
  BY <1>2, <1>3, <1>5 DEF HeadDue, Due

(* A tick brings every wake-up time that is still waited for one nearer.   *)
LEMMA ClockedTick ==
  ASSUME TInv, Tick, CInv, NEW tq, NEW et,
         \A x \in Threads : In(tq, x) => In(timerq, x) /\ et[x] = endtime[x]
  PROVE  Clocked(tq, et, remaining', Timer')
<1>1. ASSUME NEW x \in Threads, In(tq, x)
      PROVE  et[x] = (Timer' + remaining'[x]) % ClockSize
  <2>1. PICK m \in Int : m = remaining[x]
    BY DEF TInv, TypeOK
  <2>2. endtime[x] = (Timer + m) % ClockSize
    BY <1>1, <2>1 DEF CInv, Timely, Clocked
  <2>3. remaining'[x] = m - 1 /\ Timer' = (Timer + 1) % ClockSize
    BY <1>1, <2>1 DEF Tick, OnTimer
  <2>4. Timer \in Int
    BY ClockAssumption DEF TInv, TypeOK
  <2>5. (((Timer + 1) % ClockSize) + (m - 1)) % ClockSize = (Timer + m) % ClockSize
    BY <2>1, <2>4, NextTick
  <2> QED
    BY <1>1, <2>2, <2>3, <2>5
<1> QED
  BY <1>1 DEF Clocked

(* A tick, with the wake-up that may come with it, keeps the timer queue   *)
(* timely.                                                                 *)
LEMMA TickTimely ==
  ASSUME Handler = "C40", HalfRange, TInv, TInv', Once(timerq), CInv, TimerInterrupt
  PROVE  CInv'
<1>1. /\ timerq \in Seq(Threads) /\ remaining \in [Threads -> Int] /\ Tick
      /\ timerq' \in Seq(Threads) /\ remaining' \in [Threads -> Int]
  BY DEF TInv, TypeOK, TimerInterrupt, TimerWake, TimerNoWake
<1>2. /\ Len(timerq) \in Nat /\ NumThreads \in Nat /\ Len(timerq) <= NumThreads
  BY <1>1, OnceLength DEF HalfRange, NumThreads
<1>3. /\ Delays(timerq, remaining) \in [1 .. Len(timerq) -> Int]
      /\ Paced(Delays(timerq, remaining), Len(timerq))
      /\ \A i \in 1 .. Len(timerq) :
           /\ Delays(timerq, remaining)[i] = remaining[timerq[i]] /\ remaining[timerq[i]] \in Int
           /\ remaining'[timerq[i]] = remaining[timerq[i]] - 1
  BY <1>1, DelaysType DEF CInv, Timely, Tick, OnTimer
<1>4. /\ Delays(timerq', remaining') \in [1 .. Len(timerq') -> Int]
      /\ \A i \in 1 .. Len(timerq') : Delays(timerq', remaining')[i] = remaining'[timerq'[i]]
  BY <1>1, DelaysType
<1>5. CASE TimerNoWake
  <2>1. timerq' = timerq /\ endtime' = endtime /\ ~HeadDue
    BY <1>5 DEF TimerNoWake
  <2>2. Clocked(timerq', endtime', remaining', Timer')
    BY <1>1, <2>1, ClockedTick
  <2>3. Len(timerq) >= 1 => Delays(timerq, remaining)[1] >= 2
    <3>1. ASSUME Len(timerq) >= 1
          PROVE  Delays(timerq, remaining)[1] >= 2
      <4>1. 1 \in 1 .. Len(timerq) /\ timerq # <<>>
        BY <1>2, <3>1
      <4>2. Head(timerq) = timerq[1]
        BY <1>1, <4>1, TailList
      <4>3. ~(remaining[timerq[1]] <= 1)
        BY <2>1, <4>1, <4>2, DueIsRunOut
      <4> QED
        BY <1>3, <4>1, <4>3
    <3> QED
      BY <3>1
  <2>4. \A i \in 1 .. Len(timerq) : Delays(timerq', remaining')[i] = Delays(timerq, remaining)[i] - 1
    BY <1>3, <1>4, <2>1
  <2>5. Paced(Delays(timerq', remaining'), Len(timerq))
    BY <1>2, <1>3, <1>4, <2>1, <2>3, <2>4, PacedTick
  <2> QED
    BY <2>1, <2>2, <2>5 DEF CInv, Timely
<1>6. CASE TimerWake
  <2>1. timerq # <<>> /\ timerq' = Tail(timerq) /\ endtime' = [endtime EXCEPT ![Head(timerq)] = 0]
    BY <1>6 DEF TimerWake, HeadDue
  <2>2. /\ Len(timerq) \in Nat \ {0} /\ Len(timerq') = Len(timerq) - 1
        /\ \A i \in 1 .. Len(timerq) - 1 : timerq'[i] = timerq[i + 1]
        /\ \A x : In(timerq', x) <=> In(timerq, x) /\ x # Head(timerq)
    BY <1>1, <2>1, TailList
  <2>3. Clocked(timerq', endtime', remaining', Timer')
    BY <1>1, <2>1, <2>2, ClockedTick DEF TInv, TypeOK
  <2>4. ASSUME NEW i \in 1 .. Len(timerq) - 1
        PROVE  Delays(timerq', remaining')[i] = Delays(timerq, remaining)[i + 1] - 1
    <3>1. i + 1 \in 1 .. Len(timerq) /\ i \in 1 .. Len(timerq')
      BY <2>2
    <3> QED
      BY <1>3, <1>4, <2>2, <3>1
  <2>5. Paced(Delays(timerq', remaining'), Len(timerq) - 1)
    BY <1>2, <1>3, <1>4, <2>2, <2>4, PacedWake
  <2> QED
    BY <2>2, <2>3, <2>5 DEF CInv, Timely
<1> QED
  BY <1>5, <1>6 DEF TimerInterrupt

(* Sleep(): what it records of the caller is what its place on the queue   *)
(* calls for.                                                              *)
LEMMA SleepTimely ==
  ASSUME HalfRange, TInv, TInv', GInv, CInv,
         NEW t \in Threads, NEW why, NEW d \in 1 .. MaxSleep, SleepAs(t, why, d)
  PROVE  CInv'
<1>1. /\ timerq \in Seq(Threads) /\ remaining \in [Threads -> Int] /\ remaining' \in [Threads -> Int]
      /\ Timer \in Int /\ Timer' = Timer /\ timerq' \in Seq(Threads)
  <2>1. Timer' = Timer
    BY DEF SleepAs
  <2>2. Timer \in Int
    BY ClockAssumption DEF TInv, TypeOK
  <2> QED
    BY <2>1, <2>2 DEF TInv, TypeOK
<1>2. Once(timerq) /\ ~In(timerq, t)
  BY DEF SleepAs, At, GInv, Good, Held
<1>3. /\ remaining'[t] = d
      /\ endtime'[t] = (Timer + d) % ClockSize
      /\ \A x \in Threads \ {t} : endtime'[x] = endtime[x] /\ remaining'[x] = remaining[x]
      /\ timerq' = InsertTimed(timerq, t, (Timer + d) % ClockSize)
  BY DEF SleepAs, TInv, TypeOK
<1>4. PICK k \in 1 .. Len(timerq) + 1 : /\ PlaceOf(timerq, (Timer + d) % ClockSize, k)
                                        /\ Inserted(timerq, k, t, timerq')
  BY <1>1, <1>3, InsertTimedPlace
<1>5. /\ endtime'[t] = (Timer + remaining'[t]) % ClockSize /\ remaining'[t] \in 1 .. MaxSleep
      /\ PlaceOf(timerq, (Timer + remaining'[t]) % ClockSize, k)
  BY <1>3, <1>4
<1>6. \A x \in Threads \ {t} : endtime'[x] = endtime[x] /\ remaining'[x] = remaining[x]
  BY <1>3
<1>7. Timely(timerq', endtime', remaining', Timer)
  BY <1>1, <1>2, <1>4, <1>5, <1>6, LinkTimely DEF CInv
<1> QED
  BY <1>1, <1>7 DEF CInv

(* Nothing is said of a thread that is not on the queue.                   *)
LEMMA SameTimely ==
  ASSUME NEW tq \in Seq(Threads), NEW et, NEW rem \in [Threads -> Int], NEW now,
         Timely(tq, et, rem, now), NEW et2, NEW rem2 \in [Threads -> Int],
         \A x \in Threads : In(tq, x) => et2[x] = et[x] /\ rem2[x] = rem[x]
  PROVE  Timely(tq, et2, rem2, now)
<1>1. \A i \in 1 .. Len(tq) : tq[i] \in Threads /\ In(tq, tq[i])
  BY DelaysType
<1>2. Delays(tq, rem2) = Delays(tq, rem)
  BY <1>1 DEF Delays
<1> QED
  BY <1>2 DEF Timely, Clocked

(* Resume() and IntrResume().                                              *)
LEMMA UntimedTimely ==
  ASSUME HalfRange, TInv, TInv', GInv, CInv, NEW u \in Threads, Untimed(u), Suspended(u)
  PROVE  CInv'
<1>1. /\ timerq \in Seq(Threads) /\ remaining \in [Threads -> Int] /\ remaining' \in [Threads -> Int]
      /\ Timer' = Timer /\ timerq' \in Seq(Threads) /\ NumThreads \in Nat
      /\ \A x \in Threads \ {u} : endtime'[x] = endtime[x] /\ remaining'[x] = remaining[x]
  BY FS_CardinalityType DEF TInv, TypeOK, Untimed, HalfRange, NumThreads
<1>2. Once(timerq) /\ (In(timerq, u) => status[u] = "timedwait")
  BY DEF GInv, Good, Held, Suspended
<1>3. CASE In(timerq, u)
  <2>1. timerq' = Without(timerq, u)
    BY <1>2, <1>3 DEF Untimed
  <2>2. PICK k \in 1 .. Len(timerq) : timerq[k] = u /\ Removed(timerq, k, timerq')
    BY <1>1, <1>3, <2>1, WithoutPlace
  <2>3. SaveFor(timerq[k], endtime, remaining, endtime', remaining')
    BY <1>1, <2>2 DEF SaveFor
  <2>4. Timely(timerq', endtime', remaining', Timer)
    <3>1. Timely(timerq, endtime, remaining, Timer) /\ Removed(timerq, k, timerq')
      BY <2>2 DEF CInv
    <3> QED
      BY <1>1, <1>2, <2>3, <3>1, UnlinkTimely
  <2> QED
    BY <1>1, <2>4 DEF CInv
<1>4. CASE ~In(timerq, u)
  <2>1. timerq' = timerq
    BY <1>1, <1>4, WithoutPlace DEF Untimed
  <2>2. \A x \in Threads : In(timerq, x) => endtime'[x] = endtime[x] /\ remaining'[x] = remaining[x]
    BY <1>1, <1>4
  <2>3. Timely(timerq, endtime', remaining', Timer)
    BY <1>1, <2>2, SameTimely DEF CInv
  <2> QED
    BY <1>1, <2>1, <2>3 DEF CInv
<1> QED
  BY <1>3, <1>4

(* Every other step leaves the clock and its queue alone.                  *)
LEMMA ClockLeftAlone ==
  ASSUME [Next]_vars
  PROVE  \/ UNCHANGED <<timerq, clock>>
         \/ TimerInterrupt
         \/ \E t \in Threads, d \in 1 .. MaxSleep, why \in {"sleep", "timedwait"} : SleepAs(t, why, d)
         \/ \E u \in Threads : Untimed(u) /\ Suspended(u)
<1>1. CASE UNCHANGED vars
  BY <1>1 DEF vars, queues
<1>2. CASE IdleScan \/ Boot \/ DeviceInterrupt
  BY <1>2 DEF IdleScan, Boot, BootStop, BootEnter, Start, DeviceInterrupt
<1>3. ASSUME NEW t \in Threads, InSystem(t)
      PROVE  \/ UNCHANGED <<timerq, clock>>
             \/ \E d \in 1 .. MaxSleep, why \in {"sleep", "timedwait"} : SleepAs(t, why, d)
             \/ \E u \in Threads : Untimed(u) /\ Suspended(u)
  <2>1. ASSUME NEW d \in 1 .. MaxSleep, Sleep(t, d) \/ TimedSuspend(t, d)
        PROVE  SleepAs(t, "sleep", d) \/ SleepAs(t, "timedwait", d)
    BY <2>1 DEF Sleep, TimedSuspend
  <2>2. CASE SystemPlain(t) \/ SystemSuspend(t) \/ SystemYield(t) \/ CopyBegin(t) \/ CopyEnd(t)
    BY <2>2 DEF SystemPlain, SystemSuspend, SystemYield, CopyBegin, CopyEnd, SetPri, queues
  <2>3. CASE SystemResume(t)
    BY <2>3 DEF SystemResume, ResumeBy, Resume
  <2> QED
    BY <1>3, <2>1, <2>2, <2>3 DEF InSystem
<1>4. ASSUME NEW t \in Threads, Kernel(t), ~InSystem(t)
      PROVE  UNCHANGED <<timerq, clock>>
  BY <1>4 DEF Kernel, SystemReturn, SetPriEnd, StopEnd, EnterEnd, Start
<1>5. ASSUME NEW t \in Threads, Program(t)
      PROVE  UNCHANGED <<timerq, clock>>
  BY <1>5 DEF Program, SystemEnter, Suspend, EnterBegin, StopBegin, SetPhysPri, SetPri, queues
<1>6. ASSUME NEW u \in Threads, DeviceResume(u)
      PROVE  Untimed(u) /\ Suspended(u)
  BY <1>6 DEF DeviceResume, IntrResume
<1> QED
  BY <1>1, <1>2, <1>3, <1>4, <1>5, <1>6 DEF Next

(* The timer queue starts empty, ...                                       *)
LEMMA CInvInit ==
  ASSUME Init
  PROVE  CInv
<1>1. timerq = <<>> /\ Len(timerq) = 0
  BY DEF Init
<1> QED
  BY <1>1 DEF CInv, Timely, Paced, Clocked, In

(* ... every step keeps it timely, ...                                     *)
LEMMA CInvStep ==
  ASSUME Handler = "C40", HalfRange, TInv, TInv', GInv, CInv, [Next]_vars
  PROVE  CInv'
<1>1. Once(timerq)
  BY DEF GInv, Good
<1>2. CASE UNCHANGED <<timerq, clock>>
  BY <1>2 DEF clock, CInv
<1> QED
  BY <1>1, <1>2, ClockLeftAlone, TickTimely, SleepTimely, UntimedTimely

(* ... and a timely queue is in order and its threads not late by more     *)
(* than there are threads.                                                 *)
LEMMA CInvSound ==
  ASSUME HalfRange, TInv, GInv, CInv
  PROVE  TimerOrder /\ LatenessBounded
<1>1. timerq \in Seq(Threads) /\ remaining \in [Threads -> Int] /\ Once(timerq)
  BY DEF TInv, TypeOK, GInv, Good
<1>2. TimerOrder
  BY <1>1, DelaysType DEF CInv, Timely, Paced, TimerOrder
<1>3. LatenessBounded
  <2>1. ASSUME NEW t \in Threads, OnTimer(t)
        PROVE  remaining[t] > -Cardinality(Threads)
    <3>1. PICK i \in 1 .. Len(timerq) : timerq[i] = t
      BY <2>1 DEF OnTimer, In
    <3>2. remaining[timerq[i]] > -NumThreads
      BY <1>1, Sleeper DEF CInv
    <3> QED
      BY <3>1, <3>2 DEF NumThreads
  <2> QED
    BY <2>1 DEF LatenessBounded
<1> QED
  BY <1>2, <1>3

(* The queues say what the threads' records say, and the timer queue is in *)
(* the order of the time its threads still have to sleep, however often    *)
(* the clock word wraps: with the C40's handler, and a clock whose range   *)
(* is twice the longest delay and a tick for each thread.                  *)
THEOREM QueuesCorrect ==
  ASSUME Handler = "C40", HalfRange
  PROVE  Spec => []QueuesSound
<1>1. Init => TInv /\ GInv /\ CInv
  BY TypeInit, GInvInit, CInvInit
<1>2. TInv /\ GInv /\ CInv /\ [Next]_vars => TInv' /\ GInv' /\ CInv'
  BY TypeStep, GInvStep, CInvStep
<1>3. TInv /\ GInv /\ CInv => QueuesSound
  BY GInvSound, CInvSound DEF QueuesSound
<1> QED
  BY <1>1, <1>2, <1>3, PTL DEF Spec

(* A tick wakes one sleeper at most, so sleepers due together wait for one *)
(* another, but nobody by as many ticks as there are threads.              *)
THEOREM LatenessCorrect ==
  ASSUME Handler = "C40", HalfRange
  PROVE  Spec => []LatenessBounded
<1>1. Init => TInv /\ GInv /\ CInv
  BY TypeInit, GInvInit, CInvInit
<1>2. TInv /\ GInv /\ CInv /\ [Next]_vars => TInv' /\ GInv' /\ CInv'
  BY TypeStep, GInvStep, CInvStep
<1>3. TInv /\ GInv /\ CInv => LatenessBounded
  BY CInvSound
<1> QED
  BY <1>1, <1>2, <1>3, PTL DEF Spec

(* Nobody is woken by the clock before the delay asked for has passed.     *)
THEOREM NeverEarlyCorrect ==
  ASSUME Handler = "C40", HalfRange
  PROVE  Spec => NeverEarly
<1>1. Init => TInv /\ GInv /\ CInv
  BY TypeInit, GInvInit, CInvInit
<1>2. TInv /\ GInv /\ CInv /\ [Next]_vars => TInv' /\ GInv' /\ CInv'
  BY TypeStep, GInvStep, CInvStep
<1>3. ASSUME TInv, GInv, CInv, [Next]_vars,
             NEW t \in Threads, OnTimer(t), ~OnTimer(t)', Timer' # Timer
      PROVE  remaining[t] <= 1
  <2>1. TimerInterrupt
    BY <1>3, ClockLeftAlone DEF clock, SleepAs, Untimed
  <2>2. timerq \in Seq(Threads) /\ Once(timerq)
    BY <1>3 DEF TInv, TypeOK, GInv, Good
  <2>3. HeadDue /\ timerq' = Tail(timerq) /\ timerq # <<>>
    BY <1>3, <2>1 DEF TimerInterrupt, TimerWake, TimerNoWake, HeadDue, OnTimer
  <2>4. t = Head(timerq)
    BY <1>3, <2>2, <2>3, TailList DEF OnTimer
  <2> QED
    BY <1>3, <2>2, <2>3, <2>4, DueIsRunOut
<1>4. TInv /\ GInv /\ CInv /\ [Next]_vars
        => [\A t \in Threads : OnTimer(t) /\ ~OnTimer(t)' /\ Timer' # Timer => remaining[t] <= 1]_vars
  BY <1>3
<1> QED
  BY <1>1, <1>2, <1>4, PTL DEF Spec, NeverEarly
=============================================================================
