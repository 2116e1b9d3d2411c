------------------------------- MODULE Ports -------------------------------
(***************************************************************************)
(* Message ports: the port table (kernel/port1.c), GetMsg(), MultiWait()   *)
(* (kernel/getmsg1.c), PutMsg() to a local port (kernel/putmsg1.c) and     *)
(* AbortPort() (kernel/kill1.c).                                           *)
(*                                                                         *)
(* All of it runs in System() at HIGHPRI, so a call is one step up to the  *)
(* point where it suspends or drops to HIGHPRI + 1 to copy a message.      *)
(* Programs run at HIGHPRI + 1 too, sliced against the copies, and only    *)
(* while no thread at HIGHPRI can: `high' is the HIGHPRI run queue of the  *)
(* executive, and a Resume()d thread goes to its tail.                     *)
(*                                                                         *)
(* A call that fails at once (a bad port, a poll of a port that is not     *)
(* ready) changes nothing and is not an action.  Ports are local: one of   *)
(* another type leads to a link.  Each thread is a task of its own.  Time  *)
(* is reduced to whether the end of a call's time-out has come.            *)
(***************************************************************************)
EXTENDS Integers, Sequences, FiniteSets, Lists

CONSTANTS
  Threads,
  PortIndex,     \* the slots of the port table
  LastCycle,     \* bound of the model: no port is made with a higher Cycle
  MultiPorts,    \* bound of the model: ports in a MultiWait(), 0 for no MultiWait()
  MultiTimeouts, \* the time-outs given to MultiWait()
  Clock,         \* TimeoutHandler(), a kernel thread at HIGHPRI
  None           \* no thread

Timeouts == {"poll", "finite", "forever"}

ASSUME CycleAssumption  == LastCycle \in Nat
ASSUME MultiAssumption  == MultiPorts \in Nat /\ MultiTimeouts \subseteq Timeouts
ASSUME ThreadAssumption == Clock \notin Threads /\ None \notin Threads
ASSUME FiniteAssumption == IsFiniteSet(Threads) /\ IsFiniteSet(PortIndex)

Descriptors == [ix : PortIndex, cy : 1 .. LastCycle]
Calls   == {"none", "made", "put", "get", "multi", "putcopy", "getcopy", "multicopy"}
Results == {"unused", "waiting", "null", "timeout", "abort"}

VARIABLES
  Type,    \* PTE.Type
  Cycle,   \* PTE.Cycle
  Owner,   \* PTE.Owner
  TxId,    \* PTE.TxId: the threads whose Id is on the queue of transmitters
  RxId,    \* PTE.RxId: those on the queue of receivers
  PTFreeq, \* the free slots, last freed first
  high,    \* ExecRoot.Queues[HIGHPRI]
  call,    \* what each thread is in the middle of
  want,    \* the descriptors the call was made with
  rc,      \* Id.rc of the thread's Id on each slot
  endtime, \* Id.endtime: "forever", "coming" or "past"
  state,   \* MultiWait()'s state: set from its Suspend() to its Resume()
  peer,    \* the other side of the copy the thread makes
  held,    \* history: messages in the thread's buffer it has not been told of
  moved,   \* history: transmitters whose message has been copied
  astray   \* a MultiWait() ran off the end of a receiver "queue", or failed
           \* and kept a "message" it had received: the last step modelled

table   == <<Type, Cycle, Owner, PTFreeq>>
waits   == <<call, want, rc, endtime, state, peer>>
history == <<held, moved, astray>>
vars    == <<table, TxId, RxId, high, waits, history>>

----------------------------------------------------------------------------
Runs(t)  == high = <<>> /\ call[t] = "none"
First(t) == high # <<>> /\ Head(high) = t

Valid(d) == Cycle[d.ix] = d.cy
Local(d) == Valid(d) /\ Type[d.ix] = "local"

(* A program may use any descriptor NewPort() has returned, to anyone.     *)
Issued(d) == d.cy < Cycle[d.ix] \/ (Local(d) /\ Owner[d.ix] # None)

Ends(d) == IF d = "forever" THEN "forever" ELSE "coming"

(* The orders in which a loop may come to the members of S.                *)
Orders(S) ==
  {s \in [1 .. Cardinality(S) -> S] : \A i, j \in DOMAIN s : s[i] = s[j] => i = j}

(* The waiters of slot p a Resume() of each Id restarts: MultiWait()'s Ids *)
(* share one SaveState pointer, cleared by the first.                      *)
Resumable(p) == TxId[p] \o Drop(RxId[p], {t \in Threads : call[t] # "get" /\ ~state[t]})

(* Thread t calls c with the descriptors ds and waits on the slots P.      *)
Begin(t, c, ds, d, P) ==
  /\ call' = [call EXCEPT ![t] = c]
  /\ want' = [want EXCEPT ![t] = ds]
  /\ endtime' = [endtime EXCEPT ![t] = IF P = {} THEN "forever" ELSE Ends(d)]
  /\ rc' = [rc EXCEPT ![t] = [p \in PortIndex |->
              IF p \notin P THEN "unused" ELSE IF c \in {"put", "get"} THEN "null" ELSE "waiting"]]

(* It is about to return.                                                  *)
Finish(t) == Begin(t, "none", <<>>, "forever", {})

----------------------------------------------------------------------------
(* The port table.                                                         *)

(* NewPort(): the owner is filled in after System() has returned.          *)
NewPort(t) ==
  /\ Runs(t)
  /\ PTFreeq # <<>>
  /\ LET p == Head(PTFreeq) IN
       /\ Cycle[p] <= LastCycle
       /\ PTFreeq' = Tail(PTFreeq)
       /\ Type' = [Type EXCEPT ![p] = "local"]
       /\ Owner' = [Owner EXCEPT ![p] = None]
       /\ TxId' = [TxId EXCEPT ![p] = <<>>]
       /\ RxId' = [RxId EXCEPT ![p] = <<>>]
       /\ Begin(t, "made", <<[ix |-> p, cy |-> Cycle[p]]>>, "forever", {})
  /\ UNCHANGED <<Cycle, high, state, peer, history>>

NewPortReturns(t) ==
  /\ high = <<>>
  /\ call[t] = "made"
  /\ Owner' = [Owner EXCEPT ![want[t][1].ix] = t]
  /\ Finish(t)
  /\ UNCHANGED <<Type, Cycle, PTFreeq, TxId, RxId, high, state, peer, history>>

(* Fault: the waiters are resumed but not told why.                        *)
AbortUntold(p) ==
  /\ high' = high \o Resumable(p)
  /\ state' = [t \in Threads |-> state[t] /\ ~In(RxId[p], t)]
  /\ rc' = rc

(* _AbortPort() up to the clearing of the queues.                          *)
Abort(p) ==
  /\ high' = high \o Resumable(p)
  /\ state' = [t \in Threads |-> state[t] /\ ~In(RxId[p], t)]
  /\ rc' = [t \in Threads |-> IF In(TxId[p] \o RxId[p], t)
                                THEN [rc[t] EXCEPT ![p] = "abort"] ELSE rc[t]]

ClearQueues(p) ==
  /\ TxId' = [TxId EXCEPT ![p] = <<>>]
  /\ RxId' = [RxId EXCEPT ![p] = <<>>]

AbortPort(t, d) ==
  /\ Runs(t)
  /\ Local(d)
  /\ Abort(d.ix)
  /\ ClearQueues(d.ix)
  /\ UNCHANGED <<table, call, want, endtime, peer, history>>

(* Fault: the slot is freed whoever owns it, if anyone does.               *)
FreeUnchecked(t, d) == TRUE

(* __FreePort() frees a port of its caller; _FreePort() checks the cycle.  *)
MayFree(t, d) == Type[d.ix] = "local" /\ Owner[d.ix] = t /\ Valid(d)

(* Fault: the waiters are not aborted.                                     *)
FreePortSilently(t, d) ==
  /\ Runs(t)
  /\ MayFree(t, d)
  /\ Type' = [Type EXCEPT ![d.ix] = "free"]
  /\ Cycle' = [Cycle EXCEPT ![d.ix] = @ + 1]
  /\ Owner' = [Owner EXCEPT ![d.ix] = None]
  /\ PTFreeq' = <<d.ix>> \o PTFreeq
  /\ ClearQueues(d.ix)
  /\ UNCHANGED <<high, state, rc, call, want, endtime, peer, history>>

(* FreePort() of another's port only aborts its waiters.                   *)
FreePort(t, d) ==
  /\ Runs(t)
  /\ MayFree(t, d)
  /\ Type' = [Type EXCEPT ![d.ix] = "free"]
  /\ Cycle' = [Cycle EXCEPT ![d.ix] = @ + 1]
  /\ Owner' = [Owner EXCEPT ![d.ix] = None]
  /\ PTFreeq' = <<d.ix>> \o PTFreeq
  /\ Abort(d.ix)
  /\ ClearQueues(d.ix)
  /\ UNCHANGED <<call, want, endtime, peer, history>>

----------------------------------------------------------------------------
(* Sending.                                                                *)

(* Fault: the receiver stays queued while its message is copied.           *)
TakeReceiverLate(p) == RxId' = RxId

TakeReceiver(p) == RxId' = [RxId EXCEPT ![p] = Tail(@)]

(* Fault: a descriptor is taken for whatever port is in its slot.          *)
DeliverableUnchecked(d) == Type[d.ix] = "local"

(* PutMsg() checks the cycle only: no one holds a valid descriptor of a    *)
(* free slot.                                                              *)
Deliverable(d) == Valid(d)

PutMsg(t, d, w) ==
  /\ Runs(t)
  /\ Deliverable(d)
  /\ IF TxId[d.ix] = <<>> /\ RxId[d.ix] # <<>>
       THEN /\ TakeReceiver(d.ix)
            /\ peer' = [peer EXCEPT ![t] = Head(RxId[d.ix])]
            /\ Begin(t, "putcopy", <<d>>, "forever", {})
            /\ UNCHANGED TxId
       ELSE /\ w # "poll"
            /\ TxId' = [TxId EXCEPT ![d.ix] = Append(@, t)]
            /\ Begin(t, "put", <<d>>, w, {d.ix})
            /\ UNCHANGED <<RxId, peer>>
  /\ UNCHANGED <<table, high, state, history>>

(* Fault: the Id keeps the value MultiWaiting.                             *)
MarkReceivedNot(u, p) == rc

MarkReceived(u, p) == IF state[u] THEN [rc EXCEPT ![u][p] = "null"] ELSE rc

(* The message is in the receiver's buffer and PutMsg() returns Err_Null.  *)
PutCopyEnd(t) ==
  LET u == peer[t]
      p == want[t][1].ix
  IN
  /\ high = <<>>
  /\ call[t] = "putcopy"
  /\ high' = IF call[u] = "get" \/ state[u] THEN <<u>> ELSE <<>>
  /\ state' = [state EXCEPT ![u] = FALSE]
  /\ call' = [call EXCEPT ![t] = "none"]
  /\ want' = [want EXCEPT ![t] = <<>>]
  /\ rc' = MarkReceived(u, p)
  /\ peer' = [peer EXCEPT ![t] = None]
  /\ held' = [held EXCEPT ![u] = @ + 1]
  /\ UNCHANGED <<table, TxId, RxId, endtime, moved, astray>>

PutMsgReturns(t) ==
  /\ First(t)
  /\ call[t] = "put"
  /\ high' = Tail(high)
  /\ Finish(t)
  /\ moved' = moved \ {t}
  /\ UNCHANGED <<table, TxId, RxId, state, peer, held, astray>>

----------------------------------------------------------------------------
(* Receiving.                                                              *)

TakeTransmitter(p) == TxId' = [TxId EXCEPT ![p] = Tail(@)]

NoMessageYet(p) == TxId[p] = <<>> \/ RxId[p] # <<>>

GetMsg(t, d, w) ==
  /\ Runs(t)
  /\ Local(d)
  /\ IF NoMessageYet(d.ix)
       THEN /\ w # "poll"
            /\ RxId' = [RxId EXCEPT ![d.ix] = Append(@, t)]
            /\ Begin(t, "get", <<d>>, w, {d.ix})
            /\ UNCHANGED <<TxId, peer>>
       ELSE /\ TakeTransmitter(d.ix)
            /\ peer' = [peer EXCEPT ![t] = Head(TxId[d.ix])]
            /\ Begin(t, "getcopy", <<d>>, "forever", {})
            /\ UNCHANGED RxId
  /\ UNCHANGED <<table, high, state, history>>

(* The copy is made and the transmitter resumed.                           *)
Copied(t) ==
  /\ high = <<>>
  /\ high' = <<peer[t]>>
  /\ moved' = moved \cup {peer[t]}
  /\ peer' = [peer EXCEPT ![t] = None]

GetCopyEnd(t) ==
  /\ call[t] = "getcopy"
  /\ Copied(t)
  /\ Finish(t)
  /\ UNCHANGED <<table, TxId, RxId, state, held, astray>>

(* What the caller is told: a result other than Err_Null hides a message.  *)
GetMsgReturns(t) ==
  /\ First(t)
  /\ call[t] = "get"
  /\ high' = Tail(high)
  /\ held' = IF rc[t][want[t][1].ix] = "null" THEN [held EXCEPT ![t] = @ - 1] ELSE held
  /\ Finish(t)
  /\ UNCHANGED <<table, TxId, RxId, state, peer, moved, astray>>

(* MultiWait() on the ports s.  The scan stops at the first port that is   *)
(* bad, which ends the call with nothing changed, or has a transmitter.    *)
Slots(s) == {s[i].ix : i \in DOMAIN s}
Stops(s) == {i \in DOMAIN s : ~Local(s[i]) \/ TxId[s[i].ix] # <<>>}

Hook(t, P) == RxId' = [p \in PortIndex |-> IF p \in P THEN Append(RxId[p], t) ELSE RxId[p]]

MultiWait(t, s, w) ==
  /\ Runs(t)
  /\ \/ /\ Stops(s) = {}
        /\ w # "poll"
        /\ Hook(t, Slots(s))
        /\ state' = [state EXCEPT ![t] = TRUE]
        /\ Begin(t, "multi", s, w, Slots(s))
        /\ UNCHANGED <<TxId, peer>>
     \/ \E i \in Stops(s) :
          LET before == IF w = "poll" THEN {} ELSE Slots(SubSeq(s, 1, i - 1))
              p      == s[i].ix
          IN
          /\ \A j \in Stops(s) : i <= j
          /\ Local(s[i])
          /\ Hook(t, before)
          /\ TakeTransmitter(p)
          /\ peer' = [peer EXCEPT ![t] = Head(TxId[p])]
          /\ Begin(t, "multicopy", SubSeq(s, 1, i), w, before)
          /\ UNCHANGED state
  /\ UNCHANGED <<table, high, history>>

Failed(t, P) == \E p \in P : rc[t][p] \in {"timeout", "abort"}

(* The cleanup loop over the Ids on the slots P.  One that still has the   *)
(* value MultiWaiting is searched for on its queue, and the call fails if  *)
(* any other has an error; `taken' says that it has received a message.    *)
CleanUp(t, P, taken) ==
  LET hooked == {p \in P : rc[t][p] = "waiting"} IN
  /\ astray' = IF \E p \in hooked : ~In(RxId[p], t) THEN "queue"
               ELSE IF taken /\ Failed(t, P) THEN "message" ELSE astray
  /\ RxId' = [p \in PortIndex |-> IF p \in hooked THEN Drop(RxId[p], {t}) ELSE RxId[p]]
  /\ Finish(t)

MultiCopyEnd(t) ==
  LET before == Slots(SubSeq(want[t], 1, Len(want[t]) - 1)) IN
  /\ call[t] = "multicopy"
  /\ Copied(t)
  /\ CleanUp(t, before, TRUE)
  /\ UNCHANGED <<table, TxId, state, held>>

MultiWaitReturns(t) ==
  LET P   == Slots(want[t])
      got == \E p \in P : rc[t][p] = "null"
  IN
  /\ First(t)
  /\ call[t] = "multi"
  /\ high' = Tail(high)
  /\ CleanUp(t, P, got)
  /\ held' = IF got THEN [held EXCEPT ![t] = @ - 1] ELSE held
  /\ UNCHANGED <<table, TxId, state, peer, moved>>

----------------------------------------------------------------------------
(* Time-outs.                                                              *)

(* The end of a call's time-out comes.                                     *)
TimePasses(t) ==
  /\ endtime[t] = "coming"
  /\ endtime' = [endtime EXCEPT ![t] = "past"]
  /\ UNCHANGED <<table, TxId, RxId, high, call, want, rc, state, peer, history>>

(* TimeoutHandler()'s Sleep() is over: a timer interrupt wakes it.         *)
ClockWakes ==
  /\ ~In(high, Clock)
  /\ high' = Append(high, Clock)
  /\ UNCHANGED <<table, TxId, RxId, waits, history>>

Late == {t \in Threads : endtime[t] = "past"}
LateTx(t, p) == t \in Late /\ In(TxId[p], t)
LateRx(t, p) == t \in Late /\ In(RxId[p], t)

(* Fault: only transmitters are looked at.                                 *)
ExpiredTransmitters == {t \in Threads : \E p \in PortIndex : LateTx(t, p)}

Expired == {t \in Threads : \E p \in PortIndex : LateTx(t, p) \/ LateRx(t, p)}

DequeueExpired ==
  /\ TxId' = [p \in PortIndex |-> Drop(TxId[p], Expired)]
  /\ RxId' = [p \in PortIndex |-> Drop(RxId[p], Expired)]

(* One pass over a block of the port table.                                *)
TimeoutHandler ==
  /\ First(Clock)
  /\ \E s \in Orders({t \in Expired : call[t] \in {"put", "get"} \/ state[t]}) :
       high' = Tail(high) \o s
  /\ state' = [t \in Threads |-> state[t] /\ t \notin Expired]
  /\ rc' = [t \in Threads |-> [p \in PortIndex |->
              IF t \in Expired /\ (LateTx(t, p) \/ LateRx(t, p)) THEN "timeout" ELSE rc[t][p]]]
  /\ DequeueExpired
  /\ UNCHANGED <<table, call, want, endtime, peer, history>>

----------------------------------------------------------------------------
Init ==
  /\ Type = [p \in PortIndex |-> "free"]
  /\ Cycle = [p \in PortIndex |-> 1]
  /\ Owner = [p \in PortIndex |-> None]
  /\ TxId = [p \in PortIndex |-> <<>>]
  /\ RxId = [p \in PortIndex |-> <<>>]
  /\ PTFreeq \in Orders(PortIndex)
  /\ high = <<>>
  /\ call = [t \in Threads |-> "none"]
  /\ want = [t \in Threads |-> <<>>]
  /\ rc = [t \in Threads |-> [p \in PortIndex |-> "unused"]]
  /\ endtime = [t \in Threads |-> "forever"]
  /\ state = [t \in Threads |-> FALSE]
  /\ peer = [t \in Threads |-> None]
  /\ held = [t \in Threads |-> 0]
  /\ moved = {}
  /\ astray = "no"

(* A list of ports to wait for; one listed twice fails no differently.     *)
PortLists ==
  {s \in UNION {[1 .. n -> Descriptors] : n \in 1 .. MultiPorts} :
     Cardinality(Slots(s)) = Len(s) /\ \A i \in DOMAIN s : Issued(s[i])}

Program(t) ==
  \/ NewPort(t)
  \/ \E d \in {c \in Descriptors : Issued(c)} :
       \/ FreePort(t, d) \/ AbortPort(t, d)
       \/ \E w \in Timeouts : PutMsg(t, d, w) \/ GetMsg(t, d, w)
  \/ \E s \in PortLists, w \in MultiTimeouts : MultiWait(t, s, w)

Returns(t) == PutMsgReturns(t) \/ GetMsgReturns(t) \/ MultiWaitReturns(t)
CopyEnd(t) == PutCopyEnd(t) \/ GetCopyEnd(t) \/ MultiCopyEnd(t)

Next ==
  /\ astray = "no"
  /\ \/ ClockWakes \/ TimeoutHandler
     \/ \E t \in Threads :
          Program(t) \/ NewPortReturns(t) \/ Returns(t) \/ CopyEnd(t) \/ TimePasses(t)

(* The executive runs the head of the HIGHPRI queue, the timer wakes the   *)
(* handler every second, time passes, and copies get their time slices.    *)
Fairness ==
  /\ WF_vars(ClockWakes)
  /\ WF_vars(TimeoutHandler)
  /\ \A t \in Threads : WF_vars(Returns(t)) /\ WF_vars(TimePasses(t)) /\ SF_vars(CopyEnd(t))

Spec     == Init /\ [][Next]_vars
FairSpec == Spec /\ Fairness

----------------------------------------------------------------------------
(* No call returns a message it was not given.                             *)
TypeOK ==
  /\ Type \in [PortIndex -> {"free", "local"}]
  /\ Cycle \in [PortIndex -> 1 .. LastCycle + 1]
  /\ Owner \in [PortIndex -> Threads \cup {None}]
  /\ TxId \in [PortIndex -> Seq(Threads)]
  /\ RxId \in [PortIndex -> Seq(Threads)]
  /\ PTFreeq \in Seq(PortIndex)
  /\ high \in Seq(Threads \cup {Clock})
  /\ call \in [Threads -> Calls]
  /\ want \in [Threads -> Seq(Descriptors)]
  /\ rc \in [Threads -> [PortIndex -> Results]]
  /\ endtime \in [Threads -> {"forever", "coming", "past"}]
  /\ state \in [Threads -> BOOLEAN]
  /\ peer \in [Threads -> Threads \cup {None}]
  /\ held \in [Threads -> Nat]
  /\ moved \subseteq Threads
  /\ astray \in {"no", "queue", "message"}

(* A port never keeps transmitters and receivers waiting for each other.   *)
OneSided == \A p \in PortIndex : TxId[p] = <<>> \/ RxId[p] = <<>>

(* An Id lives on its call's stack or heap: one on a queue belongs to a    *)
(* call that waits there and has not been resumed; MultiWait()'s may stay  *)
(* until its cleanup.  No queue has a thread twice.                        *)
IdLive ==
  \A p \in PortIndex :
    /\ Once(TxId[p]) /\ Once(RxId[p])
    /\ \A t \in Threads :
         /\ In(TxId[p], t) => call[t] = "put" /\ ~In(high, t)
         /\ In(RxId[p], t) => \/ call[t] = "get" /\ ~In(high, t)
                              \/ call[t] \in {"multi", "multicopy"} /\ rc[t][p] = "waiting"

(* A suspended thread can still be reached: it is on a queue of the port   *)
(* or another thread is copying its message.                               *)
Copying(t) == \E u \in Threads : peer[u] = t /\ call[u] \in {"putcopy", "getcopy", "multicopy"}

Reachable ==
  \A t \in Threads : call[t] \in {"put", "get", "multi"} =>
    In(high, t) \/ Copying(t) \/ \E p \in PortIndex : In(TxId[p] \o RxId[p], t)

(* MultiWait() will search a queue for an Id that a PutMsg() has taken off *)
(* it: it is not suspended, so that the Id will not be marked.             *)
Crossed(t) ==
  /\ call[t] \in {"multi", "multicopy"} /\ ~state[t]
  /\ \E p \in PortIndex : rc[t][p] = "waiting" /\ ~In(RxId[p], t)

(* A message whose transmitter was told it has been received is returned   *)
(* by a GetMsg() or MultiWait(): when one is in a buffer, its owner's call *)
(* is on its way back with success and that is the only one there, unless  *)
(* it is crossed.                                                          *)
Accounted ==
  \A t \in Threads : held[t] > 0 =>
    \/ held[t] = 1 /\ In(high, t) /\ call[t] = "get" /\ rc[t][want[t][1].ix] = "null"
    \/ held[t] = 1 /\ In(high, t) /\ call[t] = "multi" /\ ~Failed(t, Slots(want[t]))
    \/ Crossed(t) \/ astray # "no"

(* And a PutMsg() that waited reports Err_Null exactly if its message was  *)
(* received, whatever time-out or abort came near it.                      *)
Truthful ==
  \A t \in Threads : call[t] = "put" /\ In(high, t) =>
    (rc[t][want[t][1].ix] = "null" <=> t \in moved)

(* No thread that waits is lost, and no Id is left behind.                 *)
NobodyLost == OneSided /\ IdLive /\ Reachable

(* What callers are told of their messages is what happened to them.       *)
ResultsTrue == Accounted /\ Truthful

(* MultiWait() finds every Id it looks for ("now go through the ports      *)
(* unhooking those that didnt work").                                      *)
NeverAstray == astray # "queue"

(* Waiters never outlive the port: an Id on a slot was put there through a *)
(* descriptor of the port that is in the slot now, and a message is copied *)
(* only between calls on the same descriptor, until a call goes astray.    *)
Wants(t, d) == \E i \in 1 .. Len(want[t]) : want[t][i] = d

SameIncarnation ==
  /\ \A p \in PortIndex, t \in Threads :
       In(TxId[p] \o RxId[p], t) => Type[p] = "local" /\ Wants(t, [ix |-> p, cy |-> Cycle[p]])
  /\ NeverAstray =>
       \A t \in Threads : peer[t] # None => Wants(peer[t], want[t][Len(want[t])])

(* The free list holds the free slots, each once.                          *)
FreeList ==
  /\ Once(PTFreeq)
  /\ \A p \in PortIndex : In(PTFreeq, p) <=> Type[p] = "free"

(* MultiWait() goes wrong in two ways only.  It is crossed by a PutMsg()   *)
(* that copies a message to it while it copies one itself or when it has   *)
(* been resumed through another port; and it loses the message it copies   *)
(* itself if an earlier port of its list is aborted or timed out meanwhile.*)
MultiWaitHolds ==
  [][/\ \A t \in Threads : Crossed(t)' /\ ~Crossed(t) => Copying(t)'
     /\ astray' = "queue" => \E t \in Threads : Crossed(t)
     /\ astray' = "message" => \E t \in Threads : call[t] = "multicopy" /\ Failed(t, Slots(want[t]))]_vars

(* A call with a time-out ends, whoever else does or does not come.        *)
TimedCallsEnd == \A t \in Threads : endtime[t] # "forever" ~> call[t] = "none"
=============================================================================
