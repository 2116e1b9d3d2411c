---------------------------- MODULE Links_proofs ----------------------------
(***************************************************************************)
(* The transmitting side of a link, for any number of programs and workers:*)
(* who is in the queue, who has the link, who holds it for the neighbour,  *)
(* and that the whole is the lock of LinkLock.tla.                         *)
(***************************************************************************)
EXTENDS Links, Lists_proofs

----------------------------------------------------------------------------
(* The inductive invariant.  What each kind of thread does, and where it   *)
(* may be suspended while it does it.                                      *)
JobsOf(x) ==
  CASE x \in Programs -> {"none", "put"}
    [] x \in Workers  -> {"none", "reply", "info", "flow_xoff", "flow_xon", "hold"}
    [] OTHER          -> {"none", "dumb"}

PlacesOf(x, j) ==
  CASE j = "none" -> IF x = Guardian THEN {"receive", "message", "asleep"} ELSE {"idle"}
    [] j = "put"  -> {"queue", "tx"}
    [] j = "hold" -> {"start", "queue", "tx", "stop"}
    [] j = "dumb" -> {"queue", "clear"} \cup (IF x = Guardian THEN {} ELSE {"tx", "sync"})
    [] OTHER      -> {"start", "queue", "tx"}

Shape(x) ==
  /\ th[x].job \in JobsOf(x)
  /\ th[x].at \in PlacesOf(x, th[x].job)
  /\ th[x].at = "idle" => th[x] = Idle
  /\ th[x].rc = "FC_LinkTx" => th[x].job = "hold" /\ th[x].at = "tx"
  /\ th[x].rc = "FC_Xon"    => th[x].job = "hold" /\ th[x].at \in {"stop", "tx"}
  /\ th[x].endtime = "set"  => th[x].at = "tx" \/ (th[x].at = "queue" /\ th[x].job # "dumb")

(* Where its Id and its SaveState are.                                     *)
Placed(x) ==
  /\ In(high, x) => th[x].at # "idle"
  /\ th[x].at = "start" => In(high, x)
  /\ th[x].at = "queue" => In(high, x) \/ In(txQueue, x)
  /\ In(txQueue, x) => th[x].at = "queue" /\ th[x].rc = "null" /\ ~In(high, x)
  /\ txThread = x => th[x].at = "tx" /\ ~In(high, x) /\ th[x].left >= 1
  /\ th[x].rc = "FC_Xon" => In(high, x)
  /\ txUser = x => Believes(x)

Own(x) == Shape(x) /\ Placed(x)

(* The guardian, the link's mode and its Sync.                             *)
Guarded ==
  LET g == th[Guardian].at IN
  /\ sync \in {None, Guardian, Manager}
  /\ sync = Guardian => g = "asleep" /\ ~In(high, Guardian) /\ mode = "dumb"
  /\ sync = Manager => th[Manager].at = "sync" /\ ~In(high, Manager) /\ g = "message"
  /\ g = "asleep" => \/ sync = Guardian
                     \/ In(high, Guardian) /\ (mode = "intelligent") /\ (th[Manager].at = "idle")
  /\ th[Manager].at \in {"tx", "sync", "clear"} => mode = "dumb"
  /\ mode = "dumb" /\ g = "receive" => In(high, Guardian) \/ th[Manager].at = "tx"

(* The neighbour's last word.  When it is Xoff there is a HandleXoff()     *)
(* that has not been told of an Xon, and one that has not started will not *)
(* before each that has been told is out of its way.                       *)
Ahead(q, u, w) == \E k \in 1 .. Len(q) : q[k] = u /\ \A i \in 1 .. Len(q) : q[i] = w => k < i

Holding(w) == th[w].job = "hold" /\ th[w].rc # "FC_Xon"

Heard ==
  /\ heard = "xoff" =>
       \E w \in Workers :
         /\ Holding(w)
         /\ th[w].at = "start" => \A u \in Workers : th[u].rc = "FC_Xon" => Ahead(high, u, w)
  /\ heard = "xon" => \A w \in Workers : th[w].job = "hold" => th[w].rc = "FC_Xon"

LInv ==
  /\ Once(high) /\ Once(txQueue) /\ UrgentFirst
  /\ \A x \in Threads : Own(x)
  /\ Guarded
  /\ Sound => Heard
  /\ WakersFindIt

----------------------------------------------------------------------------
(* What is shown of every step: it keeps the invariant, and is as the      *)
(* action properties and the lock of LinkLock.tla have it.                 *)
lock == <<txUser, txQueue, Served>>

Resumed ==
  Served /\ Served' /\ txThread # None /\ txThread' # txThread => In(high', txThread)

Correct ==
  /\ TypeOK' /\ LInv'
  /\ Served /\ Served' => \A x \in Threads : Believes(x)' => txUser' = x
  /\ Ghost' => \E t \in Threads : th[t].job = "dumb" /\ th[t].saw
  /\ Resumed
  /\ Lock!Next \/ UNCHANGED lock

(* The HandleXoff()s are as they were, and so is their order, ...          *)
HoldKept(x) ==
  /\ th'[x].job = "hold" <=> th[x].job = "hold"
  /\ th'[x].rc = "FC_Xon" <=> th[x].rc = "FC_Xon"
  /\ th'[x].job = "hold" /\ th'[x].at = "start" => th[x].at = "start"

AheadKept ==
  \A u, w \in Workers : th[u].rc = "FC_Xon" /\ Ahead(high, u, w) => Ahead(high', u, w)

HeardSame == heard' = heard /\ (\A x \in Workers : HoldKept(x)) /\ AheadKept

LEMMA HeardKept ==
  ASSUME Heard, HeardSame
  PROVE  Heard'
<1>1. ASSUME heard' = "xoff"
      PROVE  \E w \in Workers :
                /\ Holding(w)'
                /\ th'[w].at = "start" => \A u \in Workers : th'[u].rc = "FC_Xon" => Ahead(high', u, w)
  <2>1. PICK w \in Workers : /\ Holding(w)
                             /\ th[w].at = "start" => \A u \in Workers : th[u].rc = "FC_Xon" => Ahead(high, u, w)
    BY <1>1 DEF Heard, HeardSame
  <2>2. Holding(w)'
    BY <2>1 DEF HeardSame, HoldKept, Holding
  <2>3. ASSUME th'[w].at = "start", NEW u \in Workers, th'[u].rc = "FC_Xon"
        PROVE  Ahead(high', u, w)
    <3>1. th[w].at = "start" /\ th[u].rc = "FC_Xon"
      BY <2>2, <2>3 DEF HeardSame, HoldKept, Holding
    <3> QED
      BY <2>1, <3>1 DEF HeardSame, AheadKept
  <2> QED
    BY <2>2, <2>3
<1>2. ASSUME heard' = "xon", NEW w \in Workers, th'[w].job = "hold"
      PROVE  th'[w].rc = "FC_Xon"
  BY <1>2 DEF Heard, HeardSame, HoldKept
<1> QED
  BY <1>1, <1>2 DEF Heard

(* ... and so are those that hold the link.                                *)
StopSame ==
  /\ stopped' => stopped
  /\ \A x \in Workers : th[x].job = "hold" /\ th[x].at \in {"stop", "tx"}
                          => th'[x].job = "hold" /\ th'[x].at \in {"stop", "tx"}

LEMMA NoGhost ==
  ASSUME ~Ghost, StopSame
  PROVE  ~Ghost'
BY DEF Ghost, Holders, StopSame

(* The guardian is where it was.                                           *)
LEMMA GuardedSame ==
  ASSUME Guarded, mode' = mode, sync' = sync,
         th'[Guardian].at = th[Guardian].at, In(high', Guardian) <=> In(high, Guardian),
         th'[Manager].at = th[Manager].at, In(high', Manager) <=> In(high, Manager)
  PROVE  Guarded'
BY DEF Guarded

(* A thread that a step does not concern.                                  *)
Spared(x) ==
  /\ th'[x] = th[x]
  /\ In(high', x) <=> In(high, x)
  /\ In(txQueue', x) <=> In(txQueue, x)
  /\ txThread' = x => txThread = x
  /\ txUser' = x => txUser = x

LEMMA OwnSpared ==
  ASSUME NEW x \in Threads, Own(x), Spared(x)
  PROVE  Own(x)' /\ (Believes(x)' <=> Believes(x))
<1>1. Believes(x)' <=> Believes(x)
  BY DEF Believes, Spared
<1>2. Shape(x)'
  BY DEF Own, Shape, Spared
<1>3. Placed(x)'
  BY <1>1 DEF Own, Placed, Spared
<1> QED
  BY <1>1, <1>2, <1>3 DEF Own

(* The steps that are not the guardian's, nor change the mode.             *)
Orderly ==
  /\ TypeOK' /\ Once(high') /\ Once(txQueue') /\ UrgentFirst'
  /\ \A x \in Threads : Own(x)' /\ (Believes(x)' => txUser' = x)
  /\ Guarded'
  /\ Heard' /\ ~Ghost'
  /\ WakersFindIt'
  /\ Resumed
  /\ Lock!Next \/ UNCHANGED lock

LEMMA OrderlyCorrect ==
  ASSUME LInv, Sound, Orderly
  PROVE  Correct
<1>1. Heard'
  BY DEF Orderly
<1>2. ~Ghost'
  BY DEF Orderly
<1>3. WakersFindIt'
  BY DEF Orderly
<1>4. LInv'
  BY <1>1, <1>3 DEF LInv, Orderly
<1> QED
  BY <1>2, <1>4 DEF Correct, Orderly

----------------------------------------------------------------------------
(* Order in the run queue: it stays while others join, ...                 *)
LEMMA AheadJoined ==
  ASSUME NEW q \in Seq(Threads), NEW r \in Seq(Threads), NEW u, NEW w, Ahead(q, u, w)
  PROVE  Ahead(q \o r, u, w)
<1>1. /\ Len(q) \in Nat /\ Len(r) \in Nat /\ Len(q \o r) = Len(q) + Len(r)
      /\ \A i \in 1 .. Len(q) + Len(r) : (q \o r)[i] = IF i <= Len(q) THEN q[i] ELSE r[i - Len(q)]
  BY LenProperties, ConcatProperties
<1>2. PICK k \in 1 .. Len(q) : q[k] = u /\ \A i \in 1 .. Len(q) : q[i] = w => k < i
  BY DEF Ahead
<1>3. k \in 1 .. Len(q \o r) /\ (q \o r)[k] = u
  BY <1>1, <1>2
<1>4. ASSUME NEW i \in 1 .. Len(q \o r), (q \o r)[i] = w
      PROVE  k < i
  <2>1. CASE i <= Len(q)
    BY <1>1, <1>2, <1>4, <2>1
  <2>2. CASE ~(i <= Len(q))
    BY <1>1, <1>2, <2>2
  <2> QED
    BY <2>1, <2>2
<1> QED
  BY <1>3, <1>4 DEF Ahead

LEMMA AppendIsJoin ==
  ASSUME NEW q \in Seq(Threads), NEW x \in Threads
  PROVE  Append(q, x) = q \o <<x>> /\ <<x>> \in Seq(Threads)
OBVIOUS

(* ... when the head goes, ...                                             *)
LEMMA AheadTail ==
  ASSUME NEW q \in Seq(Threads), q # <<>>, NEW u, NEW w, u # Head(q), Ahead(q, u, w)
  PROVE  Ahead(Tail(q), u, w)
<1>1. /\ Len(q) \in Nat \ {0} /\ Len(Tail(q)) = Len(q) - 1 /\ Head(q) = q[1]
      /\ \A i \in 1 .. Len(q) - 1 : Tail(q)[i] = q[i + 1]
  BY TailList
<1>2. PICK k \in 1 .. Len(q) : q[k] = u /\ \A i \in 1 .. Len(q) : q[i] = w => k < i
  BY DEF Ahead
<1>3. k # 1
  BY <1>1, <1>2
<1>4. k - 1 \in 1 .. Len(Tail(q)) /\ Tail(q)[k - 1] = u
  BY <1>1, <1>2, <1>3
<1>5. ASSUME NEW i \in 1 .. Len(Tail(q)), Tail(q)[i] = w
      PROVE  k - 1 < i
  <2>1. i + 1 \in 1 .. Len(q) /\ q[i + 1] = w
    BY <1>1, <1>5
  <2> QED
    BY <1>2, <2>1
<1> QED
  BY <1>4, <1>5 DEF Ahead

(* ... and who is there is ahead of who is not.                            *)
LEMMA AheadOfNew ==
  ASSUME NEW q \in Seq(Threads), NEW u, NEW w, In(q, u), ~In(q, w)
  PROVE  Ahead(q, u, w)
BY DEF Ahead, In

LEMMA NoneAhead ==
  ASSUME NEW q \in Seq(Threads), q # <<>>, NEW u, Once(q)
  PROVE  ~Ahead(q, u, Head(q))
<1>1. Len(q) \in Nat \ {0} /\ Head(q) = q[1]
  BY TailList
<1> QED
  BY <1>1 DEF Ahead

----------------------------------------------------------------------------
(* The thread t runs, and H is what it leaves on the run queue.            *)
Acts(t, H) ==
  /\ H \in Seq(Threads) /\ Once(H)
  /\ \A x : In(H, x) <=> In(high, x) /\ x # t
  /\ \A u, w \in Workers : u # t /\ Ahead(high, u, w) => Ahead(H, u, w)
  /\ ~In(txQueue, t) /\ txThread # t /\ sync # t

Special == Guardian \in Threads /\ Manager \in Threads /\ None \notin Threads

LEMMA Threaded ==
  /\ Special /\ Guardian # Manager
  /\ Guardian \notin Programs \cup Workers /\ Manager \notin Programs \cup Workers
  /\ Programs \subseteq Threads /\ Workers \subseteq Threads
  /\ \A x \in Programs : x \notin Workers
BY ThreadAssumption DEF Special, Threads

LEMMA RunsActs ==
  ASSUME TypeOK, LInv, NEW t \in Threads, Runs(t)
  PROVE  Acts(t, <<>>) /\ t # Guardian /\ high = <<>> /\ th[t] = Idle
<1>1. high = <<>> /\ th[t].at = "idle" /\ Own(t)
  BY DEF Runs, LInv
<1>2. Shape(t) /\ th[t] = Idle /\ t # Guardian
  <2>1. Shape(t) /\ th[t] = Idle
    BY <1>1 DEF Own, Shape
  <2>2. t # Guardian
    BY <1>1, <2>1, Threaded DEF Shape, PlacesOf, JobsOf
  <2> QED
    BY <2>1, <2>2
<1>3. ~In(txQueue, t) /\ txThread # t
  BY <1>1 DEF Own, Placed
<1>4. sync # t
  BY <1>1, <1>2, Threaded DEF LInv, Guarded, Special
<1>5. <<>> \in Seq(Threads) /\ Once(<<>>) /\ \A x : ~In(<<>>, x)
  BY DEF Once, In
<1>6. \A u, w : ~Ahead(high, u, w)
  BY <1>1 DEF Ahead
<1> QED
  BY <1>1, <1>2, <1>3, <1>4, <1>5, <1>6 DEF Acts

LEMMA FirstActs ==
  ASSUME TypeOK, LInv, NEW t \in Threads, First(t)
  PROVE  Acts(t, Tail(high)) /\ In(high, t)
<1>1. high \in Seq(Threads) /\ high # <<>> /\ Head(high) = t /\ Once(high)
  BY DEF TypeOK, First, LInv
<1>2. In(high, t) /\ Tail(high) \in Seq(Threads) /\ Once(Tail(high))
      /\ \A x : In(Tail(high), x) <=> In(high, x) /\ x # t
  BY <1>1, TailList
<1>3. ~In(txQueue, t) /\ txThread # t
  BY <1>2 DEF LInv, Own, Placed
<1>4. sync # t
  BY <1>2, Threaded DEF LInv, Guarded, Special
<1>5. \A u, w \in Workers : u # t /\ Ahead(high, u, w) => Ahead(Tail(high), u, w)
  BY <1>1, AheadTail
<1> QED
  BY <1>2, <1>3, <1>4, <1>5 DEF Acts

(* Nobody else acts on the link when it is free or t's own.                *)
LEMMA Alone ==
  ASSUME TypeOK, LInv, Sound, NEW t \in Threads, NEW H, Acts(t, H), txUser \in {None, t}
  PROVE  /\ \A x \in Threads : x # t => ~Believes(x) /\ txUser # x
         /\ txThread = None
         /\ \A x \in Holders : x = t
         /\ stopped => t \in Holders
<1>1. \A x \in Threads : Believes(x) => txUser = x
  BY DEF Sound, Unseated
<1>2. \A x \in Threads : x # t => ~Believes(x) /\ txUser # x
  BY <1>1, Threaded DEF Special
<1>3. txThread = None
  <2>1. ASSUME txThread \in Threads
        PROVE  FALSE
    <3>1. th[txThread].at = "tx" /\ txThread # t
      BY <2>1 DEF LInv, Own, Placed, Acts
    <3>2. Believes(txThread)
      BY <3>1 DEF Believes
    <3> QED
      BY <1>2, <2>1, <3>1, <3>2
  <2> QED
    BY <2>1 DEF TypeOK
<1>4. \A x \in Holders : x = t
  BY <1>2, Threaded DEF Holders, Believes
<1> QED
  BY <1>2, <1>3, <1>4 DEF Sound, Ghost

----------------------------------------------------------------------------
(* A thread's record is set, its place in the run queue given up.          *)
Records == [job : Jobs, at : Places, rc : Results, endtime : {"none", "set"}, left : 0 .. 2,
            saw : BOOLEAN]

LEMMA TypeParts ==
  ASSUME TypeOK
  PROVE  /\ th \in [Threads -> Records]
         /\ txQueue \in Seq(Threads) /\ high \in Seq(Threads)
         /\ {txUser, txThread, sync} \subseteq Threads \cup {None}
         /\ {running, stopped, xoffed} \subseteq BOOLEAN
BY DEF TypeOK, Records

LEMMA AtType ==
  ASSUME NEW j \in Jobs, NEW p \in Places, NEW d \in {"none", "set"}, NEW n \in 0 .. 2
  PROVE  At(j, p, d, n) \in Records
BY DEF At, Records, Results

LEMMA JobsType ==
  \A x : JobsOf(x) \subseteq Jobs
BY DEF JobsOf, Jobs, Transfers

LEMMA SetRecord ==
  ASSUME NEW t \in Threads, NEW r \in Records, NEW H, TypeOK, Becomes(t, r, H)
  PROVE  /\ th' \in [Threads -> Records]
         /\ th'[t] = r /\ high' = H
         /\ \A x \in Threads : x # t => th'[x] = th[x]
BY TypeParts DEF Becomes

LEMMA NewTypes ==
  ASSUME TypeOK, th' \in [Threads -> Records], high' \in Seq(Threads), txQueue' \in Seq(Threads),
         mode' \in {"intelligent", "dumb"}, {running', stopped', xoffed'} \subseteq BOOLEAN,
         {txUser', txThread', sync'} \subseteq Threads \cup {None},
         heard' \in {"xon", "xoff", "missed"}, astray' \in {"no", "xon", "flow", "configure"}
  PROVE  TypeOK'
BY DEF TypeOK, Records

(* What a thread does with the link that is no user of it yet, as a part   *)
(* of j: it has just begun, or has left the queue.                         *)
Ready(t, j, H) ==
  /\ Acts(t, H)
  /\ j \in JobsOf(t) /\ j # "none"
  /\ j = "hold" <=> th[t].job = "hold"
  /\ th[t].rc # "FC_Xon"
  /\ th[t].at \in {"idle", "start", "queue", "receive"}
  /\ t = Manager => th[t].at = "queue" \/ (high = <<>> /\ th[t].at = "idle")

(* The others, when t's record and its share in the link change.           *)
Apart(t) ==
  /\ \A x \in Threads : x # t => th'[x] = th[x] /\ (In(high', x) <=> In(high, x))
  /\ \A x \in Threads : x # t => (In(txQueue', x) <=> In(txQueue, x))
  /\ txThread' \in {txThread, t, None}
  /\ txUser' \in {txUser, t, None}

LEMMA OthersApart ==
  ASSUME LInv, NEW t \in Threads, Apart(t)
  PROVE  \A x \in Threads : x # t => Own(x)' /\ (Believes(x)' <=> Believes(x))
<1>1. ASSUME NEW x \in Threads, x # t
      PROVE  Own(x)' /\ (Believes(x)' <=> Believes(x))
  <2>1. x # None
    BY Threaded DEF Special
  <2>2. Spared(x)
    BY <1>1, <2>1 DEF Apart, Spared
  <2>3. Own(x)
    BY DEF LInv
  <2> QED
    BY <2>2, <2>3, OwnSpared
<1> QED
  BY <1>1

(* The order of the run queue when t leaves it.                            *)
LEMMA OrderLeft ==
  ASSUME NEW t \in Threads, NEW H, Acts(t, H), th[t].rc # "FC_Xon", high' = H
  PROVE  AheadKept
BY DEF Acts, AheadKept

LEMMA OrderJoined ==
  ASSUME NEW t \in Threads, NEW H, NEW r \in Seq(Threads), Acts(t, H), th[t].rc # "FC_Xon",
         high' = H \o r
  PROVE  AheadKept
<1>1. \A u, w \in Workers : th[u].rc = "FC_Xon" /\ Ahead(high, u, w) => Ahead(H, u, w) /\ H \in Seq(Threads)
  BY DEF Acts
<1> QED
  BY <1>1, AheadJoined DEF AheadKept

(* Messages stay behind what is urgent.                                    *)
LEMMA UrgentAppend ==
  ASSUME TypeOK, UrgentFirst, NEW t \in Threads, ~In(txQueue, t), txQueue' = Append(txQueue, t),
         th'[t].job \notin Urgent, \A x \in Threads : x # t => th'[x] = th[x]
  PROVE  UrgentFirst'
<1>1. /\ Len(txQueue) \in Nat /\ Len(Append(txQueue, t)) = Len(txQueue) + 1
      /\ \A i \in 1 .. Len(txQueue) : Append(txQueue, t)[i] = txQueue[i]
      /\ Append(txQueue, t)[Len(txQueue) + 1] = t
      /\ \A i \in 1 .. Len(txQueue) : txQueue[i] \in Threads
  BY TypeParts, AppendProperties, LenProperties, ElementOfSeq
<1>2. \A i \in 1 .. Len(txQueue) : th'[txQueue[i]] = th[txQueue[i]]
  BY <1>1 DEF In
<1>3. ASSUME NEW i \in 1 .. Len(txQueue'), NEW k \in 1 .. Len(txQueue'), i < k,
             th'[txQueue'[k]].job \in Urgent
      PROVE  th'[txQueue'[i]].job \in Urgent
  <2>1. k # Len(txQueue) + 1
    BY <1>1, <1>3
  <2>2. i \in 1 .. Len(txQueue) /\ k \in 1 .. Len(txQueue)
    BY <1>1, <1>3, <2>1
  <2> QED
    BY <1>1, <1>2, <1>3, <2>2 DEF UrgentFirst
<1> QED
  BY <1>3 DEF UrgentFirst, Urgent

LEMMA UrgentPush ==
  ASSUME TypeOK, UrgentFirst, NEW t \in Threads, ~In(txQueue, t), txQueue' = <<t>> \o txQueue,
         th'[t].job \in Urgent, \A x \in Threads : x # t => th'[x] = th[x]
  PROVE  UrgentFirst'
<1>1. /\ Len(txQueue) \in Nat /\ Len(<<t>> \o txQueue) = Len(txQueue) + 1
      /\ (<<t>> \o txQueue)[1] = t
      /\ \A i \in 1 .. Len(txQueue) + 1 : i > 1 => (<<t>> \o txQueue)[i] = txQueue[i - 1]
      /\ \A i \in 1 .. Len(txQueue) : txQueue[i] \in Threads
  BY TypeParts, LenProperties, ElementOfSeq
<1>2. \A i \in 1 .. Len(txQueue) : th'[txQueue[i]] = th[txQueue[i]]
  BY <1>1 DEF In
<1>3. ASSUME NEW i \in 1 .. Len(txQueue'), NEW k \in 1 .. Len(txQueue'), i < k,
             th'[txQueue'[k]].job \in Urgent
      PROVE  th'[txQueue'[i]].job \in Urgent
  <2>1. CASE i = 1
    BY <1>1, <2>1
  <2>2. CASE i # 1
    <3>1. i - 1 \in 1 .. Len(txQueue) /\ k - 1 \in 1 .. Len(txQueue) /\ i - 1 < k - 1
      BY <1>1, <1>3, <2>2
    <3>2. txQueue'[i] = txQueue[i - 1] /\ txQueue'[k] = txQueue[k - 1]
      BY <1>1, <1>3, <2>2
    <3> QED
      BY <1>2, <1>3, <3>1, <3>2 DEF UrgentFirst
  <2> QED
    BY <2>1, <2>2
<1> QED
  BY <1>3 DEF UrgentFirst, Urgent

(* The queue with some gone, in the order it was.                          *)
Sublist(r, q) ==
  \A a, b \in 1 .. Len(r) : a < b => \E i, k \in 1 .. Len(q) : i < k /\ q[i] = r[a] /\ q[k] = r[b]

LEMMA UrgentLess ==
  ASSUME UrgentFirst, Sublist(txQueue', txQueue),
         \A i \in 1 .. Len(txQueue') : th'[txQueue'[i]].job = th[txQueue'[i]].job
  PROVE  UrgentFirst'
<1>1. ASSUME NEW a \in 1 .. Len(txQueue'), NEW b \in 1 .. Len(txQueue'), a < b,
             th'[txQueue'[b]].job \in Urgent
      PROVE  th'[txQueue'[a]].job \in Urgent
  <2>1. PICK i, k \in 1 .. Len(txQueue) : i < k /\ txQueue[i] = txQueue'[a] /\ txQueue[k] = txQueue'[b]
    BY <1>1 DEF Sublist
  <2>2. th[txQueue[k]].job \in Urgent
    BY <1>1, <2>1
  <2>3. th[txQueue[i]].job \in Urgent
    BY <2>1, <2>2 DEF UrgentFirst
  <2> QED
    BY <2>1, <2>3
<1> QED
  BY <1>1 DEF UrgentFirst, Urgent

----------------------------------------------------------------------------
(* Joining the queue.                                                      *)
Joins(t, j) ==
  \/ j \notin Urgent /\ txQueue' = Append(txQueue, t)
  \/ j \in Urgent /\ txQueue' = <<t>> \o txQueue

LEMMA QueueList ==
  ASSUME TypeOK, NEW t \in Threads, Once(txQueue), ~In(txQueue, t), NEW j, Joins(t, j)
  PROVE  /\ txQueue' \in Seq(Threads) /\ Once(txQueue')
         /\ \A x : In(txQueue', x) <=> In(txQueue, x) \/ x = t
<1>1. CASE txQueue' = Append(txQueue, t)
  BY <1>1, TypeParts, AppendList
<1>2. CASE txQueue' = <<t>> \o txQueue
  BY <1>2, TypeParts, PushFirst
<1> QED
  BY <1>1, <1>2 DEF Joins

LEMMA JoinIsJoin ==
  ASSUME TypeOK, NEW t \in Threads, ~In(txQueue, t), NEW j, Joins(t, j),
         txUser # None, txUser' = txUser, Served' = Served
  PROVE  Lock!Next
<1>1. t \notin Lock!Waiting
  BY DEF Lock!Waiting, In
<1>2. Lock!Join(t)
  BY <1>1 DEF Lock!Join, Joins
<1> QED
  BY <1>2 DEF Lock!Next

(* The guardian and the manager, when the link's mode stays.               *)
LEMMA GuardedQueue ==
  ASSUME Guarded, NEW t \in Threads, NEW j, NEW H, Ready(t, j, H), Apart(t),
         mode' = mode, sync' = sync, th'[t].at = "queue" \/ t \notin {Guardian, Manager}
  PROVE  Guarded' /\ Served' = Served
<1>1. CASE t \notin {Guardian, Manager}
  BY <1>1, GuardedSame, Threaded DEF Apart, Special, Served
<1>2. CASE t = Guardian /\ th'[t].at = "queue"
  <2>1. th[Guardian].at \in {"start", "idle", "queue", "receive"} /\ sync # Guardian
    BY <1>2 DEF Ready, Acts
  <2>2. th'[Manager] = th[Manager] /\ (In(high', Manager) <=> In(high, Manager))
    BY <1>2, Threaded DEF Apart, Special
  <2> QED
    BY <1>2, <2>1, <2>2 DEF Guarded, Served
<1>3. CASE t = Manager /\ th'[t].at = "queue"
  <2>1. /\ th'[Guardian] = th[Guardian] /\ (In(high', Guardian) <=> In(high, Guardian))
        /\ sync # Manager
    BY <1>3, Threaded DEF Apart, Special, Ready, Acts
  <2>2. th[Manager].at = "queue" \/ ~In(high, Guardian)
    BY <1>3 DEF Ready, In
  <2>3. th[Manager].at \in {"queue", "idle"}
    BY <1>3 DEF Ready
  <2> QED
    BY <1>3, <2>1, <2>2, <2>3 DEF Guarded, Served
<1> QED
  BY <1>1, <1>2, <1>3

Still == xoffed' \in BOOLEAN /\ heard' = heard /\ astray' = astray

LEMMA QueueStep ==
  ASSUME TypeOK, LInv, Sound, NEW t \in Threads, NEW j, NEW d \in {"none", "set"}, NEW H,
         Ready(t, j, H), Joins(t, j), Queue(t, j, d, txQueue', H),
         j = "dumb" => d = "none", txUser # None, txUser # t, Still
  PROVE  Orderly
<1>0. /\ LInv /\ TypeOK /\ Acts(t, H) /\ j \in JobsOf(t) /\ j # "none" /\ j \in Jobs
      /\ UNCHANGED <<mode, stopped, txUser, txThread, sync>>
      /\ running' = (running /\ t # Guardian)
      /\ Becomes(t, For(t, j, "queue", d, 0), H)
      /\ H \in Seq(Threads) /\ Once(H) /\ ~In(H, t) /\ ~In(txQueue, t) /\ txThread # t
  BY JobsType DEF Queue, Ready, Acts
<1> DEFINE r == For(t, j, "queue", d, 0)
<1>1. /\ r \in Records /\ r.job = j /\ r.at = "queue" /\ r.rc = "null" /\ r.endtime = d
  <2>1. At(j, "queue", d, 0) \in Records
    BY <1>0, AtType DEF Places
  <2>2. Saw(t) \in BOOLEAN
    BY <1>0, TypeParts DEF Saw, Records
  <2>3. (j = "dumb" /\ Saw(t)) \in BOOLEAN
    BY <2>2
  <2> QED
    BY <2>1, <2>3 DEF For, Records, At
<1>2. /\ th' \in [Threads -> Records] /\ th'[t] = r /\ high' = H
      /\ \A x \in Threads : x # t => th'[x] = th[x]
  BY <1>0, <1>1, SetRecord
<1> HIDE DEF r
<1>3. /\ txQueue' \in Seq(Threads) /\ Once(txQueue')
      /\ \A x : In(txQueue', x) <=> In(txQueue, x) \/ x = t
  BY <1>0, QueueList DEF LInv
<1>4. Apart(t)
  BY <1>0, <1>2, <1>3 DEF Apart, Acts
<1>5. TypeOK'
  <2>1. running \in BOOLEAN /\ mode \in {"intelligent", "dumb"} /\ stopped \in BOOLEAN
        /\ heard \in {"xon", "xoff", "missed"} /\ astray \in {"no", "xon", "flow", "configure"}
        /\ {txUser, txThread, sync} \subseteq Threads \cup {None}
    BY <1>0 DEF TypeOK
  <2> QED
    BY <1>0, <1>2, <1>3, <2>1, NewTypes DEF Still
<1>6. UrgentFirst'
  <2>1. UrgentFirst /\ th'[t].job = j
    BY <1>0, <1>1, <1>2 DEF LInv
  <2> QED
    BY <1>0, <1>2, <2>1, UrgentAppend, UrgentPush DEF Joins
<1>7. ASSUME NEW x \in Threads
      PROVE  Own(x)' /\ (Believes(x)' => txUser' = x)
  <2>1. CASE x # t
    BY <1>0, <1>4, <2>1, OthersApart DEF Sound, Unseated
  <2>2. CASE x = t
    <3>1. ~Believes(t)'
      BY <1>0, <1>1, <1>2 DEF Believes
    <3>2. Shape(t)'
      <4>1. j \in {"put", "hold", "dumb", "reply", "info", "flow_xoff", "flow_xon"}
        BY <1>0 DEF Jobs, Transfers
      <4>2. "queue" \in PlacesOf(t, j)
        BY <1>0, <4>1 DEF PlacesOf
      <4> QED
        BY <1>0, <1>1, <1>2, <4>2 DEF Shape
    <3>3. Placed(t)'
      BY <1>0, <1>1, <1>2, <1>3, <3>1 DEF Placed
    <3> QED
      BY <2>2, <3>1, <3>2, <3>3 DEF Own
  <2> QED
    BY <2>1, <2>2
<1>8. Guarded' /\ Served' = Served
  BY <1>0, <1>1, <1>2, <1>4, GuardedQueue DEF LInv
<1>9. Heard'
  <2>1. AheadKept
    BY <1>0, <1>2, OrderLeft DEF Ready
  <2>2. ASSUME NEW x \in Workers
        PROVE  HoldKept(x)
    <3>1. CASE x # t
      BY <1>2, <3>1, Threaded DEF HoldKept
    <3>2. CASE x = t
      BY <1>1, <1>2, <3>2 DEF HoldKept, Ready
    <3> QED
      BY <3>1, <3>2
  <2>3. HeardSame
    BY <2>1, <2>2 DEF HeardSame, Still
  <2> QED
    BY <2>3, HeardKept DEF LInv
<1>10. ~Ghost'
  <2>1. th[t].at \notin {"stop", "tx"}
    BY DEF Ready
  <2>2. StopSame
    BY <1>0, <1>2, <2>1, Threaded DEF StopSame
  <2> QED
    BY <2>2, NoGhost DEF Sound
<1>11. Lock!Next
  BY <1>0, <1>8, JoinIsJoin
<1>12. Resumed
  BY <1>0 DEF Resumed
<1>13. WakersFindIt'
  BY DEF WakersFindIt, Sound, Still
<1> QED
  BY <1>2, <1>0, <1>3, <1>5, <1>6, <1>7, <1>8, <1>9, <1>10, <1>11, <1>12, <1>13 DEF Orderly

----------------------------------------------------------------------------
(* A program or a worker that has the link, or takes it, sends or waits.   *)
Takes(t, r, H) ==
  /\ Acts(t, H) /\ th[t].rc # "FC_Xon" /\ t \in Programs \cup Workers
  /\ Becomes(t, r, H)
  /\ r \in Records /\ r.job \in JobsOf(t) /\ r.at \in PlacesOf(t, r.job)
  /\ r.job = "hold" <=> th[t].job = "hold"
  /\ r.rc # "FC_Xon"
  /\ r.rc = "FC_LinkTx" => r.job = "hold" /\ r.at = "tx"
  /\ r.endtime = "set" => r.at = "tx"
  /\ \/ (r.at = "tx") /\ (r.left >= 1) /\ (txThread' = t) /\ (stopped' = stopped)
     \/ (r.at = "stop") /\ (r.job = "hold") /\ (txThread' = txThread) /\ (stopped' \in {TRUE, stopped})
  /\ txUser' = t
  /\ UNCHANGED <<mode, running, txQueue, sync>>

LEMMA TakeStep ==
  ASSUME TypeOK, LInv, Sound, NEW t \in Threads, NEW r, NEW H, Takes(t, r, H),
         txUser \in {None, t}, Still
  PROVE  Orderly
<1>0. /\ Acts(t, H) /\ r \in Records /\ Becomes(t, r, H) /\ r.at \in {"tx", "stop"} /\ txUser' = t
      /\ UNCHANGED <<mode, running, txQueue, sync>> /\ txThread' \in {t, txThread}
      /\ stopped' \in {TRUE, stopped} /\ th[t].rc # "FC_Xon" /\ r.rc # "FC_Xon"
      /\ r.job = "hold" <=> th[t].job = "hold"
      /\ t \in Programs \cup Workers
  BY DEF Takes
<1>1. /\ \A x \in Threads : x # t => ~Believes(x) /\ txUser # x
      /\ txThread = None
      /\ \A x \in Holders : x = t
      /\ stopped => t \in Holders
  BY <1>0, Alone
<1>2. /\ th' \in [Threads -> Records] /\ th'[t] = r /\ high' = H
      /\ \A x \in Threads : x # t => th'[x] = th[x]
  BY <1>0, SetRecord
<1>3. H \in Seq(Threads) /\ Once(H) /\ ~In(H, t) /\ ~In(txQueue, t)
      /\ \A x \in Threads : x # t => (In(H, x) <=> In(high, x))
  BY <1>0 DEF Acts
<1>4. Apart(t)
  BY <1>0, <1>2, <1>3 DEF Apart
<1>5. TypeOK'
  <2>1. running \in BOOLEAN /\ mode \in {"intelligent", "dumb"} /\ stopped' \in BOOLEAN
        /\ heard \in {"xon", "xoff", "missed"} /\ astray \in {"no", "xon", "flow", "configure"}
        /\ {txUser, txThread, sync} \subseteq Threads \cup {None}
        /\ txQueue \in Seq(Threads)
    BY <1>0 DEF TypeOK
  <2> QED
    BY <1>0, <1>2, <1>3, <2>1, NewTypes DEF Still
<1>6. UrgentFirst'
  <2>1. UrgentFirst
    BY DEF LInv
  <2>2. \A i \in 1 .. Len(txQueue) : txQueue[i] \in Threads
    BY TypeParts, ElementOfSeq
  <2>3. \A i \in 1 .. Len(txQueue) : th'[txQueue[i]] = th[txQueue[i]]
    BY <1>2, <1>3, <2>2 DEF In
  <2> QED
    BY <1>0, <2>1, <2>3 DEF UrgentFirst, Urgent
<1>7. ASSUME NEW x \in Threads
      PROVE  Own(x)' /\ (Believes(x)' => txUser' = x)
  <2>1. CASE x # t
    BY <1>1, <1>4, <2>1, OthersApart
  <2>2. CASE x = t
    <3>1. Believes(t)'
      BY <1>0, <1>2 DEF Believes
    <3>2. Shape(t)'
      BY <1>0, <1>2 DEF Shape, Takes
    <3>3. Placed(t)'
      <4>1. txThread' = t => r.at = "tx" /\ r.left >= 1
        BY <1>1, Threaded DEF Takes, Special
      <4> QED
        BY <1>0, <1>2, <1>3, <3>1, <4>1 DEF Placed
    <3> QED
      BY <1>0, <2>2, <3>2, <3>3 DEF Own
  <2> QED
    BY <2>1, <2>2
<1>8. Guarded' /\ Served' = Served
  <2>1. t # Guardian /\ t # Manager
    BY <1>0, Threaded
  <2> QED
    BY <1>0, <1>2, <1>3, <2>1, GuardedSame, Threaded DEF LInv, Served, Special
<1>9. Heard'
  <2>1. AheadKept
    BY <1>0, <1>2, OrderLeft
  <2>2. ASSUME NEW x \in Workers
        PROVE  HoldKept(x)
    <3>1. CASE x # t
      BY <1>2, <3>1, Threaded DEF HoldKept
    <3>2. CASE x = t
      BY <1>0, <1>2, <3>2 DEF HoldKept
    <3> QED
      BY <3>1, <3>2
  <2>3. HeardSame
    BY <2>1, <2>2 DEF HeardSame, Still
  <2> QED
    BY <2>3, HeardKept DEF LInv
<1>10. ~Ghost'
  <2>1. CASE r.job = "hold"
    <3>1. t \in Workers
      BY <1>0, <2>1, Threaded DEF Takes, JobsOf
    <3> QED
      BY <1>0, <1>2, <2>1, <3>1 DEF Ghost, Holders
  <2>2. CASE r.job # "hold"
    <3>1. ~stopped
      BY <1>0, <1>1, <2>2 DEF Holders
    <3> QED
      BY <2>2, <3>1 DEF Ghost, Takes
  <2> QED
    BY <2>1, <2>2
<1>11. Lock!Next \/ UNCHANGED lock
  <2>1. CASE txUser = None
    <3>1. Lock!Acquire(t)
      BY <1>0, <1>8, <2>1 DEF Lock!Acquire
    <3> QED
      BY <3>1 DEF Lock!Next
  <2>2. CASE txUser = t
    BY <1>0, <1>8, <2>2 DEF lock
  <2> QED
    BY <2>1, <2>2
<1>12. Resumed
  BY <1>1 DEF Resumed
<1>13. Once(high') /\ Once(txQueue')
  BY <1>0, <1>2, <1>3 DEF LInv
<1>14. WakersFindIt'
  BY DEF WakersFindIt, Sound, Still
<1> QED
  BY <1>2, <1>5, <1>6, <1>7, <1>8, <1>9, <1>10, <1>11, <1>12, <1>13, <1>14 DEF Orderly

LEMMA UseStep ==
  ASSUME TypeOK, LInv, Sound, NEW t \in Threads, NEW j, NEW H, Ready(t, j, H), j # "dumb",
         Use(t, j, t, H), txUser \in {None, t}, Still
  PROVE  Orderly
<1>0. /\ Acts(t, H) /\ th[t].rc # "FC_Xon" /\ j \in JobsOf(t) /\ j # "none" /\ j \in Jobs
      /\ j = "hold" <=> th[t].job = "hold"
  BY JobsType DEF Ready
<1>1. t \in Programs \cup Workers
  BY <1>0 DEF JobsOf
<1>2. CASE j \in Transfers /\ Transmit(t, t, At(j, "tx", "set", Parts(j)), H) /\ UNCHANGED flags
  <2> DEFINE r == At(j, "tx", "set", Parts(j))
  <2>1. r \in Records /\ r.job = j /\ r.at = "tx" /\ r.rc = "null" /\ r.left >= 1
    <3>1. Parts(j) \in 1 .. 2
      BY DEF Parts
    <3>2. r \in Records
      BY <1>0, <3>1, AtType DEF Places
    <3> QED
      BY <3>1, <3>2 DEF At
  <2>2. "tx" \in PlacesOf(t, j)
    BY <1>0, <1>2 DEF PlacesOf, Transfers
  <2>3. Becomes(t, r, H) /\ txUser' = t /\ txThread' = t /\ UNCHANGED <<mode, running, stopped, txQueue, sync>>
    BY <1>2 DEF Transmit, flags
  <2> HIDE DEF r
  <2>4. Takes(t, r, H)
    BY <1>0, <1>1, <2>1, <2>2, <2>3 DEF Takes
  <2> QED
    BY <2>4, TakeStep
<1>3. CASE j = "hold" /\ stopped' = TRUE /\ txUser' = t /\ Becomes(t, At("hold", "stop", "none", 0), H)
           /\ UNCHANGED <<mode, running, txQueue, txThread, sync>>
  <2> DEFINE r == At("hold", "stop", "none", 0)
  <2>1. r \in Records /\ r.job = "hold" /\ r.at = "stop" /\ r.rc = "null" /\ r.endtime = "none"
    <3>1. r \in Records
      BY AtType DEF Jobs, Places
    <3> QED
      BY <3>1 DEF At
  <2>2. "stop" \in PlacesOf(t, "hold")
    BY DEF PlacesOf
  <2>3. Becomes(t, r, H) /\ txUser' = t
    BY <1>3
  <2> HIDE DEF r
  <2>4. Takes(t, r, H)
    BY <1>0, <1>1, <1>3, <2>1, <2>2, <2>3 DEF Takes
  <2> QED
    BY <2>4, TakeStep
<1> QED
  BY <1>2, <1>3 DEF Use

(* A thread that waits for the link or has it at once.                     *)
LEMMA WaitLinkStep ==
  ASSUME TypeOK, LInv, Sound, NEW t \in Threads, NEW j, NEW d \in {"none", "set"}, NEW H,
         Ready(t, j, H), j \in {"put", "reply"}, WaitLink(t, j, d, H), ~Believes(t), Still
  PROVE  Orderly
<1>1. txUser # t
  BY DEF LInv, Own, Placed
<1>2. CASE txUser = None
  BY <1>2, UseStep DEF WaitLink
<1>3. CASE txUser # None
  <2>1. Queue(t, j, d, txQueue', H) /\ txQueue' = Append(txQueue, t)
    BY <1>3 DEF WaitLink, Queue
  <2>2. Joins(t, j)
    BY <2>1 DEF Joins, Urgent
  <2> QED
    BY <1>1, <1>3, <2>1, <2>2, QueueStep
<1> QED
  BY <1>2, <1>3

LEMMA JumpQueueStep ==
  ASSUME TypeOK, LInv, Sound, NEW t \in Threads, NEW j, NEW H,
         Ready(t, j, H), j \notin {"put", "reply"}, JumpLink(t, j, H), ~Believes(t), Still,
         j # "dumb" \/ txUser # None
  PROVE  Orderly
<1>1. txUser # t
  BY DEF LInv, Own, Placed
<1>2. CASE txUser = None
  BY <1>2, UseStep DEF JumpLink
<1>3. CASE txUser # None
  <2>1. Queue(t, j, "none", txQueue', H) /\ txQueue' = <<t>> \o txQueue
    BY <1>3 DEF JumpLink, Queue
  <2>2. Joins(t, j)
    BY <2>1, JobsType DEF Joins, Urgent, Ready
  <2> QED
    BY <1>1, <1>3, <2>1, <2>2, QueueStep
<1> QED
  BY <1>2, <1>3

----------------------------------------------------------------------------
(* A thread is done.                                                       *)
LEMMA HeardIdle ==
  ASSUME Heard, NEW t \in Threads, th[t].job # "hold" \/ th[t].rc = "FC_Xon",
         th'[t].job # "hold", th'[t].rc # "FC_Xon", \A x \in Threads : x # t => th'[x] = th[x],
         \A u, w \in Workers : u # t /\ Ahead(high, u, w) => Ahead(high', u, w),
         heard' = heard
  PROVE  Heard'
<1>0. \A x \in Workers : x # t => th'[x] = th[x]
  BY Threaded
<1>1. ASSUME heard' = "xoff"
      PROVE  \E w \in Workers :
                /\ Holding(w)'
                /\ th'[w].at = "start" => \A u \in Workers : th'[u].rc = "FC_Xon" => Ahead(high', u, w)
  <2>1. PICK w \in Workers : /\ Holding(w)
                             /\ th[w].at = "start" => \A u \in Workers : th[u].rc = "FC_Xon" => Ahead(high, u, w)
    BY <1>1 DEF Heard
  <2>2. w # t
    BY <2>1 DEF Holding
  <2>3. Holding(w)' /\ (th'[w].at = "start" => th[w].at = "start")
    BY <1>0, <2>1, <2>2 DEF Holding
  <2>4. ASSUME th'[w].at = "start", NEW u \in Workers, th'[u].rc = "FC_Xon"
        PROVE  Ahead(high', u, w)
    <3>1. u # t /\ th[u].rc = "FC_Xon"
      BY <1>0, <2>4
    <3> QED
      BY <2>1, <2>3, <2>4, <3>1
  <2> QED
    BY <2>3, <2>4
<1>2. ASSUME heard' = "xon", NEW w \in Workers, th'[w].job = "hold"
      PROVE  th'[w].rc = "FC_Xon"
  BY <1>0, <1>2 DEF Heard
<1> QED
  BY <1>1, <1>2 DEF Heard

LEMMA IdleShape ==
  /\ Idle \in Records /\ Idle.job = "none" /\ Idle.at = "idle" /\ Idle.rc = "null"
  /\ Idle.endtime = "none" /\ Idle.left = 0
BY AtType DEF Idle, At, Jobs, Places, Records, Results

(* ... without having had the link.                                        *)
LEMMA QuitStep ==
  ASSUME TypeOK, LInv, Sound, NEW t \in Threads, NEW H, Acts(t, H), Becomes(t, Idle, H),
         t \in Programs \cup Workers, ~Believes(t), Heard', WakersFindIt',
         xoffed' \in BOOLEAN, heard' = heard, astray' \in {"no", "xon", "flow", "configure"},
         UNCHANGED <<flags, txUser, txQueue, txThread, sync>>
  PROVE  Orderly
<1>0. /\ UNCHANGED <<mode, running, stopped, txUser, txQueue, txThread, sync>> /\ txUser # t
  BY DEF flags, LInv, Own, Placed
<1>1. /\ th' \in [Threads -> Records] /\ th'[t] = Idle /\ high' = H
      /\ \A x \in Threads : x # t => th'[x] = th[x]
  BY IdleShape, SetRecord
<1>2. H \in Seq(Threads) /\ Once(H) /\ ~In(H, t) /\ ~In(txQueue, t) /\ txThread # t
      /\ \A x \in Threads : x # t => (In(H, x) <=> In(high, x))
  BY DEF Acts
<1>3. Apart(t)
  BY <1>0, <1>1, <1>2 DEF Apart
<1>4. TypeOK'
  <2>1. running \in BOOLEAN /\ mode \in {"intelligent", "dumb"} /\ stopped \in BOOLEAN
        /\ heard \in {"xon", "xoff", "missed"}
        /\ {txUser, txThread, sync} \subseteq Threads \cup {None}
        /\ txQueue \in Seq(Threads)
    BY <1>0 DEF TypeOK
  <2> QED
    BY <1>0, <1>1, <1>2, <2>1, NewTypes
<1>5. UrgentFirst'
  <2>1. UrgentFirst
    BY DEF LInv
  <2>2. \A i \in 1 .. Len(txQueue) : txQueue[i] \in Threads
    BY TypeParts, ElementOfSeq
  <2>3. \A i \in 1 .. Len(txQueue) : th'[txQueue[i]] = th[txQueue[i]]
    BY <1>1, <1>2, <2>2 DEF In
  <2> QED
    BY <1>0, <2>1, <2>3 DEF UrgentFirst, Urgent
<1>6. ASSUME NEW x \in Threads
      PROVE  Own(x)' /\ (Believes(x)' => txUser' = x)
  <2>1. CASE x # t
    BY <1>0, <1>3, <2>1, OthersApart DEF Sound, Unseated
  <2>2. CASE x = t
    <3>1. ~Believes(t)'
      BY <1>1, IdleShape DEF Believes
    <3>2. Shape(t)'
      <4>1. "none" \in JobsOf(t) /\ "idle" \in PlacesOf(t, "none")
        BY Threaded DEF JobsOf, PlacesOf
      <4> QED
        BY <1>1, <4>1, IdleShape DEF Shape
    <3>3. Placed(t)'
      BY <1>0, <1>1, <1>2, <3>1, IdleShape DEF Placed
    <3> QED
      BY <2>2, <3>1, <3>2, <3>3 DEF Own
  <2> QED
    BY <2>1, <2>2
<1>7. Guarded' /\ Served' = Served
  <2>1. t # Guardian /\ t # Manager
    BY Threaded
  <2> QED
    BY <1>0, <1>1, <1>2, <2>1, GuardedSame, Threaded DEF LInv, Served, Special
<1>8. ~Ghost'
  <2>1. StopSame
    BY <1>0, <1>1, Threaded DEF StopSame, Believes
  <2> QED
    BY <2>1, NoGhost DEF Sound
<1> QED
  BY <1>0, <1>1, <1>2, <1>4, <1>5, <1>6, <1>7, <1>8 DEF Orderly, lock, Resumed, LInv

(* ... and leaves the link to the first that waits for it.                 *)
Leaves(t, H) ==
  /\ Acts(t, H) /\ t \in Programs \cup Workers
  /\ th[t].at \in {"tx", "stop", "queue"}
  /\ th[t].job # "hold" \/ th[t].rc = "FC_Xon"
  /\ stopped' = (stopped /\ th[t].job # "hold")
  /\ running' \in BOOLEAN /\ mode' = mode
  /\ Done(t, H)

LEMMA DoneStep ==
  ASSUME TypeOK, LInv, Sound, NEW t \in Threads, NEW H, Leaves(t, H), txUser = t, Still
  PROVE  Orderly
<1> DEFINE G  == IF txQueue = <<>> THEN H ELSE Append(H, Head(txQueue))
           ex == txQueue # <<>>
           n  == Head(txQueue)
<1>0. /\ Becomes(t, Idle, G)
      /\ txUser' = IF ex THEN n ELSE None
      /\ txQueue' = IF ex THEN Tail(txQueue) ELSE <<>>
      /\ UNCHANGED <<mode, txThread, sync>> /\ running' \in BOOLEAN
      /\ stopped' = (stopped /\ th[t].job # "hold")
      /\ t \in Programs \cup Workers /\ Acts(t, H)
      /\ th[t].job # "hold" \/ th[t].rc = "FC_Xon"
  BY DEF Leaves, Done, Successor
<1>1. /\ \A x \in Threads : x # t => ~Believes(x) /\ txUser # x
      /\ txThread = None
      /\ \A x \in Holders : x = t
      /\ stopped => t \in Holders
  BY <1>0, Alone
<1>2. /\ th' \in [Threads -> Records] /\ th'[t] = Idle /\ high' = G
      /\ \A x \in Threads : x # t => th'[x] = th[x]
  BY <1>0, IdleShape, SetRecord
<1>3. H \in Seq(Threads) /\ Once(H) /\ ~In(H, t) /\ ~In(txQueue, t)
      /\ \A x \in Threads : x # t => (In(H, x) <=> In(high, x))
  BY <1>0 DEF Acts
<1>4. ex => /\ n \in Threads /\ In(txQueue, n) /\ n # t
            /\ Tail(txQueue) \in Seq(Threads) /\ Once(Tail(txQueue))
            /\ \A x : In(Tail(txQueue), x) <=> In(txQueue, x) /\ x # n
            /\ th[n].at = "queue" /\ th[n].rc = "null" /\ ~In(high, n)
  <2>1. ASSUME ex
        PROVE  /\ n \in Threads /\ In(txQueue, n)
               /\ Tail(txQueue) \in Seq(Threads) /\ Once(Tail(txQueue))
               /\ \A x : In(Tail(txQueue), x) <=> In(txQueue, x) /\ x # n
    BY <2>1, TypeParts, TailList DEF LInv
  <2>2. ASSUME ex
        PROVE  th[n].at = "queue" /\ th[n].rc = "null" /\ ~In(high, n)
    BY <2>1, <2>2 DEF LInv, Own, Placed
  <2> QED
    BY <1>3, <2>1, <2>2
<1>5. /\ G \in Seq(Threads) /\ Once(G)
      /\ \A x : In(G, x) <=> In(H, x) \/ (ex /\ x = n)
  <2>1. CASE ex
    <3>1. ~In(H, n)
      BY <1>3, <1>4, <2>1
    <3>2. /\ Append(H, n) \in Seq(Threads) /\ Once(Append(H, n))
          /\ \A x : In(Append(H, n), x) <=> In(H, x) \/ x = n
      BY <1>3, <1>4, <2>1, <3>1, AppendList
    <3> QED
      BY <2>1, <3>2
  <2>2. CASE ~ex
    BY <1>3, <2>2
  <2> QED
    BY <2>1, <2>2
<1>6. txQueue' \in Seq(Threads) /\ Once(txQueue') /\ (\A x : In(txQueue', x) <=> In(txQueue, x) /\ ~(ex /\ x = n))
  <2>1. CASE ex
    BY <1>0, <1>4, <2>1
  <2>2. CASE ~ex
    BY <1>0, <2>2 DEF Once, In
  <2> QED
    BY <2>1, <2>2
<1>7. Sublist(txQueue', txQueue)
  <2>1. ASSUME ex
        PROVE  /\ Len(txQueue) \in Nat \ {0} /\ Len(Tail(txQueue)) = Len(txQueue) - 1
               /\ \A i \in 1 .. Len(txQueue) - 1 : Tail(txQueue)[i] = txQueue[i + 1]
    BY <2>1, TypeParts, TailList
  <2>2. ASSUME ex, NEW a \in 1 .. Len(Tail(txQueue)), NEW b \in 1 .. Len(Tail(txQueue)), a < b
        PROVE  \E i, k \in 1 .. Len(txQueue) :
                 i < k /\ txQueue[i] = Tail(txQueue)[a] /\ txQueue[k] = Tail(txQueue)[b]
    <3>1. /\ a + 1 \in 1 .. Len(txQueue) /\ b + 1 \in 1 .. Len(txQueue) /\ a + 1 < b + 1
          /\ txQueue[a + 1] = Tail(txQueue)[a] /\ txQueue[b + 1] = Tail(txQueue)[b]
      BY <2>1, <2>2
    <3> QED
      BY <3>1
  <2>3. CASE ex
    BY <1>0, <2>2, <2>3 DEF Sublist
  <2>4. CASE ~ex
    BY <1>0, <2>4 DEF Sublist
  <2> QED
    BY <2>3, <2>4
<1> HIDE DEF G, ex, n
<1>8. TypeOK'
  <2>1. mode \in {"intelligent", "dumb"} /\ stopped' \in BOOLEAN
        /\ heard \in {"xon", "xoff", "missed"} /\ astray \in {"no", "xon", "flow", "configure"}
        /\ {txThread, sync} \subseteq Threads \cup {None}
    BY <1>0 DEF TypeOK
  <2>2. txUser' \in Threads \cup {None}
    BY <1>0, <1>4
  <2> QED
    BY <1>0, <1>2, <1>5, <1>6, <2>1, <2>2, NewTypes DEF Still
<1>9. UrgentFirst'
  <2>1. \A i \in 1 .. Len(txQueue') : txQueue'[i] \in Threads /\ txQueue'[i] # t
    BY <1>3, <1>6, ElementOfSeq DEF In
  <2> QED
    BY <1>2, <1>7, <2>1, UrgentLess DEF LInv
<1>10. ASSUME NEW x \in Threads
       PROVE  Own(x)' /\ (Believes(x)' => txUser' = x)
  <2>0. x # None /\ Own(x)
    BY Threaded DEF Special, LInv
  <2>1. CASE x # t /\ ~(ex /\ x = n)
    <3>1. Spared(x)
      BY <1>0, <1>1, <1>2, <1>3, <1>5, <1>6, <2>0, <2>1 DEF Spared
    <3> QED
      BY <1>1, <2>0, <2>1, <3>1, OwnSpared
  <2>2. CASE ex /\ x = n
    <3>1. th'[x] = th[x] /\ In(high', x) /\ ~In(txQueue', x) /\ txThread' # x /\ txUser' = x
      BY <1>0, <1>1, <1>2, <1>4, <1>5, <1>6, <2>0, <2>2
    <3>2. Believes(x)'
      BY <1>4, <2>2, <3>1 DEF Believes
    <3>3. Shape(x)'
      BY <2>0, <3>1 DEF Own, Shape
    <3>4. Placed(x)'
      BY <1>4, <2>2, <3>1, <3>2 DEF Placed
    <3> QED
      BY <3>1, <3>3, <3>4 DEF Own
  <2>3. CASE x = t
    <3>0. ~(ex /\ t = n)
      BY <1>4
    <3>1. th'[t] = Idle /\ ~In(high', t) /\ ~In(txQueue', t) /\ txThread' # t /\ txUser' # t
      BY <1>0, <1>1, <1>2, <1>3, <1>4, <1>5, <1>6, <2>0, <2>3, <3>0
    <3>2. ~Believes(t)'
      BY <3>1, IdleShape DEF Believes
    <3>3. Shape(t)'
      <4>1. "none" \in JobsOf(t) /\ "idle" \in PlacesOf(t, "none")
        BY <1>0, Threaded DEF JobsOf, PlacesOf
      <4> QED
        BY <3>1, <4>1, IdleShape DEF Shape
    <3>4. Placed(t)'
      BY <3>1, <3>2, IdleShape DEF Placed
    <3> QED
      BY <2>3, <3>2, <3>3, <3>4 DEF Own
  <2> QED
    BY <2>1, <2>2, <2>3
<1>11. Guarded' /\ Served' = Served
  <2>1. t # Guardian /\ t # Manager
    BY <1>0, Threaded
  <2>2. \A x \in {Guardian, Manager} : th'[x] = th[x] /\ x \in Threads
    BY <1>2, <2>1, Threaded DEF Special
  <2>3. \/ (In(high', Guardian) <=> In(high, Guardian)) /\ (In(high', Manager) <=> In(high, Manager))
        \/ ex /\ n \in {Guardian, Manager}
    BY <1>2, <1>3, <1>5, <2>1, <2>2
  <2>4. CASE (In(high', Guardian) <=> In(high, Guardian)) /\ (In(high', Manager) <=> In(high, Manager))
    BY <1>0, <2>2, <2>4, GuardedSame DEF LInv, Served
  <2>5. CASE ex /\ n \in {Guardian, Manager}
    <3>1. th[n].at = "queue" /\ (\A x \in {Guardian, Manager} : x # n => (In(high', x) <=> In(high, x)))
          /\ (In(high', n)) /\ (n = Guardian => sync # Guardian)
      BY <1>2, <1>3, <1>4, <1>5, <2>1, <2>2, <2>5 DEF LInv, Guarded
    <3> QED
      BY <1>0, <2>2, <2>5, <3>1, Threaded DEF LInv, Guarded, Served
  <2> QED
    BY <2>3, <2>4, <2>5
<1>12. Heard'
  <2>1. ASSUME NEW u \in Workers, NEW w \in Workers, u # t, Ahead(high, u, w)
        PROVE  Ahead(high', u, w)
    <3>1. Ahead(H, u, w)
      BY <1>0, <2>1 DEF Acts
    <3>2. CASE ex
      <4>1. high' = H \o <<n>> /\ <<n>> \in Seq(Threads)
        BY <1>2, <1>3, <1>4, <3>2, AppendIsJoin DEF G, ex, n
      <4> QED
        BY <1>3, <3>1, <4>1, AheadJoined
    <3>3. CASE ~ex
      BY <1>2, <3>1, <3>3 DEF G, ex
    <3> QED
      BY <3>2, <3>3
  <2> QED
    BY <1>0, <1>2, <2>1, IdleShape, HeardIdle DEF LInv, Still
<1>13. ~Ghost'
  <2>1. CASE th[t].job = "hold"
    BY <1>0, <2>1 DEF Ghost
  <2>2. CASE th[t].job # "hold"
    BY <1>0, <1>1, <2>2 DEF Ghost, Holders
  <2> QED
    BY <2>1, <2>2
<1>14. Lock!Next
  <2>1. CASE ex
    <3>1. Lock!HandOver
      BY <1>0, <1>11, <2>1 DEF Lock!HandOver, ex, n
    <3> QED
      BY <3>1 DEF Lock!Next
  <2>2. CASE ~ex
    <3>1. Lock!Release
      BY <1>0, <1>11, <2>2 DEF Lock!Release, ex
    <3> QED
      BY <3>1 DEF Lock!Next
  <2> QED
    BY <2>1, <2>2
<1>15. Resumed
  BY <1>1 DEF Resumed
<1>16. WakersFindIt'
  BY DEF WakersFindIt, Sound, Still
<1> QED
  BY <1>2, <1>5, <1>6, <1>8, <1>9, <1>10, <1>11, <1>12, <1>13, <1>14, <1>15, <1>16 DEF Orderly

----------------------------------------------------------------------------
(* The steps of programs and workers.                                      *)
LEMMA PutMsgStep ==
  ASSUME TypeOK, LInv, Sound, NEW t \in Programs, NEW d \in {"none", "set"}, PutMsg(t, d)
  PROVE  Correct
<1>1. t \in Threads /\ t \notin {Guardian, Manager}
  BY Threaded
<1>2. Acts(t, <<>>) /\ high = <<>> /\ th[t] = Idle
  BY <1>1, RunsActs DEF PutMsg
<1>3. Ready(t, "put", <<>>)
  <2>1. "put" \in JobsOf(t)
    BY Threaded DEF JobsOf
  <2> QED
    BY <1>1, <1>2, <2>1, IdleShape DEF Ready
<1>4. ~Believes(t)
  BY <1>2, IdleShape DEF Believes
<1>5. WaitLink(t, "put", d, <<>>) /\ Still
  BY DEF PutMsg, TypeOK, Still
<1>6. Orderly
  BY <1>1, <1>3, <1>4, <1>5, WaitLinkStep
<1> QED
  BY <1>6, OrderlyCorrect

(* A worker that has begun.                                                *)
LEMMA Begun ==
  ASSUME TypeOK, LInv, NEW t \in Threads, First(t), th[t].at = "start"
  PROVE  /\ t \in Workers /\ Ready(t, th[t].job, Tail(high)) /\ ~Believes(t)
         /\ th[t].job \in {"reply", "info", "flow_xoff", "flow_xon", "hold"}
         /\ high \in Seq(Threads) /\ high # <<>> /\ Head(high) = t /\ Once(high)
<1>1. Acts(t, Tail(high)) /\ Shape(t)
  BY FirstActs DEF LInv, Own
<1>2. th[t].job \in JobsOf(t) /\ th[t].job \notin {"none", "put", "dumb"} /\ th[t].rc # "FC_Xon"
  BY <1>1 DEF Shape, PlacesOf
<1>3. t \in Workers
  BY <1>2 DEF JobsOf
<1>4. Ready(t, th[t].job, Tail(high))
  BY <1>1, <1>2, <1>3, Threaded DEF Ready
<1>5. ~Believes(t)
  BY DEF Believes
<1>6. th[t].job \in {"reply", "info", "flow_xoff", "flow_xon", "hold"}
  BY <1>2, <1>3, Threaded DEF JobsOf
<1> QED
  BY <1>3, <1>4, <1>5, <1>6 DEF First, TypeOK, LInv

(* A HandleXoff() that finds the link stopped leaves it to the one there.  *)
LEMMA HeardStopped ==
  ASSUME TypeOK, LInv, Sound, NEW t \in Workers, First(t), th[t].at = "start", th[t].job = "hold",
         stopped, heard' = heard, Becomes(t, Idle, Tail(high))
  PROVE  Heard'
<1>0. t \in Threads /\ Workers \subseteq Threads
  BY Threaded
<1>1. /\ Ready(t, th[t].job, Tail(high))
      /\ high \in Seq(Threads) /\ high # <<>> /\ Head(high) = t /\ Once(high)
  BY <1>0, Begun
<1>2. /\ Heard /\ Acts(t, Tail(high)) /\ th[t].rc # "FC_Xon"
  BY <1>1 DEF LInv, Ready
<1>3. /\ th'[t] = Idle /\ high' = Tail(high)
      /\ \A x \in Workers : x # t => th'[x] = th[x]
  BY <1>0, IdleShape, SetRecord
<1>4. heard' # "xon"
  BY <1>2 DEF Heard
<1>5. ASSUME heard' = "xoff"
      PROVE  \E w \in Workers :
                /\ Holding(w)'
                /\ th'[w].at = "start" => \A u \in Workers : th'[u].rc = "FC_Xon" => Ahead(high', u, w)
  <2>1. PICK w \in Holders : TRUE
    BY DEF Sound, Ghost
  <2>2. w \in Workers /\ th[w].job = "hold" /\ th[w].at \in {"stop", "tx"} /\ w # t
    BY <2>1 DEF Holders
  <2>3. CASE th[w].rc # "FC_Xon"
    BY <1>3, <2>2, <2>3 DEF Holding
  <2>4. CASE th[w].rc = "FC_Xon"
    <3>1. PICK v \in Workers : /\ Holding(v)
                               /\ th[v].at = "start" => \A u \in Workers : th[u].rc = "FC_Xon" => Ahead(high, u, v)
      BY <1>2, <1>5 DEF Heard
    <3>2. v # t
      <4>1. ASSUME v = t
            PROVE  Ahead(high, w, Head(high))
        BY <1>1, <2>2, <2>4, <3>1, <4>1
      <4> QED
        BY <1>1, <4>1, NoneAhead
    <3>3. Holding(v)' /\ th'[v].at = th[v].at
      BY <1>3, <3>1, <3>2 DEF Holding
    <3>4. ASSUME th'[v].at = "start", NEW u \in Workers, th'[u].rc = "FC_Xon"
          PROVE  Ahead(high', u, v)
      <4>1. u # t /\ th[u].rc = "FC_Xon"
        BY <1>3, <3>4, IdleShape
      <4>2. Ahead(high, u, v)
        BY <3>1, <3>3, <3>4, <4>1
      <4> QED
        BY <1>2, <1>3, <4>1, <4>2 DEF Acts
    <3> QED
      BY <3>3, <3>4
  <2> QED
    BY <2>3, <2>4
<1> QED
  BY <1>4, <1>5 DEF Heard

(* A worker that is no HandleXoff() goes.                                  *)
LEMMA HeardGone ==
  ASSUME TypeOK, LInv, Sound, NEW t \in Threads, NEW H, Acts(t, H), th[t].job # "hold",
         heard' = heard, Becomes(t, Idle, H)
  PROVE  Heard'
<1>1. /\ th'[t] = Idle /\ high' = H
      /\ \A x \in Threads : x # t => th'[x] = th[x]
  BY IdleShape, SetRecord
<1>2. \A u, w \in Workers : u # t /\ Ahead(high, u, w) => Ahead(high', u, w)
  BY <1>1 DEF Acts
<1> QED
  BY <1>1, <1>2, IdleShape, HeardIdle DEF LInv

LEMMA AsBefore ==
  ASSUME Sound, astray' = astray
  PROVE  WakersFindIt' /\ astray' \in {"no", "xon", "flow", "configure"}
BY DEF Sound, WakersFindIt

(* When the link is stopped there is a HandleXoff(), in charge.            *)
LEMMA StopHolder ==
  ASSUME Sound, stopped
  PROVE  txUser \in Holders /\ txUser \in Workers
<1>1. PICK w \in Holders : TRUE
  BY DEF Sound, Ghost
<1>2. Believes(w) /\ w \in Workers
  BY DEF Holders, Believes
<1> QED
  BY <1>1, <1>2, Threaded DEF Sound, Unseated

LEMMA FlowControlStep ==
  ASSUME TypeOK, LInv, Sound, NEW t \in Threads, First(t), th[t].at = "start",
         NEW c \in {"flow_xoff", "flow_xon"}, th[t].job = c, FlowControl(t, c), heard' = heard
  PROVE  Correct
<1> DEFINE H == Tail(high)
<1>0. /\ t \in Workers /\ Ready(t, c, H) /\ ~Believes(t) /\ xoffed' \in BOOLEAN
      /\ Acts(t, H) /\ t # Manager /\ t # Guardian
  BY Begun, Threaded DEF FlowControl, Ready
<1> HIDE DEF H
<1>1. CASE /\ Becomes(t, Idle, H)
           /\ UNCHANGED <<flags, txUser, txQueue, txThread, sync, astray>>
  <2>1. Heard'
    BY <1>0, <1>1, HeardGone
  <2>2. WakersFindIt' /\ astray' \in {"no", "xon", "flow", "configure"}
    BY <1>1, AsBefore
  <2>3. UNCHANGED <<flags, txUser, txQueue, txThread, sync>>
    BY <1>1
  <2>4. Orderly
    BY <1>0, <1>1, <2>1, <2>2, <2>3, QuitStep
  <2> QED
    BY <2>4, OrderlyCorrect
<1>2. CASE JumpLink(t, c, H) /\ UNCHANGED astray
  <2>1. Still
    BY <1>0, <1>2 DEF Still
  <2>2. Orderly
    BY <1>0, <1>2, <2>1, JumpQueueStep
  <2> QED
    BY <2>2, OrderlyCorrect
<1>3. CASE /\ stopped /\ ~Waits(txUser) /\ Becomes(t, Idle, H) /\ astray' = "flow"
           /\ UNCHANGED <<flags, txUser, txQueue, txThread, sync>>
  <2>1. Heard'
    BY <1>0, <1>3, HeardGone
  <2>2. WakersFindIt'
    <3>1. /\ txUser \in Workers /\ txUser \in Threads /\ txUser # None
          /\ th[txUser].job = "hold" /\ th[txUser].at \in {"stop", "tx"}
      BY <1>3, StopHolder, Threaded DEF Holders, Special
    <3>2. th[txUser].at = "tx" \/ In(high, txUser)
      BY <1>3, <3>1 DEF Waits, Suspended
    <3>3. txUser # t
      BY <3>1
    <3>4. th'[txUser] = th[txUser] /\ (In(high', txUser) <=> In(high, txUser))
      BY <1>0, <1>3, <3>1, <3>3, SetRecord, IdleShape DEF Acts
    <3>5. txUser \in Interrupted'
      BY <3>1, <3>2, <3>4 DEF Interrupted
    <3> QED
      BY <1>3, <3>5 DEF WakersFindIt
  <2>3. Orderly
    BY <1>0, <1>3, <2>1, <2>2, QuitStep
  <2> QED
    BY <2>3, OrderlyCorrect
<1>4. CASE /\ stopped /\ Waits(txUser)
           /\ th' = [th EXCEPT ![t] = Idle, ![txUser].rc = c]
           /\ high' = Append(H, txUser)
           /\ UNCHANGED <<flags, txUser, txQueue, txThread, sync, astray>>
  <2> DEFINE u == txUser
  <2>0. /\ UNCHANGED <<mode, running, stopped, txUser, txQueue, txThread, sync, astray>>
        /\ xoffed' \in BOOLEAN /\ heard' = heard
    BY <1>0, <1>4 DEF flags
  <2>1. /\ u \in Threads /\ u \in Workers /\ th[u].job = "hold" /\ th[u].at = "stop" /\ ~In(high, u) /\ u # t
        /\ u # None /\ u # Guardian /\ u # Manager
    BY <1>4, StopHolder, Threaded DEF Waits, Suspended, Special
  <2>2. H \in Seq(Threads) /\ Once(H) /\ ~In(H, t) /\ ~In(H, u) /\ ~In(txQueue, t) /\ txThread # t
        /\ \A x \in Threads : x # t => (In(H, x) <=> In(high, x))
    BY <1>0, <2>1 DEF Acts
  <2>3. /\ Append(H, u) \in Seq(Threads) /\ Once(Append(H, u))
        /\ \A x : In(Append(H, u), x) <=> In(H, x) \/ x = u
        /\ Append(H, u) = H \o <<u>> /\ <<u>> \in Seq(Threads)
    BY <2>1, <2>2, AppendList, AppendIsJoin
  <2>4. /\ th' \in [Threads -> Records] /\ th'[t] = Idle
        /\ th'[u] = [th[u] EXCEPT !.rc = c]
        /\ \A x \in Threads : x # t /\ x # u => th'[x] = th[x]
    <3>1. th \in [Threads -> Records] /\ Idle \in Records /\ c \in Results
      BY TypeParts, IdleShape DEF Results
    <3>2. [th[u] EXCEPT !.rc = c] \in Records
      BY <2>1, <3>1 DEF Records
    <3>3. th' = [th EXCEPT ![t] = Idle, ![u] = [th[u] EXCEPT !.rc = c]]
      BY <1>4, <2>1, <3>1
    <3> HIDE DEF u
    <3> QED
      BY <2>1, <3>1, <3>2, <3>3
  <2>5. th[u] \in Records
    BY <2>1, TypeParts
  <2>6. th'[u].job = "hold" /\ th'[u].at = "stop" /\ th'[u].rc = c /\ th'[u].endtime = th[u].endtime
    BY <2>1, <2>4, <2>5 DEF Records
  <2>7. /\ high' = Append(H, u) /\ In(high', u) /\ ~In(high', t)
        /\ \A x \in Threads : x # t /\ x # u => (In(high', x) <=> In(high, x))
    BY <1>4, <2>1, <2>2, <2>3
  <2> HIDE DEF u
  <2>8. TypeOK'
    <3>1. running \in BOOLEAN /\ mode \in {"intelligent", "dumb"} /\ stopped \in BOOLEAN
          /\ heard \in {"xon", "xoff", "missed"} /\ astray \in {"no", "xon", "flow", "configure"}
          /\ {txUser, txThread, sync} \subseteq Threads \cup {None}
          /\ txQueue \in Seq(Threads)
      BY DEF TypeOK
    <3> QED
      BY <2>0, <2>3, <2>4, <2>7, <3>1, NewTypes
  <2>9. UrgentFirst'
    <3>1. \A i \in 1 .. Len(txQueue) : txQueue[i] \in Threads
      BY TypeParts, ElementOfSeq
    <3>2. ~In(txQueue, u)
      BY <2>1 DEF LInv, Own, Placed
    <3>3. \A i \in 1 .. Len(txQueue) : th'[txQueue[i]] = th[txQueue[i]]
      BY <2>2, <2>4, <3>1, <3>2 DEF In
    <3> QED
      BY <2>0, <3>3 DEF LInv, UrgentFirst, Urgent
  <2>10. ASSUME NEW x \in Threads
         PROVE  Own(x)' /\ (Believes(x)' => txUser' = x)
    <3>0. Own(x) /\ (Believes(x) => txUser = x)
      BY DEF LInv, Sound, Unseated
    <3>1. CASE x # t /\ x # u
      <4>1. Spared(x)
        BY <2>0, <2>4, <2>7, <3>1 DEF Spared
      <4> QED
        BY <2>0, <3>0, <4>1, OwnSpared
    <3>2. CASE x = u
      <4>1. Believes(x)'
        BY <2>6, <3>2 DEF Believes
      <4>2. Shape(x)'
        BY <2>1, <2>6, <3>0, <3>2 DEF Shape, Own
      <4>3. Placed(x)'
        BY <2>0, <2>1, <2>6, <2>7, <3>0, <3>2, <4>1 DEF Placed, Own
      <4> QED
        BY <2>0, <3>2, <4>1, <4>2, <4>3 DEF Own, u
    <3>3. CASE x = t
      <4>1. ~Believes(t)'
        BY <2>4, IdleShape DEF Believes
      <4>2. txUser # t
        BY <2>1 DEF u
      <4>3. Shape(t)'
        <5>1. "none" \in JobsOf(t) /\ "idle" \in PlacesOf(t, "none")
          BY <1>0, Threaded DEF JobsOf, PlacesOf
        <5> QED
          BY <2>4, <5>1, IdleShape DEF Shape
      <4>4. Placed(t)'
        BY <2>0, <2>2, <2>4, <2>7, <4>1, <4>2, IdleShape DEF Placed
      <4> QED
        BY <3>3, <4>1, <4>3, <4>4 DEF Own
    <3> QED
      BY <3>1, <3>2, <3>3
  <2>11. Guarded' /\ Served' = Served
    <3>1. Guardian # t /\ Guardian # u /\ Manager # t /\ Manager # u
      BY <1>0, <2>1
    <3> QED
      BY <2>0, <2>4, <2>7, <3>1, GuardedSame, Threaded DEF LInv, Served, Special
  <2>12. Heard'
    <3>1. AheadKept
      BY <1>0, <2>3, <2>7, OrderJoined DEF Ready
    <3>2. ASSUME NEW x \in Workers
          PROVE  HoldKept(x)
      <4>1. CASE x # t /\ x # u
        BY <2>4, <4>1, Threaded DEF HoldKept
      <4>2. CASE x = t
        BY <1>0, <2>4, <4>2, IdleShape DEF HoldKept, Ready
      <4>3. CASE x = u
        <5>1. th[u].rc # "FC_Xon"
          BY <2>1 DEF LInv, Own, Placed
        <5> QED
          BY <2>1, <2>6, <4>3, <5>1 DEF HoldKept
      <4> QED
        BY <4>1, <4>2, <4>3
    <3>3. HeardSame
      BY <2>0, <3>1, <3>2 DEF HeardSame
    <3> QED
      BY <3>3, HeardKept DEF LInv
  <2>13. ~Ghost'
    <3>1. u \in Holders'
      BY <2>1, <2>6 DEF Holders
    <3> QED
      BY <3>1 DEF Ghost
  <2>14. Orderly
    BY <2>0, <2>3, <2>7, <2>8, <2>9, <2>10, <2>11, <2>12, <2>13, AsBefore DEF Orderly, lock, Resumed, LInv
  <2> QED
    BY <2>14, OrderlyCorrect
<1> QED
  BY <1>1, <1>2, <1>3, <1>4 DEF FlowControl, H

LEMMA WorkerStartsStep ==
  ASSUME TypeOK, LInv, Sound, NEW t \in Threads, WorkerStarts(t)
  PROVE  Correct
<1> DEFINE j == th[t].job
           H == Tail(high)
<1>0. /\ First(t) /\ th[t].at = "start" /\ heard' = heard
  BY DEF WorkerStarts
<1>1. /\ t \in Workers /\ Ready(t, j, H) /\ Acts(t, H) /\ ~Believes(t)
      /\ j \in {"reply", "info", "flow_xoff", "flow_xon", "hold"}
  BY <1>0, Begun DEF Ready
<1> HIDE DEF H
<1>2. CASE j = "reply" /\ WaitLink(t, j, "none", H) /\ UNCHANGED <<xoffed, astray>>
  <2>1. Still
    BY <1>0, <1>2 DEF Still, TypeOK
  <2>2. Orderly
    BY <1>1, <1>2, <2>1, WaitLinkStep
  <2> QED
    BY <2>2, OrderlyCorrect
<1>3. CASE j \in {"flow_xoff", "flow_xon"} /\ FlowControl(t, j)
  BY <1>0, <1>3, FlowControlStep
<1>4. CASE j \in {"info", "hold"} /\ JumpLink(t, j, H) /\ UNCHANGED <<xoffed, astray>>
  <2>1. Still
    BY <1>0, <1>4 DEF Still, TypeOK
  <2>2. Orderly
    BY <1>1, <1>4, <2>1, JumpQueueStep
  <2> QED
    BY <2>2, OrderlyCorrect
<1>5. CASE /\ j = "hold" /\ stopped
           /\ Becomes(t, Idle, H)
           /\ UNCHANGED <<flags, xoffed, txUser, txQueue, txThread, sync, astray>>
  <2>1. Heard'
    BY <1>0, <1>1, <1>5, HeardStopped DEF H
  <2>2. WakersFindIt' /\ astray' \in {"no", "xon", "flow", "configure"} /\ xoffed' \in BOOLEAN
    BY <1>5, AsBefore DEF TypeOK
  <2>3. UNCHANGED <<flags, txUser, txQueue, txThread, sync>>
    BY <1>5
  <2>4. Orderly
    BY <1>0, <1>1, <1>5, <2>1, <2>2, <2>3, QuitStep
  <2> QED
    BY <2>4, OrderlyCorrect
<1> QED
  BY <1>2, <1>3, <1>4, <1>5 DEF WorkerStarts, H

(* A thread at the head of the run queue that has been in the link's.      *)
LEMMA Returned ==
  ASSUME TypeOK, LInv, NEW t \in Threads, First(t), th[t].at = "queue"
  PROVE  /\ Ready(t, th[t].job, Tail(high)) /\ In(high, t)
         /\ th[t].rc # "null" => ~Believes(t)
         /\ th[t].rc = "null" => Believes(t)
         /\ th[t].job \in Jobs
<1>1. Acts(t, Tail(high)) /\ In(high, t) /\ Shape(t)
  BY FirstActs DEF LInv, Own
<1>2. th[t].job \in JobsOf(t) /\ th[t].job # "none" /\ th[t].rc # "FC_Xon"
  BY <1>1 DEF Shape, PlacesOf
<1>3. Ready(t, th[t].job, Tail(high))
  BY <1>1, <1>2 DEF Ready
<1> QED
  BY <1>1, <1>2, <1>3, JobsType DEF Believes

LEMMA QueueReturnsStep ==
  ASSUME TypeOK, LInv, Sound, NEW t \in Threads, QueueReturns(t), th[t].job # "dumb"
  PROVE  Correct
<1> DEFINE j == th[t].job
           H == Tail(high)
<1>0. /\ First(t) /\ th[t].at = "queue" /\ UNCHANGED <<xoffed, heard, astray>> /\ xoffed' \in BOOLEAN
  BY DEF QueueReturns, TypeOK
<1>1. /\ Ready(t, j, H) /\ Acts(t, H) /\ j \in Jobs
      /\ th[t].rc # "null" => ~Believes(t)
      /\ th[t].rc = "null" => txUser = t
  BY <1>0, Returned DEF Ready, Sound, Unseated
<1>2. Still
  BY <1>0 DEF Still
<1> HIDE DEF H
<1>3. CASE th[t].rc = "null" /\ Use(t, j, txUser, H)
  <2>1. Use(t, j, t, H)
    BY <1>1, <1>3
  <2>2. Orderly
    BY <1>1, <1>2, <1>3, <2>1, UseStep
  <2> QED
    BY <2>2, OrderlyCorrect
<1>4. CASE /\ th[t].rc # "null" /\ j \in {"put", "reply", "info"} /\ Becomes(t, Idle, H)
           /\ UNCHANGED <<flags, txUser, txQueue, txThread, sync>>
  <2>1. Heard'
    BY <1>0, <1>1, <1>4, HeardGone
  <2>2. t \in Programs \cup Workers
    BY <1>1, <1>4 DEF Ready, JobsOf
  <2>3. WakersFindIt' /\ astray' \in {"no", "xon", "flow", "configure"}
    BY <1>0, AsBefore
  <2>4. Orderly
    BY <1>0, <1>1, <1>4, <2>1, <2>2, <2>3, QuitStep
  <2> QED
    BY <2>4, OrderlyCorrect
<1>5. CASE th[t].rc # "null" /\ j \notin {"put", "reply", "info"} /\ JumpLink(t, j, H)
  <2>1. Orderly
    BY <1>1, <1>2, <1>5, JumpQueueStep
  <2> QED
    BY <2>1, OrderlyCorrect
<1> QED
  BY <1>3, <1>4, <1>5 DEF QueueReturns, H

(* What a thread in charge of the link goes on with.                       *)
LEMMA InCharge ==
  ASSUME TypeOK, LInv, Sound, NEW t \in Threads, First(t), th[t].at \in {"tx", "stop", "sync"}
  PROVE  /\ Acts(t, Tail(high)) /\ In(high, t) /\ txUser = t /\ Shape(t) /\ th[t] \in Records
<1>1. Acts(t, Tail(high)) /\ In(high, t) /\ Shape(t)
  BY FirstActs DEF LInv, Own
<1>2. txUser = t
  BY DEF Believes, Sound, Unseated
<1> QED
  BY <1>1, <1>2, TypeParts

LEMMA PutContinuesStep ==
  ASSUME TypeOK, LInv, Sound, NEW t \in Threads, PutContinues(t)
  PROVE  Correct
<1> DEFINE r == th[t]
           H == Tail(high)
<1>0. /\ First(t) /\ r.at = "tx" /\ r.job = "put" /\ r.left > 0
      /\ Transmit(t, txUser, r, H)
      /\ UNCHANGED <<flags, xoffed, heard, astray>>
  BY DEF PutContinues
<1>1. Acts(t, H) /\ txUser = t /\ Shape(t) /\ r \in Records
  BY <1>0, InCharge
<1>2. /\ r.rc # "FC_Xon" /\ r.rc # "FC_LinkTx" /\ r.job \in JobsOf(t) /\ r.at \in PlacesOf(t, r.job)
      /\ r.left >= 1
  BY <1>0, <1>1 DEF Shape, Records
<1>3. t \in Programs \cup Workers
  BY <1>0, <1>2 DEF JobsOf
<1>4. /\ Becomes(t, r, H) /\ txUser' = t /\ txThread' = t
      /\ UNCHANGED <<mode, running, stopped, txQueue, sync>>
  BY <1>0, <1>1 DEF Transmit, flags
<1>5. Still
  BY <1>0 DEF Still, TypeOK
<1>6. Takes(t, r, H)
  BY <1>0, <1>1, <1>2, <1>3, <1>4 DEF Takes
<1>7. Orderly
  BY <1>1, <1>5, <1>6, TakeStep
<1> QED
  BY <1>7, OrderlyCorrect

LEMMA TransferEndsStep ==
  ASSUME TypeOK, LInv, Sound, NEW t \in Threads, TransferEnds(t)
  PROVE  Correct
<1> DEFINE H == Tail(high)
<1>0. /\ First(t) /\ th[t].at = "tx" /\ th[t].job \in Transfers
      /\ running' = (running \/ (th[t].job = "put" /\ ~Abandons(t)))
      /\ Done(t, H)
      /\ UNCHANGED <<mode, stopped, xoffed, heard, astray>>
  BY DEF TransferEnds
<1>1. Acts(t, H) /\ txUser = t /\ Shape(t)
  BY <1>0, InCharge
<1>2. t \in Programs \cup Workers
  BY <1>0, <1>1 DEF Shape, JobsOf, Transfers
<1>3. running' \in BOOLEAN /\ stopped \in BOOLEAN /\ Still
  BY <1>0 DEF TypeOK, Still
<1>4. stopped' = (stopped /\ th[t].job # "hold")
  BY <1>0, <1>3 DEF Transfers
<1>5. Leaves(t, H)
  BY <1>0, <1>1, <1>2, <1>3, <1>4 DEF Leaves, Transfers
<1>6. Orderly
  BY <1>1, <1>3, <1>5, DoneStep
<1> QED
  BY <1>6, OrderlyCorrect

LEMMA HoldContinuesStep ==
  ASSUME TypeOK, LInv, Sound, NEW t \in Threads, HoldContinues(t)
  PROVE  Correct
<1> DEFINE H == Tail(high)
<1>0. /\ First(t) /\ th[t].at \in {"stop", "tx"} /\ th[t].job = "hold"
      /\ UNCHANGED <<mode, running, xoffed, heard, astray>>
      /\ {running, stopped} \subseteq BOOLEAN
  BY DEF HoldContinues, TypeOK
<1>1. Acts(t, H) /\ txUser = t /\ Shape(t)
  BY <1>0, InCharge
<1>2. t \in Workers /\ "hold" \in JobsOf(t) /\ {"tx", "stop"} \subseteq PlacesOf(t, "hold")
  BY <1>0, <1>1 DEF Shape, JobsOf, PlacesOf
<1>3. Still
  BY <1>0 DEF TypeOK, Still
<1> HIDE DEF H
<1>4. CASE Over(th[t].rc) /\ stopped' = Cleared /\ Done(t, H)
  <2>1. Leaves(t, H)
    BY <1>0, <1>1, <1>2, <1>4 DEF Leaves, Over, Cleared
  <2>2. Orderly
    BY <1>1, <1>3, <2>1, DoneStep
  <2> QED
    BY <2>2, OrderlyCorrect
<1>5. CASE /\ ~Over(th[t].rc) /\ th[t].at = "tx"
           /\ Becomes(t, At("hold", "stop", "none", 0), H)
           /\ UNCHANGED <<stopped, txUser, txQueue, txThread, sync>>
  <2> DEFINE r == At("hold", "stop", "none", 0)
  <2>1. r \in Records /\ r.job = "hold" /\ r.at = "stop" /\ r.rc = "null" /\ r.endtime = "none"
    <3>1. r \in Records
      BY AtType DEF Jobs, Places
    <3> QED
      BY <3>1 DEF At
  <2>2. Becomes(t, r, H)
    BY <1>5
  <2> HIDE DEF r
  <2>3. Takes(t, r, H)
    BY <1>0, <1>1, <1>2, <1>5, <2>1, <2>2 DEF Takes, Over
  <2>4. Orderly
    BY <1>1, <1>3, <2>3, TakeStep
  <2> QED
    BY <2>4, OrderlyCorrect
<1>6. CASE /\ ~Over(th[t].rc) /\ th[t].at = "stop"
           /\ Transmit(t, txUser, [At("hold", "tx", "set", 1) EXCEPT !.rc = "FC_LinkTx"], H)
           /\ UNCHANGED stopped
  <2> DEFINE r == [At("hold", "tx", "set", 1) EXCEPT !.rc = "FC_LinkTx"]
  <2>1. r \in Records /\ r.job = "hold" /\ r.at = "tx" /\ r.rc = "FC_LinkTx" /\ r.left = 1
    <3>1. At("hold", "tx", "set", 1) \in Records
      BY AtType DEF Jobs, Places
    <3> QED
      BY <3>1 DEF At, Records, Results
  <2>2. Becomes(t, r, H) /\ txUser' = t /\ txThread' = t /\ UNCHANGED <<stopped, txQueue, sync>>
    BY <1>1, <1>6 DEF Transmit
  <2> HIDE DEF r
  <2>3. Takes(t, r, H)
    BY <1>0, <1>1, <1>2, <1>6, <2>1, <2>2 DEF Takes, Over
  <2>4. Orderly
    BY <1>1, <1>3, <2>3, TakeStep
  <2> QED
    BY <2>4, OrderlyCorrect
<1> QED
  BY <1>4, <1>5, <1>6 DEF HoldContinues, H

----------------------------------------------------------------------------
(* The link goes dumb.  While t reconfigures, the queue may be evicted:    *)
(* now is what the threads' records are then, G the run queue.             *)
Gone(x) == In(txQueue, x) /\ txQueue' = <<>>

After(now, G, t) ==
  /\ now \in [Threads -> Records] /\ G \in Seq(Threads) /\ Once(G) /\ ~In(G, t)
  /\ \A x \in Threads : x # t /\ Gone(x)  => now[x] = [th[x] EXCEPT !.rc = "badroute"] /\ In(G, x)
  /\ \A x \in Threads : x # t /\ ~Gone(x) => now[x] = th[x] /\ (In(G, x) <=> In(high, x))
  /\ \A u, w \in Workers : u # t /\ Ahead(high, u, w) => Ahead(G, u, w)
  /\ txQueue' \in {txQueue, <<>>}

LEMMA SameAfter ==
  ASSUME TypeOK, NEW t \in Threads, NEW H, Acts(t, H), txQueue' = txQueue
  PROVE  After(th, H, t)
<1>1. \A x : ~Gone(x)
  BY DEF Gone, In
<1> QED
  BY <1>1, TypeParts DEF After, Acts

LEMMA EvictedAfter ==
  ASSUME TypeOK, LInv, NEW t \in Threads, NEW H, Acts(t, H), txQueue' = <<>>
  PROVE  After(Evicted, H \o txQueue, t)
<1>1. H \in Seq(Threads) /\ Once(H) /\ txQueue \in Seq(Threads) /\ Once(txQueue)
      /\ ~In(H, t) /\ ~In(txQueue, t)
      /\ \A x \in Threads : x # t => (In(H, x) <=> In(high, x))
  BY TypeParts DEF Acts, LInv
<1>2. \A x \in Threads : In(txQueue, x) => ~In(high, x)
  BY DEF LInv, Own, Placed
<1>3. \A x : ~(In(H, x) /\ In(txQueue, x))
  <2>1. \A x : In(H, x) => x \in Threads
    BY <1>1, ElementOfSeq DEF In
  <2> QED
    BY <1>1, <1>2, <2>1
<1>4. /\ H \o txQueue \in Seq(Threads) /\ Once(H \o txQueue)
      /\ \A x : In(H \o txQueue, x) <=> In(H, x) \/ In(txQueue, x)
  BY <1>1, <1>3, ConcatList
<1>5. \A x : Gone(x) <=> In(txQueue, x)
  BY DEF Gone
<1>6. /\ Evicted \in [Threads -> Records]
      /\ \A x \in Threads : Evicted[x] = IF In(txQueue, x) THEN [th[x] EXCEPT !.rc = "badroute"] ELSE th[x]
  BY TypeParts DEF Evicted, Records, Results
<1>7. \A u, w \in Workers : u # t /\ Ahead(high, u, w) => Ahead(H \o txQueue, u, w)
  BY <1>1, AheadJoined DEF Acts
<1> HIDE DEF Evicted
<1> QED
  BY <1>1, <1>4, <1>5, <1>6, <1>7 DEF After

(* A thread that has no other part in it.                                  *)
LEMMA OwnAfter ==
  ASSUME TypeOK, LInv, NEW t \in Threads, NEW now, NEW G, After(now, G, t), NEW x \in Threads, x # t,
         th'[x] = now[x], In(high', x) <=> In(G, x), ~Believes(x),
         txThread' \in {None, t}, txUser' \in {None, t}
  PROVE  Own(x)' /\ ~Believes(x)' /\ HoldKept(x) /\ th'[x].at = th[x].at
<1>0. Own(x) /\ x # None /\ th[x] \in Records
  BY Threaded, TypeParts DEF Special, LInv
<1>1. CASE Gone(x)
  <2>1. th'[x] = [th[x] EXCEPT !.rc = "badroute"] /\ In(high', x) /\ txQueue' = <<>> /\ In(txQueue, x)
    BY <1>1 DEF After, Gone
  <2>2. th'[x].job = th[x].job /\ th'[x].at = "queue" /\ th'[x].rc = "badroute" /\ th[x].at = "queue"
        /\ th[x].rc = "null" /\ th'[x].endtime = th[x].endtime
    BY <1>0, <2>1 DEF Own, Placed, Records
  <2>3. ~In(txQueue', x)
    BY <2>1 DEF In
  <2>4. Shape(x)'
    BY <1>0, <2>2 DEF Own, Shape
  <2>5. ~Believes(x)'
    BY <2>2 DEF Believes
  <2>6. Placed(x)'
    BY <1>0, <2>1, <2>2, <2>3 DEF Placed
  <2> QED
    BY <2>2, <2>4, <2>5, <2>6 DEF Own, HoldKept
<1>2. CASE ~Gone(x)
  <2>1. th'[x] = th[x] /\ (In(high', x) <=> In(high, x))
    BY <1>2 DEF After
  <2>2. In(txQueue', x) <=> In(txQueue, x)
    BY <1>2 DEF After, Gone, In
  <2>3. Spared(x)
    BY <1>0, <2>1, <2>2 DEF Spared
  <2> QED
    BY <1>0, <2>1, <2>3, OwnSpared DEF HoldKept
<1> QED
  BY <1>1, <1>2

(* What these steps have in common.                                        *)
Dumbs(t) ==
  /\ t \in {Guardian, Manager}
  /\ th[t].at \in {"idle", "queue", "receive", "tx", "sync"}
  /\ t = Manager => th[t].at # "idle" \/ high = <<>>
  /\ txUser \in {None, t}
  /\ mode' = "dumb" /\ running' \in BOOLEAN

(* Whether HandleXoff() holds a link whose flag t writes back.             *)
LEMMA StillStopped ==
  ASSUME Sound, TypeOK, NEW t \in {Guardian, Manager}, stopped' \in {stopped, Saw(t)},
         \A x \in Workers : Believes(x) => th'[x] = th[x]
  PROVE  Ghost' => \E u \in Threads : th[u].job = "dumb" /\ th[u].saw
<1>1. ASSUME Ghost', ~stopped
      PROVE  th[t].job = "dumb" /\ th[t].saw
  BY <1>1, TypeParts, Threaded DEF Ghost, Saw, Special, Records
<1>2. ASSUME Ghost', stopped
      PROVE  FALSE
  <2>1. txUser \in Workers /\ txUser \in Holders
    BY <1>2, StopHolder
  <2>2. th'[txUser] = th[txUser] /\ th[txUser].job = "hold" /\ th[txUser].at \in {"stop", "tx"}
    BY <2>1 DEF Holders, Believes
  <2> QED
    BY <1>2, <2>1, <2>2 DEF Ghost, Holders
<1> QED
  BY <1>1, <1>2, Threaded DEF Special

LEMMA DownLock ==
  ASSUME TypeOK, mode' = "dumb", txUser' \in {txUser, None} \/ (txUser = None /\ txUser' \in Threads),
         txQueue' \in {txQueue, <<>>}
  PROVE  ~Served' /\ Lock!Next
<1>1. ~Served' /\ Served' \in BOOLEAN
  BY DEF Served
<1>2. Lock!Reconfigure
  BY <1>1 DEF Lock!Reconfigure
<1> QED
  BY <1>1, <1>2 DEF Lock!Next

LEMMA UrgentAfter ==
  ASSUME TypeOK, LInv, txQueue' \in {txQueue, <<>>},
         \A x \in Threads : In(txQueue', x) => th'[x].job = th[x].job
  PROVE  UrgentFirst' /\ Once(txQueue') /\ txQueue' \in Seq(Threads)
<1>1. \A i \in 1 .. Len(txQueue') : txQueue'[i] \in Threads /\ In(txQueue', txQueue'[i])
  BY TypeParts, ElementOfSeq DEF In
<1>2. Sublist(txQueue', txQueue)
  BY DEF Sublist
<1>3. UrgentFirst'
  BY <1>1, <1>2, UrgentLess DEF LInv
<1>4. Once(txQueue')
  BY DEF Once, LInv
<1>5. txQueue \in Seq(Threads) /\ <<>> \in Seq(Threads)
  BY TypeParts
<1> QED
  BY <1>3, <1>4, <1>5

LEMMA HeardAfter ==
  ASSUME LInv, Sound, NEW t \in {Guardian, Manager}, NEW now, NEW G, NEW r \in Seq(Threads),
         After(now, G, t), high' = G \/ high' = G \o r, heard' = heard,
         \A x \in Workers : HoldKept(x)
  PROVE  Heard'
<1>1. \A u, w \in Workers : th[u].rc = "FC_Xon" /\ Ahead(high, u, w) => Ahead(G, u, w) /\ G \in Seq(Threads)
  BY Threaded DEF After
<1>2. AheadKept
  BY <1>1, AheadJoined DEF AheadKept
<1>3. HeardSame
  BY <1>2 DEF HeardSame
<1> QED
  BY <1>3, HeardKept DEF LInv

LEMMA ForShape ==
  ASSUME TypeOK, NEW t \in Threads, NEW p \in Places, NEW d \in {"none", "set"}, NEW n \in 0 .. 2
  PROVE  LET r == For(t, "dumb", p, d, n) IN
         /\ r \in Records /\ r.job = "dumb" /\ r.at = p /\ r.rc = "null" /\ r.endtime = d /\ r.left = n
<1>1. At("dumb", p, d, n) \in Records
  BY AtType DEF Jobs
<1>2. ("dumb" = "dumb" /\ Saw(t)) \in BOOLEAN
  BY TypeParts DEF Saw, Records
<1> QED
  BY <1>1, <1>2 DEF For, Records, At

(* The manager leaves the link and goes into ClearPorts().                 *)
LEMMA ManagerLeaves ==
  ASSUME TypeOK, LInv, Sound, NEW H, Acts(Manager, H), Dumbs(Manager), Still,
         NEW now, NEW G, After(now, G, Manager), EndDumb(Manager, now, G)
  PROVE  Correct
<1> DEFINE s == Suspended(Guardian, "receive")
           t == Manager
           c == For(t, "dumb", "clear", "none", 0)
<1>0. /\ txUser' = None /\ UNCHANGED <<stopped, txThread, sync>>
      /\ th' = IF s THEN [now EXCEPT ![t] = c, ![Guardian].rc = "timeout"]
                    ELSE [now EXCEPT ![t] = c]
      /\ high' = IF s THEN Append(G, Guardian) ELSE G
      /\ mode' = "dumb" /\ running' \in BOOLEAN
  BY Threaded DEF EndDumb, Dumbs
<1>1. /\ t \in Threads /\ Guardian \in Threads /\ Guardian # t /\ None \notin Threads
      /\ t \notin Workers /\ Guardian \notin Workers
      /\ \A x \in Workers : x \in Threads
  BY Threaded DEF Special
<1>2. /\ \A x \in Threads : x # t => ~Believes(x) /\ txUser # x
      /\ txThread = None
  BY <1>1, Alone DEF Dumbs
<1>3. /\ now \in [Threads -> Records] /\ G \in Seq(Threads) /\ Once(G) /\ ~In(G, t)
      /\ txQueue' \in {txQueue, <<>>} /\ ~In(txQueue, t) /\ sync # t
      /\ \A x \in Threads : x # t /\ ~Gone(x) => now[x] = th[x] /\ (In(G, x) <=> In(high, x))
  BY DEF After, Acts
<1>4. s => now[Guardian] = th[Guardian] /\ ~In(G, Guardian) /\ th[Guardian].at = "receive" /\ ~In(txQueue', Guardian)
  <2>1. s => ~In(txQueue, Guardian) /\ ~In(high, Guardian) /\ th[Guardian].at = "receive"
    BY <1>1 DEF Suspended, LInv, Own, Placed
  <2>2. \A x : In(txQueue', x) => In(txQueue, x)
    BY <1>3 DEF In
  <2> QED
    BY <1>1, <1>3, <2>1, <2>2 DEF Gone
<1>c. c \in Records /\ c.job = "dumb" /\ c.at = "clear" /\ c.rc = "null" /\ c.endtime = "none"
  BY <1>1, ForShape DEF Places
<1> HIDE DEF c
<1>5. /\ th' \in [Threads -> Records] /\ th'[t] = c
      /\ \A x \in Threads : x # t /\ ~(s /\ x = Guardian) => th'[x] = now[x]
      /\ s => th'[Guardian] = [th[Guardian] EXCEPT !.rc = "timeout"]
  <2>1. CASE ~s
    BY <1>0, <1>1, <1>3, <2>1, <1>c
  <2>2. CASE s
    <3>1. [th[Guardian] EXCEPT !.rc = "timeout"] \in Records
      BY <1>1, TypeParts DEF Records, Results
    <3>2. th' = [now EXCEPT ![t] = c, ![Guardian] = [th[Guardian] EXCEPT !.rc = "timeout"]]
      BY <1>0, <1>1, <1>3, <1>4, <2>2
    <3> QED
      BY <1>1, <1>3, <2>2, <3>1, <3>2, <1>c
  <2> QED
    BY <2>1, <2>2
<1>6. /\ high' \in Seq(Threads) /\ Once(high')
      /\ \A x : In(high', x) <=> In(G, x) \/ (s /\ x = Guardian)
      /\ <<Guardian>> \in Seq(Threads) /\ (high' = G \/ high' = G \o <<Guardian>>)
  <2>1. CASE ~s
    BY <1>0, <1>1, <1>3, <2>1, AppendIsJoin
  <2>2. CASE s
    <3>1. high' = Append(G, Guardian)
      BY <1>0, <2>2
    <3>2. /\ Append(G, Guardian) \in Seq(Threads) /\ Once(Append(G, Guardian))
          /\ \A x : In(Append(G, Guardian), x) <=> In(G, x) \/ x = Guardian
          /\ <<Guardian>> \in Seq(Threads) /\ Append(G, Guardian) = G \o <<Guardian>>
      BY <1>1, <1>3, <1>4, <2>2, AppendList, AppendIsJoin
    <3> QED
      BY <2>2, <3>1, <3>2
  <2> QED
    BY <2>1, <2>2
<1>7. th[Guardian] \in Records /\ th[t] \in Records /\ stopped \in BOOLEAN
  BY <1>1, TypeParts DEF Records
<1> HIDE DEF s
<1>8. ASSUME NEW x \in Threads, x # t, ~(s /\ x = Guardian)
      PROVE  Own(x)' /\ ~Believes(x)' /\ HoldKept(x) /\ th'[x].at = th[x].at
  <2>1. th'[x] = now[x] /\ (In(high', x) <=> In(G, x)) /\ ~Believes(x)
    BY <1>2, <1>5, <1>6, <1>8
  <2>2. txThread' \in {None, t} /\ txUser' \in {None, t}
    BY <1>0, <1>2
  <2> QED
    BY <1>1, <1>8, <2>1, <2>2, OwnAfter
<1>9. ASSUME s
      PROVE  Own(Guardian)' /\ th'[Guardian].at = "receive" /\ In(high', Guardian)
  <2>0. Own(Guardian) /\ th[Guardian].at = "receive"
    BY <1>1, <1>4, <1>9 DEF LInv
  <2>1. /\ th'[Guardian].at = "receive" /\ th'[Guardian].rc = "timeout"
        /\ th'[Guardian].job = th[Guardian].job /\ th'[Guardian].endtime = th[Guardian].endtime
    BY <1>5, <1>7, <1>9, <2>0 DEF Records
  <2>2. Shape(Guardian)'
    BY <2>0, <2>1 DEF Own, Shape
  <2>3. Placed(Guardian)'
    BY <1>0, <1>1, <1>2, <1>4, <1>6, <1>9, <2>1 DEF Placed
  <2> QED
    BY <1>6, <1>9, <2>1, <2>2, <2>3 DEF Own
<1>10. Own(t)'
  <2>1. ~Believes(t)'
    BY <1>5, <1>c DEF Believes
  <2>2. Shape(t)'
    <3>1. "dumb" \in JobsOf(t) /\ "clear" \in PlacesOf(t, "dumb")
      BY <1>1, Threaded DEF JobsOf, PlacesOf
    <3> QED
      BY <1>5, <3>1, <1>c DEF Shape
  <2>3. ~In(high', t) /\ ~In(txQueue', t) /\ txUser' # t /\ txThread' # t
    BY <1>0, <1>1, <1>2, <1>3, <1>6 DEF In
  <2>4. Placed(t)'
    BY <1>5, <2>1, <2>3, <1>c DEF Placed
  <2> QED
    BY <2>2, <2>4 DEF Own
<1>11. Guarded'
  <2>1. th'[Guardian].at = th[Guardian].at
    BY <1>1, <1>4, <1>8, <1>9
  <2>2. th'[t].at = "clear"
    BY <1>5, <1>c
  <2>3. th[Guardian].at \in {"asleep", "receive"} => ~In(txQueue, Guardian)
    BY <1>1 DEF LInv, Own, Placed
  <2>4. th[Guardian].at \in {"asleep", "receive"} => (In(G, Guardian) <=> In(high, Guardian))
    BY <1>1, <1>3, <2>3 DEF Gone
  <2>5. th[Guardian].at = "receive" => In(high', Guardian)
    <3>1. s <=> th[Guardian].at = "receive" /\ ~In(high, Guardian)
      BY DEF s, Suspended
    <3> QED
      BY <1>6, <2>4, <3>1
  <2>6. th[Guardian].at = "asleep" => sync = Guardian
    <3>1. th[t].at # "idle" \/ ~In(high, Guardian)
      BY DEF Dumbs, In
    <3> QED
      BY <3>1 DEF LInv, Guarded
  <2>7. sync = Guardian => th[Guardian].at = "asleep" /\ ~In(high', Guardian)
    <3>1. sync = Guardian => th[Guardian].at = "asleep" /\ ~In(high, Guardian)
      BY DEF LInv, Guarded
    <3>2. th[Guardian].at = "asleep" => ~s
      BY <1>4
    <3> QED
      BY <1>6, <2>4, <3>1, <3>2
  <2>8. sync \in {None, Guardian}
    BY <1>3 DEF LInv, Guarded
  <2> QED
    BY <1>0, <1>1, <2>1, <2>2, <2>5, <2>6, <2>7, <2>8 DEF Guarded
<1>12. \A x \in Workers : HoldKept(x)
  BY <1>1, <1>8
<1>13. Heard'
  BY <1>6, <1>12, HeardAfter DEF Still
<1>14. Ghost' => \E u \in Threads : th[u].job = "dumb" /\ th[u].saw
  <2>1. \A x \in Workers : ~Believes(x)
    BY <1>1, <1>2
  <2> QED
    BY <1>0, <2>1, StillStopped
<1>15. UrgentFirst' /\ Once(txQueue') /\ txQueue' \in Seq(Threads)
  <2>1. ASSUME NEW x \in Threads, In(txQueue', x)
        PROVE  th'[x].job = th[x].job
    <3>1. In(txQueue, x) /\ ~Gone(x)
      BY <1>3, <2>1 DEF Gone, In
    <3>2. x # t /\ ~(s /\ x = Guardian)
      BY <1>3, <1>4, <2>1, <3>1
    <3> QED
      BY <1>3, <1>5, <3>1, <3>2
  <2> QED
    BY <1>3, <2>1, UrgentAfter
<1>16. TypeOK'
  <2>1. /\ heard \in {"xon", "xoff", "missed"} /\ astray \in {"no", "xon", "flow", "configure"}
        /\ {txThread, sync} \subseteq Threads \cup {None}
    BY DEF TypeOK
  <2> QED
    BY <1>0, <1>5, <1>6, <1>7, <1>15, <2>1, NewTypes DEF Still
<1>17. ~Served' /\ Lock!Next
  BY <1>0, <1>3, DownLock
<1>18. WakersFindIt'
  BY AsBefore DEF Still
<1>19. \A x \in Threads : Own(x)'
  BY <1>1, <1>8, <1>9, <1>10
<1>20. LInv'
  BY <1>6, <1>11, <1>13, <1>15, <1>18, <1>19 DEF LInv
<1> QED
  BY <1>14, <1>16, <1>17, <1>20 DEF Correct, Resumed

LEMMA AsleepShape ==
  ASSUME NEW p \in {"asleep", "receive", "message"}
  PROVE  LET a == At("none", p, "none", 0) IN
         /\ a \in Records /\ a.job = "none" /\ a.at = p /\ a.rc = "null" /\ a.endtime = "none"
<1>1. At("none", p, "none", 0) \in Records
  BY AtType DEF Jobs, Places
<1> QED
  BY <1>1 DEF At

(* The guardian does.                                                      *)
LEMMA GuardianLeaves ==
  ASSUME TypeOK, LInv, Sound, NEW H, Acts(Guardian, H), Dumbs(Guardian), Still,
         NEW now, NEW G, After(now, G, Guardian), EndDumb(Guardian, now, G)
  PROVE  Correct
<1> DEFINE t == Guardian
           c == For(t, "dumb", "clear", "none", 0)
<1>0. /\ txUser' = None /\ UNCHANGED <<stopped, txThread, sync>>
      /\ th' = [now EXCEPT ![t] = c] /\ high' = G
      /\ mode' = "dumb" /\ running' \in BOOLEAN
  BY DEF EndDumb, Dumbs
<1>1. /\ t \in Threads /\ None \notin Threads /\ t \notin Workers /\ Manager \in Threads
      /\ Manager # t /\ \A x \in Workers : x \in Threads
  BY Threaded DEF Special
<1>2. /\ \A x \in Threads : x # t => ~Believes(x) /\ txUser # x
      /\ txThread = None
  BY <1>1, Alone DEF Dumbs
<1>3. /\ now \in [Threads -> Records] /\ G \in Seq(Threads) /\ Once(G) /\ ~In(G, t)
      /\ txQueue' \in {txQueue, <<>>} /\ ~In(txQueue, t)
      /\ \A x \in Threads : x # t /\ ~Gone(x) => now[x] = th[x] /\ (In(G, x) <=> In(high, x))
  BY DEF After, Acts
<1>4. c \in Records /\ c.job = "dumb" /\ c.at = "clear" /\ c.rc = "null" /\ c.endtime = "none"
  BY <1>1, ForShape DEF Places
<1>5. /\ th' \in [Threads -> Records] /\ th'[t] = c
      /\ \A x \in Threads : x # t => th'[x] = now[x]
  BY <1>0, <1>1, <1>3, <1>4
<1> HIDE DEF c
<1>6. ASSUME NEW x \in Threads, x # t
      PROVE  Own(x)' /\ ~Believes(x)' /\ HoldKept(x) /\ th'[x].at = th[x].at
  <2>1. th'[x] = now[x] /\ (In(high', x) <=> In(G, x)) /\ ~Believes(x)
    BY <1>0, <1>2, <1>5, <1>6
  <2>2. txThread' \in {None, t} /\ txUser' \in {None, t}
    BY <1>0, <1>2
  <2> QED
    BY <1>1, <1>6, <2>1, <2>2, OwnAfter
<1>7. Own(t)'
  <2>1. ~Believes(t)'
    BY <1>4, <1>5 DEF Believes
  <2>2. Shape(t)'
    <3>1. "dumb" \in JobsOf(t) /\ "clear" \in PlacesOf(t, "dumb")
      BY <1>1, Threaded DEF JobsOf, PlacesOf
    <3> QED
      BY <1>4, <1>5, <3>1 DEF Shape
  <2>3. ~In(high', t) /\ ~In(txQueue', t) /\ txUser' # t /\ txThread' # t
    BY <1>0, <1>1, <1>2, <1>3 DEF In
  <2>4. Placed(t)'
    BY <1>4, <1>5, <2>1, <2>3 DEF Placed
  <2> QED
    BY <2>2, <2>4 DEF Own
<1>8. Guarded'
  <2>1. sync = None
    <3>1. sync \in {None, Guardian, Manager} /\ (sync = Manager => th[t].at = "message") /\ sync # t
      BY DEF LInv, Guarded, Acts
    <3> QED
      BY <3>1 DEF Dumbs
  <2>2. th'[t].at = "clear"
    BY <1>4, <1>5
  <2> QED
    BY <1>0, <1>1, <2>1, <2>2 DEF Guarded
<1>9. Heard'
  <2>1. \A x \in Workers : HoldKept(x)
    BY <1>1, <1>6
  <2>2. <<>> \in Seq(Threads)
    OBVIOUS
  <2> QED
    BY <1>0, <2>1, <2>2, HeardAfter DEF Still
<1>10. Ghost' => \E u \in Threads : th[u].job = "dumb" /\ th[u].saw
  <2>1. \A x \in Workers : ~Believes(x)
    BY <1>1, <1>2
  <2> QED
    BY <1>0, <2>1, StillStopped
<1>11. UrgentFirst' /\ Once(txQueue') /\ txQueue' \in Seq(Threads)
  <2>1. ASSUME NEW x \in Threads, In(txQueue', x)
        PROVE  th'[x].job = th[x].job
    <3>1. In(txQueue, x) /\ ~Gone(x)
      BY <1>3, <2>1 DEF Gone, In
    <3> QED
      BY <1>3, <1>5, <3>1
  <2> QED
    BY <1>3, <2>1, UrgentAfter
<1>12. TypeOK'
  <2>1. /\ heard \in {"xon", "xoff", "missed"} /\ astray \in {"no", "xon", "flow", "configure"}
    BY DEF TypeOK
  <2>2. stopped \in BOOLEAN /\ {txThread, sync} \subseteq Threads \cup {None}
    BY TypeParts
  <2> QED
    BY <1>0, <1>1, <1>3, <1>5, <1>11, <2>1, <2>2, NewTypes DEF Still
<1>13. ~Served' /\ Lock!Next
  BY <1>0, <1>3, DownLock
<1>14. WakersFindIt'
  BY AsBefore DEF Still
<1>15. LInv'
  BY <1>0, <1>3, <1>6, <1>7, <1>8, <1>9, <1>11, <1>14 DEF LInv
<1> QED
  BY <1>10, <1>12, <1>13, <1>15 DEF Correct, Resumed

(* The manager sends its message first, or waits for the guardian.         *)
LEMMA ManagerGoesOn ==
  ASSUME TypeOK, LInv, Sound, NEW H, Acts(Manager, H), Dumbs(Manager), Still,
         NEW now, NEW G, After(now, G, Manager), NEW r \in Records,
         th' = [now EXCEPT ![Manager] = r], high' = G, txUser' = Manager, stopped' = stopped,
         r.job = "dumb", r.rc = "null",
         \/ (r.at = "tx") /\ (txThread' = Manager) /\ (r.left = 1) /\ (sync' = sync)
         \/ (r.at = "sync") /\ (txThread' = txThread) /\ (sync' = Manager) /\ (th[Guardian].at = "message")
            /\ (r.endtime = "none")
  PROVE  Correct
<1> DEFINE t == Manager
<1>1. /\ t \in Threads /\ None \notin Threads /\ t \notin Workers /\ Guardian \in Threads
      /\ Guardian # t /\ (\A x \in Workers : x \in Threads) /\ None # t
      /\ mode' = "dumb" /\ running' \in BOOLEAN
  BY Threaded DEF Special, Dumbs
<1>2. /\ \A x \in Threads : x # t => ~Believes(x) /\ txUser # x
      /\ txThread = None
  BY <1>1, Alone DEF Dumbs
<1>3. /\ now \in [Threads -> Records] /\ G \in Seq(Threads) /\ Once(G) /\ ~In(G, t)
      /\ txQueue' \in {txQueue, <<>>} /\ ~In(txQueue, t) /\ sync # t
      /\ \A x \in Threads : x # t /\ ~Gone(x) => now[x] = th[x] /\ (In(G, x) <=> In(high, x))
  BY DEF After, Acts
<1>5. /\ th' \in [Threads -> Records] /\ th'[t] = r
      /\ \A x \in Threads : x # t => th'[x] = now[x]
  BY <1>1, <1>3
<1>6. ASSUME NEW x \in Threads, x # t
      PROVE  Own(x)' /\ ~Believes(x)' /\ HoldKept(x) /\ th'[x].at = th[x].at
  BY <1>1, <1>2, <1>5, <1>6, OwnAfter
<1>7. Own(t)'
  <2>1. Believes(t)'
    BY <1>5 DEF Believes
  <2>2. Shape(t)'
    <3>1. "dumb" \in JobsOf(t) /\ {"tx", "sync"} \subseteq PlacesOf(t, "dumb")
      BY <1>1, Threaded DEF JobsOf, PlacesOf
    <3> QED
      BY <1>5, <3>1 DEF Shape
  <2>3. ~In(high', t) /\ ~In(txQueue', t) /\ (txThread' = t => r.at = "tx" /\ r.left = 1)
    BY <1>1, <1>2, <1>3 DEF In
  <2>4. Placed(t)'
    BY <1>5, <2>1, <2>3 DEF Placed
  <2> QED
    BY <2>2, <2>4 DEF Own
<1>8. Guarded'
  <2>1. th'[Guardian].at = th[Guardian].at /\ th'[t].at = r.at
    BY <1>1, <1>5, <1>6
  <2>2. th[Guardian].at = "asleep" => (In(G, Guardian) <=> In(high, Guardian))
    <3>1. th[Guardian].at = "asleep" => ~In(txQueue, Guardian)
      BY <1>1 DEF LInv, Own, Placed
    <3> QED
      BY <1>1, <1>3, <3>1 DEF Gone
  <2>3. th[Guardian].at = "asleep" => sync = Guardian /\ ~In(high', Guardian)
    <3>1. th[t].at # "idle" \/ ~In(high, Guardian)
      BY DEF Dumbs, In
    <3>2. th[Guardian].at = "asleep" => sync = Guardian
      BY <3>1 DEF LInv, Guarded
    <3> QED
      BY <2>2, <3>2 DEF LInv, Guarded
  <2>4. sync \in {None, Guardian} /\ (sync = Guardian => th[Guardian].at = "asleep")
    BY <1>3 DEF LInv, Guarded
  <2>5. CASE r.at = "tx" /\ sync' = sync
    BY <1>1, <2>1, <2>3, <2>4, <2>5 DEF Guarded
  <2>6. CASE r.at = "sync" /\ sync' = t /\ th[Guardian].at = "message"
    BY <1>1, <1>3, <2>1, <2>6 DEF Guarded
  <2> QED
    BY <2>5, <2>6
<1>9. Heard'
  <2>1. \A x \in Workers : HoldKept(x)
    BY <1>1, <1>6
  <2>2. <<>> \in Seq(Threads)
    OBVIOUS
  <2> QED
    BY <2>1, <2>2, HeardAfter DEF Still
<1>10. Ghost' => \E u \in Threads : th[u].job = "dumb" /\ th[u].saw
  <2>1. \A x \in Workers : ~Believes(x)
    BY <1>1, <1>2
  <2> QED
    BY <2>1, StillStopped
<1>11. UrgentFirst' /\ Once(txQueue') /\ txQueue' \in Seq(Threads)
  <2>1. ASSUME NEW x \in Threads, In(txQueue', x)
        PROVE  th'[x].job = th[x].job
    <3>1. In(txQueue, x) /\ ~Gone(x)
      BY <1>3, <2>1 DEF Gone, In
    <3> QED
      BY <1>3, <1>5, <3>1
  <2> QED
    BY <1>3, <2>1, UrgentAfter
<1>12. TypeOK'
  <2>1. /\ heard \in {"xon", "xoff", "missed"} /\ astray \in {"no", "xon", "flow", "configure"}
        /\ stopped \in BOOLEAN /\ {sync, txThread} \subseteq Threads \cup {None}
    BY DEF TypeOK
  <2> QED
    BY <1>1, <1>3, <1>5, <1>11, <2>1, NewTypes DEF Still
<1>13. ~Served' /\ Lock!Next
  <2>1. txUser' \in {txUser, None} \/ (txUser = None /\ txUser' \in Threads)
    BY <1>1 DEF Dumbs
  <2> QED
    BY <1>1, <1>3, <2>1, DownLock
<1>14. WakersFindIt'
  BY AsBefore DEF Still
<1>15. LInv'
  BY <1>3, <1>6, <1>7, <1>8, <1>9, <1>11, <1>14 DEF LInv
<1> QED
  BY <1>10, <1>12, <1>13, <1>15 DEF Correct, Resumed

LEMMA EvictStep ==
  ASSUME TypeOK, LInv, Sound, NEW t \in Threads, NEW H, Acts(t, H), Dumbs(t), Still,
         NEW o, o = t, Evict(t, o, H)
  PROVE  Correct
<1> DEFINE G == H \o txQueue
<1>1. t \in {Guardian, Manager} /\ txQueue' = <<>>
  BY DEF Dumbs, Evict
<1>2. After(Evicted, G, t)
  BY <1>1, EvictedAfter
<1>3. CASE EndDumb(t, Evicted, G)
  <2>1. CASE t = Manager
    BY <1>2, <1>3, <2>1, ManagerLeaves
  <2>2. CASE t = Guardian
    BY <1>2, <1>3, <2>2, GuardianLeaves
  <2> QED
    BY <1>1, <2>1, <2>2
<1>4. CASE /\ t # Guardian /\ th[Guardian].at = "message" /\ txUser' = o /\ sync' = t
           /\ th' = [Evicted EXCEPT ![t] = For(t, "dumb", "sync", "none", 0)]
           /\ high' = G /\ UNCHANGED <<stopped, txThread>>
  <2> DEFINE r == For(t, "dumb", "sync", "none", 0)
  <2>1. r \in Records /\ r.job = "dumb" /\ r.at = "sync" /\ r.rc = "null" /\ r.endtime = "none"
    BY ForShape DEF Places
  <2>2. t = Manager
    BY <1>1, <1>4
  <2>3. /\ th' = [Evicted EXCEPT ![Manager] = r] /\ high' = G /\ txUser' = Manager
        /\ sync' = Manager /\ txThread' = txThread /\ stopped' = stopped
    BY <1>4, <2>2
  <2> HIDE DEF r, G
  <2> QED
    BY <1>2, <1>4, <2>1, <2>2, <2>3, ManagerGoesOn
<1> QED
  BY <1>3, <1>4 DEF Evict

LEMMA DumbUse ==
  ASSUME TypeOK, LInv, Sound, NEW t \in Threads, NEW H, Ready(t, "dumb", H), txUser \in {None, t},
         Still, Use(t, "dumb", t, H)
  PROVE  Correct
<1>1. /\ Acts(t, H) /\ t \in {Guardian, Manager} /\ mode' = "dumb" /\ running' = FALSE
      /\ th[t].at \in {"idle", "start", "queue", "receive"}
  BY DEF Ready, JobsOf, Threads, Use, Transfers
<1>2. th[t].at # "start"
  <2>1. Shape(t)
    BY DEF LInv, Own
  <2> QED
    BY <1>1, <2>1, Threaded DEF Shape, JobsOf, PlacesOf
<1>3. Dumbs(t)
  BY <1>1, <1>2 DEF Dumbs, Ready
<1>4. CASE t # Guardian /\ Transmit(t, t, For(t, "dumb", "tx", "set", 1), H) /\ UNCHANGED stopped
  <2> DEFINE r == For(t, "dumb", "tx", "set", 1)
  <2>1. r \in Records /\ r.job = "dumb" /\ r.at = "tx" /\ r.rc = "null" /\ r.left = 1
    BY ForShape DEF Places
  <2>2. t = Manager
    BY <1>1, <1>4
  <2>3. /\ th' = [th EXCEPT ![Manager] = r] /\ high' = H /\ txUser' = Manager
        /\ txThread' = Manager /\ sync' = sync /\ stopped' = stopped /\ txQueue' = txQueue
    BY <1>4, <2>2 DEF Transmit, Becomes
  <2>4. After(th, H, Manager)
    BY <1>1, <2>2, <2>3, SameAfter
  <2> HIDE DEF r
  <2> QED
    BY <1>1, <1>3, <2>1, <2>2, <2>3, <2>4, ManagerGoesOn
<1>5. CASE Evict(t, t, H)
  BY <1>1, <1>3, <1>5, EvictStep
<1> QED
  BY <1>4, <1>5 DEF Use, Transfers

LEMMA DumbJump ==
  ASSUME TypeOK, LInv, Sound, NEW t \in Threads, NEW H, Ready(t, "dumb", H), ~Believes(t),
         Still, JumpLink(t, "dumb", H)
  PROVE  Correct
<1>1. CASE txUser = None
  BY <1>1, DumbUse DEF JumpLink
<1>2. CASE txUser # None
  <2>1. Orderly
    BY <1>2, JumpQueueStep
  <2> QED
    BY <2>1, OrderlyCorrect
<1> QED
  BY <1>1, <1>2

LEMMA DumbReturns ==
  ASSUME TypeOK, LInv, Sound, NEW t \in Threads, QueueReturns(t), th[t].job = "dumb"
  PROVE  Correct
<1>1. /\ First(t) /\ th[t].at = "queue" /\ Still
  BY DEF QueueReturns, TypeOK, Still
<1>2. /\ Ready(t, "dumb", Tail(high))
      /\ th[t].rc # "null" => ~Believes(t)
      /\ th[t].rc = "null" => txUser = t
  BY <1>1, Returned DEF Sound, Unseated
<1>3. CASE th[t].rc = "null" /\ Use(t, "dumb", txUser, Tail(high))
  BY <1>1, <1>2, <1>3, DumbUse
<1>4. CASE th[t].rc # "null" /\ JumpLink(t, "dumb", Tail(high))
  BY <1>1, <1>2, <1>4, DumbJump
<1> QED
  BY <1>3, <1>4 DEF QueueReturns

(* Who sends the reconfiguration, or waits for the guardian.               *)
LEMMA IsManager ==
  ASSUME TypeOK, LInv, NEW t \in Threads, th[t].job = "dumb", th[t].at \in {"tx", "sync"}
  PROVE  t = Manager /\ mode = "dumb"
<1>1. Shape(t)
  BY DEF LInv, Own
<1>2. t \in {Guardian, Manager}
  BY <1>1 DEF Shape, JobsOf, Threads
<1>3. t = Manager
  BY <1>1, <1>2 DEF Shape, PlacesOf
<1> QED
  BY <1>3 DEF LInv, Guarded

LEMMA ReconfigureSentStep ==
  ASSUME TypeOK, LInv, Sound, NEW t \in Threads, ReconfigureSent(t)
  PROVE  Correct
<1>1. /\ First(t) /\ th[t].at = "tx" /\ th[t].job = "dumb" /\ Evict(t, txUser, Tail(high))
      /\ UNCHANGED <<mode, running>> /\ running \in BOOLEAN /\ Still
  BY DEF ReconfigureSent, TypeOK, Still
<1>2. Acts(t, Tail(high)) /\ txUser = t /\ t = Manager /\ mode = "dumb"
  BY <1>1, InCharge, IsManager
<1>3. Dumbs(t)
  BY <1>1, <1>2 DEF Dumbs
<1> QED
  BY <1>1, <1>2, <1>3, EvictStep

LEMMA GuardianReadyStep ==
  ASSUME TypeOK, LInv, Sound, NEW t \in Threads, GuardianReady(t)
  PROVE  Correct
<1>1. /\ First(t) /\ th[t].at = "sync" /\ EndDumb(t, th, Tail(high))
      /\ UNCHANGED <<mode, running, txQueue>> /\ running \in BOOLEAN /\ Still
  BY DEF GuardianReady, TypeOK, Still
<1>2. Acts(t, Tail(high)) /\ txUser = t /\ Shape(t)
  BY <1>1, InCharge
<1>3. th[t].job = "dumb"
  BY <1>1, <1>2, Threaded DEF Shape, PlacesOf, JobsOf
<1>4. t = Manager /\ mode = "dumb"
  BY <1>1, <1>3, IsManager
<1>5. Dumbs(t)
  BY <1>1, <1>2, <1>4 DEF Dumbs
<1>6. After(th, Tail(high), t)
  BY <1>1, <1>2, SameAfter
<1> QED
  BY <1>1, <1>2, <1>4, <1>5, <1>6, ManagerLeaves

(* ClearPorts() has come to its end, and _Configure() with it.             *)
LEMMA WhoClears ==
  ASSUME TypeOK, LInv, NEW t \in Threads, th[t].at = "clear"
  PROVE  /\ t \in {Guardian, Manager} /\ t \notin Workers /\ th[t].job = "dumb"
         /\ ~Believes(t) /\ th[t].rc # "FC_Xon" /\ txUser # t /\ ~In(txQueue, t) /\ txThread # t
         /\ t = Manager => mode = "dumb"
<1>1. Shape(t) /\ Placed(t)
  BY DEF LInv, Own
<1>2. t \in {Guardian, Manager} /\ t \notin Workers /\ th[t].job = "dumb"
  BY <1>1, Threaded DEF Shape, JobsOf, PlacesOf, Threads
<1>3. ~Believes(t)
  BY DEF Believes
<1>4. t = Manager => mode = "dumb"
  BY DEF LInv, Guarded
<1> QED
  BY <1>1, <1>2, <1>3, <1>4 DEF Shape, Placed

LEMMA PortsClearedStep ==
  ASSUME TypeOK, LInv, Sound, NEW t \in Threads, PortsCleared(t)
  PROVE  Correct
<1> DEFINE r == IF t = Guardian THEN At("none", "asleep", "none", 0) ELSE Idle
<1>1. /\ First(t) /\ th[t].at = "clear" /\ mode' = "dumb" /\ stopped' = Saw(t)
      /\ th' = [th EXCEPT ![t] = r] /\ high' = Tail(high)
      /\ UNCHANGED <<running, xoffed, txQueue, heard, astray>>
      /\ t = Guardian => /\ (txUser' = None) /\ (txThread' = None) /\ (sync' = Guardian)
      /\ t # Guardian => UNCHANGED <<txUser, txThread, sync>>
  BY DEF PortsCleared, Restart, Becomes
<1>2. /\ t \in {Guardian, Manager} /\ t \notin Workers
      /\ th[t].rc # "FC_Xon" /\ txUser # t /\ ~In(txQueue, t) /\ txThread # t
      /\ t = Manager => mode = "dumb"
  BY <1>1, WhoClears
<1>3. /\ Special /\ Guardian # Manager /\ Guardian \notin Workers
      /\ \A x \in Workers : x \in Threads
  BY Threaded
<1>4. Acts(t, Tail(high)) /\ In(high, t)
  BY <1>1, FirstActs
<1>5. /\ r \in Records /\ r.job = "none" /\ r.rc = "null" /\ r.endtime = "none"
      /\ r.at = IF t = Guardian THEN "asleep" ELSE "idle"
      /\ r.at = "idle" => r = Idle
  BY AsleepShape, IdleShape
<1> HIDE DEF r
<1>6. /\ th' \in [Threads -> Records] /\ th'[t] = r
      /\ \A x \in Threads : x # t => th'[x] = th[x]
  BY <1>1, <1>5, TypeParts
<1>7. /\ high' \in Seq(Threads) /\ Once(high')
      /\ \A x : In(high', x) <=> In(high, x) /\ x # t
  BY <1>1, <1>4 DEF Acts
<1>8. ASSUME NEW x \in Threads, x # t
      PROVE  Own(x)' /\ HoldKept(x) /\ th'[x] = th[x]
  <2>1. th'[x] = th[x]
    BY <1>6, <1>8
  <2>2. Spared(x)
    BY <1>1, <1>3, <1>7, <1>8, <2>1 DEF Spared, Special
  <2>3. Own(x)
    BY DEF LInv
  <2> QED
    BY <2>1, <2>2, <2>3, OwnSpared DEF HoldKept
<1>9. Own(t)'
  <2>1. ~Believes(t)'
    BY <1>5, <1>6 DEF Believes
  <2>2. Shape(t)'
    <3>1. "none" \in JobsOf(t) /\ r.at \in PlacesOf(t, "none")
      BY <1>2, <1>3, <1>5, Threaded DEF JobsOf, PlacesOf
    <3> QED
      BY <1>5, <1>6, <3>1 DEF Shape
  <2>3. ~In(high', t) /\ ~In(txQueue', t) /\ txUser' # t /\ txThread' # t
    BY <1>1, <1>2, <1>3, <1>7 DEF Special
  <2>4. Placed(t)'
    BY <1>5, <1>6, <2>1, <2>3 DEF Placed
  <2> QED
    BY <2>2, <2>4 DEF Own
<1>10. Guarded'
  <2>1. CASE t = Guardian
    <3>1. th'[t].at = "asleep" /\ sync' = t /\ ~In(high', t) /\ mode' = "dumb"
      BY <1>1, <1>5, <1>6, <1>7, <2>1
    <3> QED
      BY <1>3, <2>1, <3>1 DEF Guarded
  <2>2. CASE t = Manager
    <3>1. th'[Manager].at = "idle" /\ th'[Guardian] = th[Guardian] /\ mode' = "dumb" /\ mode = "dumb" /\ sync' = sync
      BY <1>1, <1>2, <1>3, <1>5, <1>6, <2>2 DEF Special
    <3>2. In(high', Guardian) <=> In(high, Guardian)
      BY <1>3, <1>7, <2>2
    <3>3. Guarded /\ sync # Manager
      BY <1>4, <2>2 DEF LInv, Acts
    <3>4. th[Manager].at = "clear"
      BY <1>1, <2>2
    <3> QED
      BY <1>3, <3>1, <3>2, <3>3, <3>4 DEF Guarded
  <2> QED
    BY <1>2, <2>1, <2>2
<1>11. \A x \in Workers : HoldKept(x) /\ th'[x] = th[x]
  BY <1>2, <1>3, <1>8
<1>12. Heard'
  <2>1. AheadKept
    BY <1>1, <1>2, <1>4, OrderLeft
  <2>2. HeardSame
    BY <1>1, <1>11, <2>1 DEF HeardSame
  <2> QED
    BY <2>2, HeardKept DEF LInv
<1>13. Ghost' => \E u \in Threads : th[u].job = "dumb" /\ th[u].saw
  BY <1>1, <1>2, <1>11, StillStopped
<1>14. UrgentFirst' /\ Once(txQueue') /\ txQueue' \in Seq(Threads)
  <2>1. \A x \in Threads : In(txQueue', x) => th'[x].job = th[x].job
    BY <1>1, <1>2, <1>8
  <2> QED
    BY <1>1, <2>1, UrgentAfter
<1>15. TypeOK'
  <2>1. /\ running \in BOOLEAN /\ xoffed \in BOOLEAN
        /\ heard \in {"xon", "xoff", "missed"} /\ astray \in {"no", "xon", "flow", "configure"}
        /\ {txUser, txThread, sync} \subseteq Threads \cup {None}
    BY DEF TypeOK
  <2>2. {txUser', txThread', sync'} \subseteq Threads \cup {None}
    BY <1>1, <1>3, <2>1 DEF Special
  <2>3. Saw(t) \in BOOLEAN
    BY TypeParts DEF Saw, Records
  <2> QED
    BY <1>1, <1>6, <1>7, <1>14, <2>1, <2>2, <2>3, NewTypes
<1>16. ~Served' /\ Lock!Next
  BY <1>1, DownLock
<1>17. WakersFindIt'
  BY <1>1, AsBefore
<1>18. \A x \in Threads : Own(x)'
  BY <1>8, <1>9
<1>19. LInv'
  BY <1>7, <1>10, <1>12, <1>14, <1>17, <1>18 DEF LInv
<1> QED
  BY <1>13, <1>15, <1>16, <1>19 DEF Correct, Resumed

LEMMA ConfigureDumbStep ==
  ASSUME TypeOK, LInv, Sound, ConfigureDumb
  PROVE  Correct
<1>1. Manager \in Threads /\ Manager # Guardian /\ Manager \notin Programs \cup Workers
  BY Threaded DEF Special
<1>2. Acts(Manager, <<>>) /\ high = <<>> /\ th[Manager] = Idle
  BY <1>1, RunsActs DEF ConfigureDumb
<1>3. Ready(Manager, "dumb", <<>>)
  <2>1. "dumb" \in JobsOf(Manager)
    BY <1>1 DEF JobsOf
  <2> QED
    BY <1>1, <1>2, <2>1, IdleShape DEF Ready
<1>4. ~Believes(Manager)
  BY <1>2, IdleShape DEF Believes
<1>5. JumpLink(Manager, "dumb", <<>>) /\ Still
  BY DEF ConfigureDumb, TypeOK, Still
<1> QED
  BY <1>1, <1>3, <1>4, <1>5, DumbJump

----------------------------------------------------------------------------
(* The guardian comes round its loop, or starts again.                     *)
Rounds(x, now, G) ==
  /\ mode' = mode /\ stopped' = stopped /\ txQueue' = txQueue
  /\ {running', xoffed'} \subseteq BOOLEAN
  /\ x \in {txThread, None}
  /\ now \in [Threads -> Records] /\ G \in Seq(Threads) /\ Once(G) /\ ~In(G, Guardian)
  /\ \/ (th[Guardian].at \in {"receive", "message"}) /\ LoopWith(x, now, G)
     \/ (th[Guardian].at = "asleep") /\ Restart(now, G)

LEMMA RoundsShape ==
  ASSUME TypeOK, LInv, NEW x, NEW now, NEW G, Rounds(x, now, G)
  PROVE  /\ th' \in [Threads -> Records] /\ high' = G /\ In(high', Guardian) = FALSE
         /\ \A y \in Threads : y # Guardian => th'[y] = now[y]
         /\ mode = "dumb" => /\ (txUser' = None) /\ (txThread' = None) /\ (sync' = Guardian)
                             /\ th'[Guardian] = At("none", "asleep", "none", 0)
         /\ mode = "intelligent" => sync' = sync /\ th'[Guardian] = At("none", "receive", "none", 0)
         /\ mode = "intelligent" /\ th[Guardian].at # "asleep" => txUser' = txUser /\ txThread' = x
         /\ mode = "intelligent" /\ th[Guardian].at = "asleep" => txUser' = None /\ txThread' = None
<1>1. mode \in {"intelligent", "dumb"} /\ mode' = mode /\ Guardian \in Threads
  BY Threaded DEF TypeOK, Rounds, Special
<1>2. /\ At("none", "asleep", "none", 0) \in Records
      /\ At("none", "receive", "none", 0) \in Records
  BY AsleepShape
<1>3. now \in [Threads -> Records] /\ ~In(G, Guardian)
  BY DEF Rounds
<1> DEFINE a == At("none", "asleep", "none", 0)
           r == At("none", "receive", "none", 0)
<1>4. CASE mode = "dumb"
  <2>1. Restart(now, G)
    BY <1>1, <1>4 DEF Rounds, LoopWith
  <2>2. th' = [now EXCEPT ![Guardian] = a] /\ high' = G /\ txUser' = None /\ txThread' = None /\ sync' = Guardian
    BY <1>1, <1>4, <2>1 DEF Restart
  <2> HIDE DEF a, r
  <2>3. /\ th' \in [Threads -> Records] /\ th'[Guardian] = a
        /\ \A y \in Threads : y # Guardian => th'[y] = now[y]
    BY <1>1, <1>2, <1>3, <2>2 DEF a
  <2> QED
    BY <1>3, <1>4, <2>2, <2>3 DEF a
<1>5. CASE mode = "intelligent"
  <2>1. /\ th' = [now EXCEPT ![Guardian] = r] /\ high' = G /\ sync' = sync
        /\ th[Guardian].at # "asleep" => txUser' = txUser /\ txThread' = x
        /\ th[Guardian].at = "asleep" => txUser' = None /\ txThread' = None
    BY <1>1, <1>5 DEF Rounds, LoopWith, Restart
  <2> HIDE DEF a, r
  <2>2. /\ th' \in [Threads -> Records] /\ th'[Guardian] = r
        /\ \A y \in Threads : y # Guardian => th'[y] = now[y]
    BY <1>1, <1>2, <1>3, <2>1 DEF r
  <2> QED
    BY <1>3, <1>5, <2>1, <2>2 DEF r
<1> QED
  BY <1>1, <1>4, <1>5

(* The threads of W have a new record or place, the others keep theirs.    *)
Others(W, now, G) ==
  /\ W \subseteq Threads \ {Guardian}
  /\ \A y \in Threads : y # Guardian /\ y \notin W => now[y] = th[y] /\ (In(G, y) <=> In(high, y))
  /\ \A y \in W : ~In(txQueue, y) /\ (y = Manager => now[y] = th[y])

LEMMA RoundsStep ==
  ASSUME TypeOK, LInv, Sound, NEW x, NEW now, NEW G, Rounds(x, now, G),
         In(high, Guardian), NEW W, Others(W, now, G),
         \A y \in W : Own(y)' /\ (mode = "intelligent" /\ th[Guardian].at # "asleep" /\ Believes(y)' => txUser = y),
         Heard', WakersFindIt', ~Ghost',
         mode = "intelligent" /\ txThread # None => x = txThread \/ In(G, txThread),
         heard' \in {"xon", "xoff", "missed"}, astray' \in {"no", "xon", "flow", "configure"}
  PROVE  Correct
<1> DEFINE g == th[Guardian].at
<1>0. /\ th' \in [Threads -> Records] /\ high' = G /\ ~In(high', Guardian)
      /\ \A y \in Threads : y # Guardian => th'[y] = now[y]
      /\ mode = "dumb" => /\ (txUser' = None) /\ (txThread' = None) /\ (sync' = Guardian)
                          /\ th'[Guardian] = At("none", "asleep", "none", 0)
      /\ mode = "intelligent" => sync' = sync /\ th'[Guardian] = At("none", "receive", "none", 0)
      /\ mode = "intelligent" /\ g # "asleep" => txUser' = txUser /\ txThread' = x
      /\ mode = "intelligent" /\ g = "asleep" => txUser' = None /\ txThread' = None
  BY RoundsShape
<1>1. /\ mode \in {"intelligent", "dumb"} /\ mode' = mode /\ stopped' = stopped /\ txQueue' = txQueue
      /\ {running', xoffed'} \subseteq BOOLEAN /\ stopped \in BOOLEAN
      /\ x \in {txThread, None} /\ G \in Seq(Threads) /\ Once(G)
      /\ {txUser, txThread, sync} \subseteq Threads \cup {None}
      /\ g \in {"receive", "message", "asleep"}
  BY DEF TypeOK, Rounds
<1>2. /\ Guardian \in Threads /\ Manager \in Threads /\ None \notin Threads /\ Guardian # Manager
      /\ Guardian # None
  BY Threaded DEF Special
<1>3. txUser' \in {txUser, None} /\ txThread' \in {txThread, None}
  BY <1>0, <1>1
<1>4. \E p \in {"asleep", "receive"} : /\ th'[Guardian].at = p /\ th'[Guardian].job = "none"
                                       /\ th'[Guardian].rc = "null" /\ th'[Guardian].endtime = "none"
                                       /\ p = "asleep" <=> mode = "dumb"
  <2>1. CASE mode = "dumb"
    BY <1>0, <2>1, AsleepShape
  <2>2. CASE mode = "intelligent"
    BY <1>0, <2>2, AsleepShape
  <2> QED
    BY <1>1, <2>1, <2>2
<1>5. Own(Guardian)' /\ ~Believes(Guardian)'
  <2>1. ~Believes(Guardian)'
    BY <1>4 DEF Believes
  <2>2. "none" \in JobsOf(Guardian) /\ {"asleep", "receive"} \subseteq PlacesOf(Guardian, "none")
    BY Threaded DEF JobsOf, PlacesOf
  <2>3. Shape(Guardian)'
    BY <1>4, <2>2 DEF Shape
  <2>4. ~In(txQueue, Guardian) /\ txUser # Guardian /\ txThread # Guardian
    <3>1. ~Believes(Guardian)
      BY <1>1 DEF Believes
    <3> QED
      BY <1>1, <1>2, <3>1 DEF LInv, Own, Placed
  <2>5. Placed(Guardian)'
    BY <1>0, <1>1, <1>2, <1>3, <1>4, <2>1, <2>4 DEF Placed
  <2> QED
    BY <2>1, <2>3, <2>5 DEF Own
<1>6. ASSUME NEW y \in Threads, y # Guardian, y \notin W
      PROVE  Own(y)' /\ (Believes(y)' <=> Believes(y))
  <2>1. Spared(y)
    BY <1>0, <1>1, <1>2, <1>3, <1>6 DEF Spared, Others
  <2> QED
    BY <2>1, OwnSpared DEF LInv
<1>7. \A y \in Threads : Own(y)'
  BY <1>5, <1>6
<1>8. ASSUME Served, Served', NEW y \in Threads, Believes(y)'
      PROVE  txUser' = y
  <2>1. mode = "intelligent" /\ g # "asleep"
    BY <1>8 DEF Served
  <2>2. y # Guardian
    BY <1>5, <1>8
  <2>3. CASE y \in W
    BY <1>0, <1>8, <2>1, <2>3
  <2>4. CASE y \notin W
    BY <1>0, <1>6, <1>8, <2>1, <2>2, <2>4 DEF Sound, Unseated
  <2> QED
    BY <2>3, <2>4
<1>9. Guarded'
  <2>1. th'[Manager].at = th[Manager].at
    BY <1>0, <1>2 DEF Others
  <2>2. th[Manager].at \in {"tx", "sync", "clear"} => mode = "dumb"
    BY DEF LInv, Guarded
  <2>3. CASE mode = "dumb"
    BY <1>0, <1>1, <1>2, <1>4, <2>1, <2>2, <2>3 DEF Guarded
  <2>4. CASE mode = "intelligent"
    <3>1. sync = None
      BY <2>4 DEF LInv, Guarded
    <3>2. th'[Guardian].at = "receive" /\ sync' = None
      BY <1>0, <1>4, <2>4, <3>1
    <3> QED
      BY <1>1, <1>2, <2>1, <2>2, <2>4, <3>2 DEF Guarded
  <2> QED
    BY <1>1, <2>3, <2>4
<1>10. UrgentFirst'
  <2>1. \A i \in 1 .. Len(txQueue) : txQueue[i] \in Threads /\ In(txQueue, txQueue[i])
    BY TypeParts, ElementOfSeq DEF In
  <2>2. ~In(txQueue, Guardian)
    BY <1>1, <1>2 DEF LInv, Own, Placed
  <2>3. \A i \in 1 .. Len(txQueue) : th'[txQueue[i]] = th[txQueue[i]]
    BY <1>0, <2>1, <2>2 DEF Others
  <2> QED
    BY <1>1, <2>3 DEF LInv, UrgentFirst, Urgent
<1>11. TypeOK'
  <2>1. txQueue \in Seq(Threads) /\ sync' \in Threads \cup {None}
    BY <1>0, <1>1, <1>2, TypeParts
  <2> QED
    BY <1>0, <1>1, <1>3, <2>1, NewTypes
<1>12. Lock!Next \/ UNCHANGED lock
  <2>1. CASE mode = "dumb"
    BY <1>1, <1>3, <2>1, DownLock
  <2>2. CASE mode = "intelligent" /\ g = "asleep"
    <3>1. ~Served /\ Served' \in BOOLEAN
      BY <2>2 DEF Served
    <3>2. Lock!Reconfigure
      BY <1>1, <1>3, <3>1 DEF Lock!Reconfigure
    <3> QED
      BY <3>2 DEF Lock!Next
  <2>3. CASE mode = "intelligent" /\ g # "asleep"
    <3>1. Served' = Served
      BY <1>1, <1>4, <2>3 DEF Served
    <3> QED
      BY <1>0, <1>1, <2>3, <3>1 DEF lock
  <2> QED
    BY <1>1, <2>1, <2>2, <2>3
<1>13. Resumed
  <2>1. ASSUME Served, txThread # None, txThread' # txThread
        PROVE  In(high', txThread)
    BY <1>0, <2>1 DEF Served
  <2> QED
    BY <2>1 DEF Resumed
<1>14. LInv'
  BY <1>0, <1>1, <1>7, <1>9, <1>10 DEF LInv
<1> QED
  BY <1>8, <1>11, <1>12, <1>13, <1>14 DEF Correct

(* The guardian runs.                                                      *)
LEMMA GuardianFirst ==
  ASSUME TypeOK, LInv, First(Guardian), th[Guardian].at \in {"receive", "message", "asleep"}
  PROVE  /\ Acts(Guardian, Tail(high)) /\ In(high, Guardian) /\ th[Guardian].rc # "FC_Xon"
         /\ Tail(high) \in Seq(Threads) /\ Once(Tail(high)) /\ ~In(Tail(high), Guardian)
         /\ \A y \in Threads : y # Guardian => (In(Tail(high), y) <=> In(high, y))
         /\ \A u, w \in Workers : Ahead(high, u, w) => Ahead(Tail(high), u, w)
<1>1. Guardian \in Threads /\ Guardian \notin Workers
  BY Threaded DEF Special
<1>2. Acts(Guardian, Tail(high)) /\ In(high, Guardian) /\ Shape(Guardian)
  BY <1>1, FirstActs DEF LInv, Own
<1>3. th[Guardian].rc # "FC_Xon"
  BY <1>2 DEF Shape
<1> QED
  BY <1>1, <1>2, <1>3 DEF Acts

LEMMA NewWorkerIs ==
  ASSUME TypeOK, LInv, Spare
  PROVE  /\ NewWorker \in Workers /\ NewWorker \in Threads /\ th[NewWorker] = Idle
         /\ NewWorker # Guardian /\ NewWorker # Manager
         /\ ~In(high, NewWorker) /\ ~In(txQueue, NewWorker)
         /\ txUser # NewWorker /\ txThread # NewWorker
<1>1. NewWorker \in Workers /\ th[NewWorker] = Idle
  BY DEF Spare, NewWorker
<1>2. NewWorker \in Threads /\ NewWorker # Guardian /\ NewWorker # Manager
  BY <1>1, Threaded
<1> HIDE DEF NewWorker
<1>3. Own(NewWorker) /\ th[NewWorker].at = "idle"
  BY <1>1, <1>2, IdleShape DEF LInv
<1>4. ~Believes(NewWorker)
  BY <1>3 DEF Believes
<1> QED
  BY <1>1, <1>2, <1>3, <1>4 DEF Own, Placed

NewJobs == {"hold", "reply", "info", "flow_xoff", "flow_xon"}

LEMMA StartShape ==
  ASSUME NEW j \in NewJobs
  PROVE  LET a == At(j, "start", "none", 0) IN
         /\ a \in Records /\ a.job = j /\ a.at = "start" /\ a.rc = "null" /\ a.endtime = "none"
<1>1. At(j, "start", "none", 0) \in Records
  BY AtType DEF Jobs, Places, NewJobs, Transfers
<1> QED
  BY <1>1 DEF At

LEMMA NewOwn ==
  ASSUME NEW w \in Workers, NEW j \in NewJobs, th'[w] = At(j, "start", "none", 0),
         In(high', w), ~In(txQueue', w), txThread' # w, txUser' # w
  PROVE  Own(w)' /\ ~Believes(w)'
<1> DEFINE a == At(j, "start", "none", 0)
<1>1. a.job = j /\ a.at = "start" /\ a.rc = "null" /\ a.endtime = "none"
  BY StartShape
<1> HIDE DEF a
<1>2. th'[w] = a
  BY DEF a
<1>3. ~Believes(w)'
  BY <1>1, <1>2 DEF Believes
<1>4. j \in JobsOf(w) /\ "start" \in PlacesOf(w, j)
  BY Threaded DEF JobsOf, PlacesOf, NewJobs
<1>5. Shape(w)'
  BY <1>1, <1>2, <1>4 DEF Shape
<1>6. Placed(w)'
  BY <1>1, <1>2, <1>3 DEF Placed
<1> QED
  BY <1>3, <1>5, <1>6 DEF Own

(* The worker joins the run queue, behind everybody.                       *)
LEMMA HeardNew ==
  ASSUME TypeOK, LInv, Sound, NEW w \in Workers, th[w] = Idle, NEW j \in NewJobs,
         th'[w] = At(j, "start", "none", 0), ~In(high, w),
         \A y \in Workers : y # w => HoldKept(y),
         AheadKept, \A u \in Workers : In(high, u) => Ahead(high', u, w),
         \/ j = "hold" /\ heard' = "xoff"
         \/ j # "hold" /\ heard' = heard
  PROVE  Heard'
<1> DEFINE a == At(j, "start", "none", 0)
<1>1. a.job = j /\ a.at = "start" /\ a.rc = "null" /\ a.endtime = "none"
  BY StartShape
<1> HIDE DEF a
<1>2. th'[w] = a
  BY DEF a
<1>3. CASE j = "hold" /\ heard' = "xoff"
  <2>1. Holding(w)'
    BY <1>1, <1>2, <1>3 DEF Holding
  <2>2. ASSUME NEW u \in Workers, th'[u].rc = "FC_Xon"
        PROVE  Ahead(high', u, w)
    <3>1. u # w
      BY <1>1, <1>2, <2>2
    <3>2. th[u].rc = "FC_Xon"
      BY <2>2, <3>1 DEF HoldKept
    <3>3. In(high, u)
      BY <3>2, Threaded DEF LInv, Own, Placed
    <3> QED
      BY <3>3
  <2> QED
    BY <1>3, <2>1, <2>2 DEF Heard
<1>4. CASE j # "hold" /\ heard' = heard
  <2>1. th[w].job = "none" /\ th[w].rc = "null"
    BY IdleShape
  <2>2. HoldKept(w)
    BY <1>1, <1>2, <1>4, <2>1 DEF HoldKept
  <2>3. HeardSame
    BY <1>4, <2>2 DEF HeardSame
  <2> QED
    BY <2>3, HeardKept DEF LInv
<1> QED
  BY <1>3, <1>4

(* NewWorker(), and round the loop; r are resumed besides.                 *)
LEMMA SpawnStep ==
  ASSUME TypeOK, LInv, Sound, NEW j \in NewJobs, First(Guardian), Spare,
         th[Guardian].at \in {"receive", "message"},
         NEW r, r \in {<<>>, <<Manager>>}, r = <<Manager>> => sync = Manager,
         NEW w, w = NewWorker, NEW now, now = [th EXCEPT ![w] = At(j, "start", "none", 0)],
         NEW G, G = Tail(high) \o <<w>> \o r,
         Loop(now, G),
         mode' = mode, stopped' = stopped, txQueue' = txQueue, {running', xoffed'} \subseteq BOOLEAN,
         astray' = astray,
         \/ j = "hold" /\ heard' = "xoff"
         \/ j # "hold" /\ heard' = heard
  PROVE  Correct
<1> DEFINE a == At(j, "start", "none", 0)
           q == Tail(high) \o <<w>>
           W == {w} \cup (IF r = <<>> THEN {} ELSE {Manager})
<1>1. /\ w \in Workers /\ w \in Threads /\ th[w] = Idle
      /\ w # Guardian /\ w # Manager /\ Manager \in Threads /\ Manager # Guardian /\ Manager \notin Workers
      /\ ~In(high, w) /\ ~In(txQueue, w) /\ txUser # w /\ txThread # w
  BY NewWorkerIs, Threaded DEF Special
<1>2. /\ Acts(Guardian, Tail(high)) /\ In(high, Guardian) /\ th[Guardian].rc # "FC_Xon"
      /\ Tail(high) \in Seq(Threads) /\ Once(Tail(high)) /\ ~In(Tail(high), Guardian)
      /\ \A y \in Threads : y # Guardian => (In(Tail(high), y) <=> In(high, y))
      /\ \A u, y \in Workers : Ahead(high, u, y) => Ahead(Tail(high), u, y)
  BY GuardianFirst
<1>3. a \in Records
  BY StartShape
<1> HIDE DEF a
<1>4. /\ now \in [Threads -> Records] /\ now[w] = a
      /\ \A y \in Threads : y # w => now[y] = th[y]
  BY <1>1, <1>3, TypeParts DEF a
<1>5. r = <<Manager>> => /\ ~In(high, Manager) /\ th[Manager].at = "sync" /\ ~In(txQueue, Manager)
                         /\ txThread # Manager
  BY <1>1 DEF LInv, Guarded, Own, Placed
<1>6. /\ q \in Seq(Threads) /\ Once(q) /\ <<w>> \in Seq(Threads)
      /\ \A y : In(q, y) <=> In(Tail(high), y) \/ y = w
  <2>1. ~In(Tail(high), w)
    BY <1>1, <1>2
  <2>2. <<w>> \in Seq(Threads) /\ Once(<<w>>) /\ \A y : In(<<w>>, y) <=> y = w
    BY <1>1, OnlyOne
  <2>3. \A y : ~(In(Tail(high), y) /\ In(<<w>>, y))
    BY <2>1, <2>2
  <2>4. Tail(high) \in Seq(Threads) /\ Once(Tail(high))
    BY <1>2
  <2>5. /\ q \in Seq(Threads) /\ Once(q)
        /\ \A y : In(q, y) <=> In(Tail(high), y) \/ In(<<w>>, y)
    BY <2>2, <2>3, <2>4, ConcatList
  <2> QED
    BY <2>2, <2>5
<1> HIDE DEF q
<1>7. /\ G = q \o r /\ r \in Seq(Threads) /\ G \in Seq(Threads) /\ Once(G)
      /\ \A y : In(G, y) <=> In(Tail(high), y) \/ y = w \/ (r # <<>> /\ y = Manager)
  <2>0. G = q \o r
    BY DEF q
  <2>1. CASE r = <<>>
    <3>1. q \o <<>> = q /\ <<>> \in Seq(Threads)
      BY <1>6
    <3> QED
      BY <1>6, <2>0, <2>1, <3>1
  <2>2. CASE r = <<Manager>>
    <3>1. <<Manager>> \in Seq(Threads) /\ Once(<<Manager>>) /\ (\A y : In(<<Manager>>, y) <=> y = Manager)
          /\ <<Manager>> # <<>>
      BY <1>1, OnlyOne
    <3>2. ~In(q, Manager)
      BY <1>1, <1>2, <1>5, <1>6, <2>2
    <3>4. \A y : ~(In(q, y) /\ In(<<Manager>>, y))
      BY <3>1, <3>2
    <3>3. /\ q \o <<Manager>> \in Seq(Threads) /\ Once(q \o <<Manager>>)
          /\ \A y : In(q \o <<Manager>>, y) <=> In(q, y) \/ In(<<Manager>>, y)
      BY <1>6, <3>1, <3>4, ConcatList
    <3> QED
      BY <1>6, <2>0, <2>2, <3>1, <3>3
  <2> QED
    BY <2>1, <2>2
<1>8. ~In(G, Guardian)
  BY <1>1, <1>2, <1>7
<1>9. Rounds(txThread, now, G)
  BY <1>4, <1>7, <1>8 DEF Rounds, Loop
<1>10. /\ high' = G
       /\ \A y \in Threads : y # Guardian => th'[y] = now[y]
       /\ txUser' \in {txUser, None} /\ txThread' \in {txThread, None}
       /\ mode = "intelligent" => txUser' = txUser
  <2>1. mode \in {"dumb", "intelligent"}
    BY DEF TypeOK
  <2> QED
    BY <1>9, <2>1, RoundsShape
<1>11. Own(w)' /\ ~Believes(w)'
  <2>1. th'[w] = a /\ In(high', w) /\ ~In(txQueue', w) /\ txThread' # w /\ txUser' # w
    BY <1>1, <1>4, <1>7, <1>10, Threaded DEF Special
  <2> QED
    BY <1>1, <2>1, NewOwn DEF a
<1>12. ASSUME r = <<Manager>>
       PROVE  Own(Manager)' /\ (mode = "intelligent" /\ Believes(Manager)' => txUser = Manager)
  <2>1. th'[Manager] = th[Manager] /\ In(high', Manager) /\ th[Manager].at = "sync"
        /\ ~In(txQueue', Manager) /\ txThread' # Manager
    BY <1>1, <1>4, <1>5, <1>7, <1>10, <1>12, Threaded, OnlyOne DEF Special
  <2>2. Believes(Manager) /\ Believes(Manager)'
    BY <2>1 DEF Believes
  <2>3. Shape(Manager)'
    BY <1>1, <2>1 DEF LInv, Own, Shape
  <2>4. Placed(Manager)'
    BY <2>1, <2>2 DEF Placed
  <2> QED
    BY <1>1, <2>2, <2>3, <2>4 DEF Own, Sound, Unseated
<1>13. Others(W, now, G)
  <2>1. r = <<>> \/ r = <<Manager>>
    OBVIOUS
  <2>2. <<Manager>> # <<>>
    BY <1>1, OnlyOne
  <2>3. W \subseteq Threads \ {Guardian}
    BY <1>1
  <2>4. \A y \in Threads : y # Guardian /\ y \notin W => now[y] = th[y] /\ (In(G, y) <=> In(high, y))
    BY <1>2, <1>4, <1>7, <2>1, <2>2
  <2>5. \A y \in W : ~In(txQueue, y) /\ (y = Manager => now[y] = th[y])
    BY <1>1, <1>4, <1>5, <2>1, <2>2
  <2> QED
    BY <2>3, <2>4, <2>5 DEF Others
<1>14. \A y \in W : Own(y)' /\ (mode = "intelligent" /\ th[Guardian].at # "asleep" /\ Believes(y)' => txUser = y)
  BY <1>11, <1>12
<1>15. Heard'
  <2>1. ASSUME NEW u \in Workers, NEW y \in Workers, Ahead(Tail(high), u, y)
        PROVE  Ahead(G, u, y)
    <3>1. Ahead(q, u, y)
      BY <1>2, <1>6, <2>1, AheadJoined DEF q
    <3> QED
      BY <1>6, <1>7, <3>1, AheadJoined
  <2>2. AheadKept
    BY <1>2, <1>10, <2>1 DEF AheadKept
  <2>3. ASSUME NEW u \in Workers, In(high, u)
        PROVE  Ahead(high', u, w)
    <3>1. u # Guardian /\ u \in Threads
      BY Threaded
    <3>2. In(Tail(high), u) /\ ~In(Tail(high), w)
      BY <1>1, <1>2, <2>3, <3>1
    <3>3. Ahead(Tail(high), u, w)
      BY <1>2, <3>2, AheadOfNew
    <3> QED
      BY <1>1, <1>10, <2>1, <3>3
  <2>4. \A y \in Workers : y # w => HoldKept(y)
    BY <1>4, <1>10, Threaded DEF HoldKept
  <2>5. th'[w] = At(j, "start", "none", 0)
    BY <1>1, <1>4, <1>10 DEF a
  <2> QED
    BY <1>1, <2>2, <2>3, <2>4, <2>5, HeardNew
<1>16. WakersFindIt' /\ astray' \in {"no", "xon", "flow", "configure"}
  BY AsBefore
<1>17. ~Ghost'
  <2>1. th[w].job = "none"
    BY <1>1, IdleShape
  <2>2. StopSame
    BY <1>4, <1>10, <2>1, Threaded DEF StopSame
  <2> QED
    BY <2>2, NoGhost DEF Sound
<1>18. heard' \in {"xon", "xoff", "missed"}
  BY DEF TypeOK
<1> HIDE DEF W
<1> QED
  BY <1>2, <1>9, <1>13, <1>14, <1>15, <1>16, <1>17, <1>18, RoundsStep

(* Round the loop without a new worker; the manager may be told that a     *)
(* message has ended.                                                      *)
LEMMA PlainStep ==
  ASSUME TypeOK, LInv, Sound, First(Guardian), th[Guardian].at \in {"receive", "message", "asleep"},
         NEW r, r \in {<<>>, <<Manager>>}, r = <<Manager>> => sync = Manager,
         NEW G, G = Tail(high) \o r,
         \/ (th[Guardian].at # "asleep") /\ Loop(th, G)
         \/ (th[Guardian].at = "asleep") /\ Restart(th, G),
         mode' = mode, stopped' = stopped, txQueue' = txQueue, {running', xoffed'} \subseteq BOOLEAN,
         WakersFindIt', astray' \in {"no", "xon", "flow", "configure"},
         \/ heard' = heard
         \/ heard' \in {"xon", "missed"} /\ (heard' = "xon" => \A x \in Workers : th[x].job # "hold")
  PROVE  Correct
<1> DEFINE W == IF r = <<>> THEN {} ELSE {Manager}
<1>1. Manager \in Threads /\ Manager # Guardian /\ Manager \notin Workers /\ Guardian \notin Workers
      /\ None # Manager
  BY Threaded DEF Special
<1>2. /\ Acts(Guardian, Tail(high)) /\ In(high, Guardian) /\ th[Guardian].rc # "FC_Xon"
      /\ Tail(high) \in Seq(Threads) /\ Once(Tail(high)) /\ ~In(Tail(high), Guardian)
      /\ \A y \in Threads : y # Guardian => (In(Tail(high), y) <=> In(high, y))
      /\ \A u, y \in Workers : Ahead(high, u, y) => Ahead(Tail(high), u, y)
  BY GuardianFirst
<1>5. r = <<Manager>> => /\ ~In(high, Manager) /\ th[Manager].at = "sync" /\ ~In(txQueue, Manager)
                         /\ txThread # Manager
  BY <1>1 DEF LInv, Guarded, Own, Placed
<1>6. <<Manager>> \in Seq(Threads) /\ Once(<<Manager>>) /\ (\A y : In(<<Manager>>, y) <=> y = Manager)
          /\ <<Manager>> # <<>>
  BY <1>1, OnlyOne
<1>7. /\ r \in Seq(Threads) /\ G \in Seq(Threads) /\ Once(G)
      /\ \A y : In(G, y) <=> In(Tail(high), y) \/ (r # <<>> /\ y = Manager)
  <2>1. CASE r = <<>>
    <3>1. Tail(high) \o <<>> = Tail(high) /\ <<>> \in Seq(Threads)
      BY <1>2
    <3> QED
      BY <1>2, <2>1, <3>1
  <2>2. CASE r = <<Manager>>
    <3>1. \A y : ~(In(Tail(high), y) /\ In(<<Manager>>, y))
      BY <1>1, <1>2, <1>5, <1>6, <2>2
    <3>2. Tail(high) \in Seq(Threads) /\ Once(Tail(high))
      BY <1>2
    <3>3. /\ Tail(high) \o <<Manager>> \in Seq(Threads) /\ Once(Tail(high) \o <<Manager>>)
          /\ \A y : In(Tail(high) \o <<Manager>>, y) <=> In(Tail(high), y) \/ In(<<Manager>>, y)
      BY <1>6, <3>1, <3>2, ConcatList
    <3> QED
      BY <1>6, <2>2, <3>3
  <2> QED
    BY <2>1, <2>2
<1>8. ~In(G, Guardian)
  BY <1>1, <1>2, <1>7
<1>9. Rounds(txThread, th, G)
  BY <1>7, <1>8, TypeParts DEF Rounds, Loop
<1>10. /\ high' = G
       /\ \A y \in Threads : y # Guardian => th'[y] = th[y]
       /\ txUser' \in {txUser, None} /\ txThread' \in {txThread, None}
  <2>1. mode \in {"dumb", "intelligent"} /\ th[Guardian].at \in {"receive", "message", "asleep"}
    BY DEF TypeOK
  <2> QED
    BY <1>9, <2>1, RoundsShape
<1>12. ASSUME r = <<Manager>>
       PROVE  Own(Manager)' /\ (mode = "intelligent" /\ Believes(Manager)' => txUser = Manager)
  <2>1. th'[Manager] = th[Manager] /\ In(high', Manager) /\ th[Manager].at = "sync"
        /\ ~In(txQueue', Manager) /\ txThread' # Manager
    BY <1>1, <1>5, <1>6, <1>7, <1>10, <1>12
  <2>2. Believes(Manager) /\ Believes(Manager)'
    BY <2>1 DEF Believes
  <2>3. Shape(Manager)'
    BY <1>1, <2>1 DEF LInv, Own, Shape
  <2>4. Placed(Manager)'
    BY <2>1, <2>2 DEF Placed
  <2> QED
    BY <1>1, <2>2, <2>3, <2>4 DEF Own, Sound, Unseated
<1>13. Others(W, th, G)
  <2>1. r = <<>> \/ r = <<Manager>>
    OBVIOUS
  <2> QED
    BY <1>1, <1>2, <1>5, <1>7, <2>1 DEF Others
<1>14. \A y \in W : Own(y)' /\ (mode = "intelligent" /\ th[Guardian].at # "asleep" /\ Believes(y)' => txUser = y)
  <2>1. CASE r = <<>>
    BY <2>1
  <2>2. CASE r = <<Manager>>
    BY <1>12, <2>2
  <2> QED
    BY <2>1, <2>2
<1>15. Heard'
  <2>0. \A y \in Workers : th'[y] = th[y]
    BY <1>10, Threaded
  <2>1. CASE heard' = heard
    <3>1. AheadKept
      BY <1>2, <1>7, <1>10, AheadJoined DEF AheadKept
    <3>2. HeardSame
      BY <2>0, <2>1, <3>1 DEF HeardSame, HoldKept
    <3> QED
      BY <3>2, HeardKept DEF LInv
  <2>2. CASE heard' \in {"xon", "missed"} /\ (heard' = "xon" => \A x \in Workers : th[x].job # "hold")
    BY <2>0, <2>2 DEF Heard
  <2> QED
    BY <2>1, <2>2
<1>16. heard' \in {"xon", "xoff", "missed"}
  BY DEF TypeOK
<1>17. ~Ghost'
  <2>2. StopSame
    BY <1>10, Threaded DEF StopSame
  <2> QED
    BY <2>2, NoGhost DEF Sound
<1> HIDE DEF W
<1> QED
  BY <1>2, <1>9, <1>13, <1>14, <1>15, <1>16, <1>17, RoundsStep

(* An Xon: the HandleXoff() in charge is told.                             *)
Tells(u, sending, x, now, G) ==
  /\ u = txUser /\ sending \in BOOLEAN
  /\ sending <=> Halted /\ u # None /\ th[u].rc = "FC_LinkTx"
  /\ Halted /\ (Waits(u) \/ (sending /\ txThread # None))
  /\ x = IF sending THEN None ELSE txThread
  /\ now = [th EXCEPT ![u].rc = Xon(u)]
  /\ G = Append(Tail(high), IF sending THEN txThread ELSE u)

LEMMA XonToldStep ==
  ASSUME TypeOK, LInv, Sound, First(Guardian), th[Guardian].at \in {"receive", "message"},
         NEW u, NEW sending, NEW x, NEW now, NEW G, Tells(u, sending, x, now, G),
         LoopWith(x, now, G), heard' = Told({u}), astray' = astray,
         mode' = mode, stopped' = stopped, txQueue' = txQueue, {running', xoffed'} \subseteq BOOLEAN
  PROVE  Correct
<1>1. /\ u \in Workers /\ u \in Threads /\ th[u].job = "hold" /\ th[u].at \in {"stop", "tx"}
      /\ u # Guardian /\ u # Manager /\ u # None /\ stopped /\ Own(u) /\ Believes(u)
  BY StopHolder, Threaded DEF Halted, Holders, Special, LInv, Believes, Tells
<1>2. /\ Acts(Guardian, Tail(high)) /\ In(high, Guardian) /\ th[Guardian].rc # "FC_Xon"
      /\ Tail(high) \in Seq(Threads) /\ Once(Tail(high)) /\ ~In(Tail(high), Guardian)
      /\ \A y \in Threads : y # Guardian => (In(Tail(high), y) <=> In(high, y))
      /\ \A v, y \in Workers : Ahead(high, v, y) => Ahead(Tail(high), v, y)
  BY GuardianFirst
<1>3. txThread # None => txThread = u /\ th[u].at = "tx" /\ ~In(high, u)
  <2>1. ASSUME txThread # None
        PROVE  txThread = u /\ th[u].at = "tx" /\ ~In(high, u)
    <3>1. txThread \in Threads
      BY <2>1 DEF TypeOK
    <3>2. th[txThread].at = "tx" /\ ~In(high, txThread)
      BY <3>1 DEF LInv, Own, Placed
    <3>3. Believes(txThread)
      BY <3>2 DEF Believes
    <3> QED
      BY <3>1, <3>2, <3>3 DEF Sound, Unseated, Tells
  <2> QED
    BY <2>1
<1>4. ~In(high, u) /\ (IF sending THEN txThread ELSE u) = u
  <2>1. CASE sending /\ txThread # None
    BY <1>3, <2>1
  <2>2. CASE Waits(u) /\ ~(sending /\ txThread # None)
    <3>1. th[u].at = "stop" /\ ~In(high, u)
      BY <2>2 DEF Waits, Suspended
    <3>2. th[u].rc # "FC_LinkTx"
      BY <1>1, <3>1 DEF Own, Shape
    <3> QED
      BY <3>1, <3>2 DEF Tells
  <2> QED
    BY <2>1, <2>2 DEF Tells
<1>5. txThread # None => x = txThread \/ txThread = u
  BY <1>3 DEF Tells
<1>6. x \in {txThread, None} /\ (x = u => FALSE)
  <2>1. CASE sending
    BY <1>1, <2>1 DEF Tells
  <2>2. CASE ~sending
    <3>1. th[u].at = "stop" /\ x = txThread
      BY <2>2 DEF Waits, Suspended, Tells
    <3> QED
      BY <1>1, <1>3, <2>2, <3>1
  <2> QED
    BY <2>1, <2>2 DEF Tells
<1>7. /\ G = Append(Tail(high), u) /\ G \in Seq(Threads) /\ Once(G) /\ G = Tail(high) \o <<u>>
      /\ <<u>> \in Seq(Threads)
      /\ \A y : In(G, y) <=> In(Tail(high), y) \/ y = u
  <2>1. ~In(Tail(high), u)
    BY <1>1, <1>2, <1>4
  <2>2. G = Append(Tail(high), u)
    BY <1>4 DEF Tells
  <2>3. /\ Append(Tail(high), u) \in Seq(Threads) /\ Once(Append(Tail(high), u))
        /\ \A y : In(Append(Tail(high), u), y) <=> In(Tail(high), y) \/ y = u
    BY <1>1, <1>2, <2>1, AppendList
  <2>4. Append(Tail(high), u) = Tail(high) \o <<u>> /\ <<u>> \in Seq(Threads)
    BY <1>1, <1>2, AppendIsJoin
  <2> QED
    BY <2>2, <2>3, <2>4
<1> DEFINE r == [th[u] EXCEPT !.rc = "FC_Xon"]
<1>8. /\ r \in Records /\ r.job = "hold" /\ r.at = th[u].at /\ r.rc = "FC_Xon" /\ r.endtime = th[u].endtime
      /\ r.left = th[u].left
  <2>1. th[u] \in Records
    BY <1>1, TypeParts
  <2> QED
    BY <1>1, <2>1 DEF Records, Results
<1>9. /\ now \in [Threads -> Records] /\ now[u] = r
      /\ \A y \in Threads : y # u => now[y] = th[y]
  <2>1. now = [th EXCEPT ![u] = r]
    BY <1>1, TypeParts DEF Xon, Tells
  <2> HIDE DEF r
  <2> QED
    BY <1>1, <1>8, <2>1, TypeParts
<1> HIDE DEF r
<1>10. Rounds(x, now, G)
  BY <1>1, <1>2, <1>6, <1>7, <1>9 DEF Rounds
<1>11. /\ high' = G
       /\ \A y \in Threads : y # Guardian => th'[y] = now[y]
       /\ txUser' \in {txUser, None} /\ txThread' \in {x, None}
  <2>1. mode \in {"dumb", "intelligent"} /\ th[Guardian].at \in {"receive", "message"}
    BY DEF TypeOK
  <2> QED
    BY <1>10, <2>1, RoundsShape
<1>12. th'[u] = r /\ In(high', u) /\ txQueue' = txQueue /\ txThread' # u /\ ~In(txQueue, u)
  BY <1>1, <1>6, <1>7, <1>9, <1>11 DEF Own, Placed
<1>13. Own(u)'
  <2>1. Believes(u)'
    BY <1>1, <1>8, <1>12 DEF Believes
  <2>2. Shape(u)'
    BY <1>1, <1>8, <1>12 DEF Own, Shape
  <2>3. Placed(u)'
    BY <1>1, <1>8, <1>12, <2>1 DEF Placed
  <2> QED
    BY <2>2, <2>3 DEF Own
<1>14. Others({u}, now, G)
  BY <1>1, <1>2, <1>7, <1>9, <1>12 DEF Others
<1>15. Heard'
  <2>1. heard' \in {"xon", "missed"}
    BY DEF Told
  <2>2. ASSUME heard' = "xon", NEW w \in Workers, th'[w].job = "hold"
        PROVE  th'[w].rc = "FC_Xon"
    <3>1. ~\E v \in Workers \ {u} : th[v].job = "hold"
      BY <2>2 DEF Told
    <3>2. CASE w = u
      BY <1>8, <1>12, <3>2
    <3>3. CASE w # u
      BY <1>9, <1>11, <2>2, <3>1, <3>3, Threaded
    <3> QED
      BY <3>2, <3>3
  <2> QED
    BY <2>1, <2>2 DEF Heard
<1>16. WakersFindIt' /\ astray' \in {"no", "xon", "flow", "configure"}
  BY AsBefore
<1>17. ~Ghost'
  <2>1. StopSame
    BY <1>1, <1>8, <1>9, <1>11, <1>12, Threaded DEF StopSame
  <2> QED
    BY <2>1, NoGhost DEF Sound
<1>18. mode = "intelligent" /\ txThread # None => x = txThread \/ In(G, txThread)
  BY <1>5, <1>7
<1>19. heard' \in {"xon", "xoff", "missed"}
  BY DEF Told
<1>20. \A y \in {u} : Own(y)' /\ (mode = "intelligent" /\ th[Guardian].at # "asleep" /\ Believes(y)' => txUser = y)
  BY <1>13 DEF Tells
<1> HIDE DEF Rounds, Others
<1> QED
  BY <1>2, <1>10, <1>20, <1>14, <1>15, <1>16, <1>17, <1>18, <1>19, RoundsStep

LEMMA HandleXonStep ==
  ASSUME TypeOK, LInv, Sound, First(Guardian), th[Guardian].at = "receive",
         HandleXon, UNCHANGED <<flags, xoffed, txQueue>>
  PROVE  Correct
<1>0. /\ th[Guardian].at \in {"receive", "message", "asleep"} /\ th[Guardian].at \in {"receive", "message"}
      /\ mode' = mode /\ stopped' = stopped /\ txQueue' = txQueue /\ {running', xoffed'} \subseteq BOOLEAN
  BY DEF flags, TypeOK
<1>1. PICK u : u = txUser
  OBVIOUS
<1>2. PICK sending : sending = (Halted /\ u # None /\ th[u].rc = "FC_LinkTx")
  OBVIOUS
<1>3. sending \in BOOLEAN /\ (sending <=> Halted /\ u # None /\ th[u].rc = "FC_LinkTx")
  BY <1>2
<1>4. CASE Halted /\ (Waits(u) \/ (sending /\ txThread # None))
  <2>1. PICK x : x = IF sending THEN None ELSE txThread
    OBVIOUS
  <2>2. PICK now : now = [th EXCEPT ![u].rc = Xon(u)]
    OBVIOUS
  <2>3. PICK G : G = Append(Tail(high), IF sending THEN txThread ELSE u)
    OBVIOUS
  <2>4. Tells(u, sending, x, now, G)
    BY <1>1, <1>3, <1>4, <2>1, <2>2, <2>3 DEF Tells
  <2>5. LoopWith(x, now, G) /\ heard' = Told({u}) /\ astray' = astray
    <3>1. /\ LoopWith(IF sending THEN None ELSE txThread, [th EXCEPT ![u].rc = Xon(u)],
                      Append(Tail(high), IF sending THEN txThread ELSE u))
          /\ heard' = Told({u}) /\ UNCHANGED astray
      BY <1>1, <1>2, <1>4 DEF HandleXon
    <3> QED
      BY <2>1, <2>2, <2>3, <3>1
  <2> QED
    BY <1>0, <2>4, <2>5, XonToldStep
<1>5. CASE ~(Halted /\ (Waits(u) \/ (sending /\ txThread # None)))
  <2>1. Loop(th, Tail(high)) /\ heard' = Told({}) /\ astray' = IF Halted /\ ~sending THEN "xon" ELSE astray
    BY <1>1, <1>2, <1>5 DEF HandleXon
  <2>2. Tail(high) = Tail(high) \o <<>>
    BY <1>0, GuardianFirst
  <2>3. WakersFindIt' /\ astray' \in {"no", "xon", "flow", "configure"}
    <3>1. CASE ~(Halted /\ ~sending)
      <4>1. astray' = astray
        BY <2>1, <3>1
      <4> QED
        BY <4>1, AsBefore
    <3>2. CASE Halted /\ ~sending
      <4>1. /\ txUser \in Workers /\ txUser \in Threads /\ txUser # None
            /\ th[txUser].job = "hold" /\ th[txUser].at \in {"stop", "tx"} /\ txUser # Guardian
        BY <3>2, StopHolder, Threaded DEF Halted, Holders, Special
      <4>2. th[txUser].at = "tx" \/ In(high, txUser)
        BY <1>1, <1>5, <3>2, <4>1 DEF Waits, Suspended
      <4>3. Rounds(txThread, th, Tail(high))
        BY <1>0, <2>1, GuardianFirst, TypeParts DEF Rounds, Loop
      <4>4. th'[txUser] = th[txUser] /\ high' = Tail(high)
        BY <4>1, <4>3, RoundsShape
      <4>5. In(high', txUser) <=> In(high, txUser)
        BY <1>0, <4>1, <4>4, GuardianFirst
      <4>6. txUser \in Interrupted'
        BY <4>1, <4>2, <4>4, <4>5 DEF Interrupted
      <4> QED
        BY <2>1, <3>2, <4>6 DEF WakersFindIt
    <3> QED
      BY <3>1, <3>2
  <2>4. heard' \in {"xon", "missed"} /\ (heard' = "xon" => \A x \in Workers : th[x].job # "hold")
    BY <2>1 DEF Told
  <2>5. PICK r : r = <<>>
    OBVIOUS
  <2>6. r \in {<<>>, <<Manager>>} /\ r # <<Manager>>
    <3>1. <<Manager>> # <<>>
      OBVIOUS
    <3> QED
      BY <2>5, <3>1
  <2>7. PICK G : G = Tail(high)
    OBVIOUS
  <2>8. G = Tail(high) \o r /\ Loop(th, G)
    BY <2>1, <2>2, <2>5, <2>7
  <2> QED
    BY <1>0, <2>3, <2>4, <2>6, <2>8, PlainStep
<1> QED
  BY <1>4, <1>5

LEMMA SpawnsStep ==
  ASSUME TypeOK, LInv, Sound, NEW j \in NewJobs, First(Guardian),
         th[Guardian].at = "receive", Spawn(j),
         mode' = mode, stopped' = stopped, txQueue' = txQueue, {running', xoffed'} \subseteq BOOLEAN,
         astray' = astray,
         \/ j = "hold" /\ heard' = "xoff"
         \/ j # "hold" /\ heard' = heard
  PROVE  Correct
<1>1. PICK w : w = NewWorker
  OBVIOUS
<1>2. PICK now : now = [th EXCEPT ![w] = At(j, "start", "none", 0)]
  OBVIOUS
<1>3. PICK r : r = <<>>
  OBVIOUS
<1>4. PICK G : G = Append(Tail(high), w)
  OBVIOUS
<1>5. Spare /\ Loop(now, G)
  BY <1>1, <1>2, <1>4 DEF Spawn
<1>6. th[Guardian].at \in {"receive", "message"} /\ th[Guardian].at \in {"receive", "message", "asleep"}
  OBVIOUS
<1>7. G = Tail(high) \o <<w>> \o r
  <2>1. w \in Threads /\ Tail(high) \in Seq(Threads)
    BY <1>1, <1>5, <1>6, NewWorkerIs, GuardianFirst
  <2>2. Append(Tail(high), w) = Tail(high) \o <<w>> /\ <<w>> \in Seq(Threads)
    BY <2>1, AppendIsJoin
  <2>3. PICK q : q = Tail(high) \o <<w>>
    OBVIOUS
  <2>4. q \in Seq(Threads)
    BY <2>1, <2>2, <2>3, ConcatProperties
  <2>5. q \o <<>> = q
    BY <2>4
  <2> QED
    BY <1>3, <1>4, <2>2, <2>3, <2>5
<1>8. r \in {<<>>, <<Manager>>} /\ (r = <<Manager>> => sync = Manager)
  <2>1. <<Manager>> # <<>>
    OBVIOUS
  <2> QED
    BY <1>3, <2>1
<1> QED
  BY <1>1, <1>2, <1>5, <1>6, <1>7, <1>8, SpawnStep

LEMMA MessageBegins ==
  ASSUME TypeOK, LInv, Sound, First(Guardian), th[Guardian].at = "receive",
         Becomes(Guardian, At("none", "message", "none", 0), Tail(high)),
         UNCHANGED <<flags, xoffed, txUser, txQueue, txThread, sync, heard, astray>>
  PROVE  Correct
<1> DEFINE a == At("none", "message", "none", 0)
           t == Guardian
<1>0. UNCHANGED <<mode, running, stopped, xoffed, txUser, txQueue, txThread, sync, heard, astray>>
      /\ xoffed \in BOOLEAN
  BY DEF flags, TypeOK
<1>1. a \in Records /\ a.job = "none" /\ a.at = "message" /\ a.rc = "null" /\ a.endtime = "none"
  BY AsleepShape
<1>2. t \in Threads /\ t \notin Workers /\ Manager \in Threads /\ t # Manager /\ None # t /\ None # Manager
      /\ \A x \in Workers : x \in Threads
  BY Threaded DEF Special
<1>3. /\ Acts(t, Tail(high)) /\ th[t].rc # "FC_Xon" /\ Tail(high) \in Seq(Threads) /\ Once(Tail(high))
      /\ ~In(Tail(high), t)
      /\ \A y \in Threads : y # t => (In(Tail(high), y) <=> In(high, y))
  <2>1. th[Guardian].at \in {"receive", "message", "asleep"}
    OBVIOUS
  <2> QED
    BY <2>1, GuardianFirst
<1> HIDE DEF a
<1>4. /\ th' \in [Threads -> Records] /\ th'[t] = a /\ high' = Tail(high)
      /\ \A x \in Threads : x # t => th'[x] = th[x]
  BY <1>1, <1>2, SetRecord DEF a
<1>5. Apart(t)
  BY <1>0, <1>3, <1>4 DEF Apart
<1>6. TypeOK'
  <2>1. running \in BOOLEAN /\ mode \in {"intelligent", "dumb"} /\ stopped \in BOOLEAN
        /\ heard \in {"xon", "xoff", "missed"} /\ astray \in {"no", "xon", "flow", "configure"}
        /\ {txUser, txThread, sync} \subseteq Threads \cup {None}
        /\ txQueue \in Seq(Threads)
    BY DEF TypeOK
  <2> QED
    BY <1>0, <1>3, <1>4, <2>1, NewTypes
<1>7. UrgentFirst'
  <2>1. \A i \in 1 .. Len(txQueue) : txQueue[i] \in Threads
    BY TypeParts, ElementOfSeq
  <2>2. ~In(txQueue, t)
    BY <1>3 DEF Acts
  <2>3. \A i \in 1 .. Len(txQueue) : th'[txQueue[i]] = th[txQueue[i]]
    BY <1>4, <2>1, <2>2 DEF In
  <2> QED
    BY <1>0, <2>3 DEF LInv, UrgentFirst, Urgent
<1>8. ~Believes(t) /\ ~In(txQueue, t) /\ txThread # t /\ txUser # t
  <2>1. ~Believes(t)
    BY DEF Believes
  <2> QED
    BY <1>2, <1>3, <2>1 DEF Acts, LInv, Own, Placed
<1>9. ASSUME NEW x \in Threads
      PROVE  Own(x)' /\ (Believes(x)' => txUser' = x)
  <2>1. CASE x # t
    BY <1>0, <1>2, <1>5, <2>1, OthersApart DEF Sound, Unseated
  <2>2. CASE x = t
    <3>1. ~Believes(t)'
      BY <1>1, <1>4 DEF Believes
    <3>2. "none" \in JobsOf(t) /\ "message" \in PlacesOf(t, "none")
      BY Threaded DEF JobsOf, PlacesOf
    <3>3. Shape(t)'
      BY <1>1, <1>4, <3>2 DEF Shape
    <3>4. Placed(t)'
      BY <1>0, <1>1, <1>3, <1>4, <1>8, <3>1 DEF Placed
    <3> QED
      BY <2>2, <3>1, <3>3, <3>4 DEF Own
  <2> QED
    BY <2>1, <2>2
<1>10. Guarded' /\ Served' = Served
  <2>1. th[Guardian].at = "receive" /\ th'[Guardian].at = "message" /\ th'[Manager] = th[Manager]
        /\ sync = None
    BY <1>1, <1>2, <1>4 DEF LInv, Guarded
  <2> QED
    BY <1>0, <1>2, <2>1 DEF LInv, Guarded, Served
<1>11. Heard'
  <2>1. AheadKept
    BY <1>2, <1>3, <1>4, OrderLeft
  <2>2. HeardSame
    BY <1>0, <1>2, <1>4, <2>1 DEF HeardSame, HoldKept
  <2> QED
    BY <2>2, HeardKept DEF LInv
<1>12. ~Ghost'
  <2>1. StopSame
    BY <1>0, <1>2, <1>4 DEF StopSame
  <2> QED
    BY <2>1, NoGhost DEF Sound
<1>13. WakersFindIt'
  BY <1>0, AsBefore
<1>14. Orderly
  BY <1>0, <1>3, <1>4, <1>6, <1>7, <1>9, <1>10, <1>11, <1>12, <1>13 DEF Orderly, lock, Resumed, LInv
<1> QED
  BY <1>14, OrderlyCorrect

LEMMA GuardianActsStep ==
  ASSUME TypeOK, LInv, Sound, GuardianActs
  PROVE  Correct
<1>0. /\ First(Guardian) /\ th[Guardian].at = "receive" /\ th[Guardian].rc = "null" /\ xoffed' = xoffed
      /\ {running, xoffed} \subseteq BOOLEAN
  BY DEF GuardianActs, TypeOK
<1>1. CASE UNCHANGED <<flags, txQueue>> /\ Spawn("hold") /\ heard' = "xoff" /\ UNCHANGED astray
  BY <1>0, <1>1, SpawnsStep DEF NewJobs, flags
<1>2. CASE UNCHANGED <<flags, txQueue>> /\ HandleXon
  BY <1>0, <1>2, HandleXonStep
<1>3. CASE UNCHANGED <<flags, txQueue>> /\ Spawn("reply") /\ UNCHANGED <<heard, astray>>
  BY <1>0, <1>3, SpawnsStep DEF NewJobs, flags
<1>4. CASE /\ Becomes(Guardian, At("none", "message", "none", 0), Tail(high))
           /\ UNCHANGED <<flags, txUser, txQueue, txThread, sync, heard, astray>>
  BY <1>0, <1>4, MessageBegins
<1>5. CASE /\ running' = TRUE
           /\ UNCHANGED <<mode, stopped, txQueue, heard, astray>>
           /\ Spawn("info")
  BY <1>0, <1>5, SpawnsStep DEF NewJobs
<1>6. CASE JumpLink(Guardian, "dumb", Tail(high)) /\ UNCHANGED <<heard, astray>>
  <2>1. Guardian \in Threads /\ Guardian # Manager
    BY Threaded DEF Special
  <2>2. Acts(Guardian, Tail(high)) /\ th[Guardian].rc # "FC_Xon" /\ ~Believes(Guardian)
    BY <1>0, GuardianFirst DEF Believes
  <2>3. "dumb" \in JobsOf(Guardian) /\ th[Guardian].job # "hold"
    <3>1. Shape(Guardian) /\ JobsOf(Guardian) = {"none", "dumb"}
      BY <2>1, Threaded DEF LInv, Own, JobsOf
    <3> QED
      BY <3>1 DEF Shape
  <2>4. Ready(Guardian, "dumb", Tail(high))
    BY <1>0, <2>1, <2>2, <2>3 DEF Ready
  <2>5. Still
    BY <1>0, <1>6 DEF Still
  <2> QED
    BY <1>6, <2>1, <2>2, <2>4, <2>5, DumbJump
<1>7. CASE /\ running' = FALSE
           /\ UNCHANGED <<mode, stopped, txQueue, heard, astray>>
           /\ Loop(th, Tail(high))
  <2>1. PICK r : r = <<>>
    OBVIOUS
  <2>2. r \in {<<>>, <<Manager>>} /\ r # <<Manager>>
    <3>1. <<Manager>> # <<>>
      OBVIOUS
    <3> QED
      BY <2>1, <3>1
  <2>3. PICK G : G = Tail(high)
    OBVIOUS
  <2>4. th[Guardian].at \in {"receive", "message", "asleep"} /\ th[Guardian].at # "asleep"
    BY <1>0
  <2>5. G = Tail(high) \o r /\ Loop(th, G)
    BY <1>7, <2>1, <2>3, <2>4, GuardianFirst
  <2>6. WakersFindIt' /\ astray' \in {"no", "xon", "flow", "configure"}
    BY <1>7, AsBefore
  <2> QED
    BY <1>0, <1>7, <2>2, <2>4, <2>5, <2>6, PlainStep
<1> QED
  BY <1>1, <1>2, <1>3, <1>4, <1>5, <1>6, <1>7 DEF GuardianActs

(* A step of the guardian's that tells nobody anything, when round again.  *)
LEMMA LoopsStep ==
  ASSUME TypeOK, LInv, Sound, First(Guardian), th[Guardian].at \in {"receive", "message", "asleep"},
         \/ (th[Guardian].at # "asleep") /\ Loop(th, Tail(high))
         \/ (th[Guardian].at = "asleep") /\ Restart(th, Tail(high)),
         mode' = mode, stopped' = stopped, txQueue' = txQueue, {running', xoffed'} \subseteq BOOLEAN,
         heard' = heard, astray' = astray
  PROVE  Correct
<1>1. PICK r : r = <<>>
  OBVIOUS
<1>2. r \in {<<>>, <<Manager>>} /\ r # <<Manager>>
  <2>1. <<Manager>> # <<>>
    OBVIOUS
  <2> QED
    BY <1>1, <2>1
<1>3. PICK G : G = Tail(high)
  OBVIOUS
<1>4. G = Tail(high) \o r
  BY <1>1, <1>3, GuardianFirst
<1>5. WakersFindIt' /\ astray' \in {"no", "xon", "flow", "configure"}
  BY AsBefore
<1>6. \/ (th[Guardian].at # "asleep") /\ Loop(th, G)
      \/ (th[Guardian].at = "asleep") /\ Restart(th, G)
  BY <1>3
<1> QED
  BY <1>2, <1>4, <1>5, <1>6, PlainStep

LEMMA GuardianTimesOutStep ==
  ASSUME TypeOK, LInv, Sound, GuardianTimesOut
  PROVE  Correct
<1>1. /\ First(Guardian) /\ th[Guardian].at = "receive" /\ {running', xoffed'} \subseteq BOOLEAN
      /\ UNCHANGED <<mode, stopped, xoffed, txQueue, heard, astray>>
      /\ Loop(th, Tail(high)) \/ Spawn("info")
  BY DEF GuardianTimesOut, TypeOK
<1>2. CASE Loop(th, Tail(high))
  <2>1. th[Guardian].at \in {"receive", "message", "asleep"} /\ th[Guardian].at # "asleep"
    BY <1>1
  <2> QED
    BY <1>1, <1>2, <2>1, LoopsStep
<1>3. CASE Spawn("info")
  BY <1>1, <1>3, SpawnsStep DEF NewJobs
<1> QED
  BY <1>1, <1>2, <1>3

LEMMA GuardianWakesStep ==
  ASSUME TypeOK, LInv, Sound, GuardianWakes
  PROVE  Correct
<1>1. /\ First(Guardian) /\ th[Guardian].at = "asleep" /\ {running', xoffed'} \subseteq BOOLEAN
      /\ UNCHANGED <<flags, xoffed, txQueue, heard, astray>>
      /\ Restart(th, Tail(high))
  BY DEF GuardianWakes, TypeOK, flags
<1>2. UNCHANGED <<mode, stopped, txQueue, heard, astray>>
  BY <1>1 DEF flags
<1>3. th[Guardian].at \in {"receive", "message", "asleep"}
  BY <1>1
<1> QED
  BY <1>1, <1>2, <1>3, LoopsStep

LEMMA MessageEndsStep ==
  ASSUME TypeOK, LInv, Sound, MessageEnds
  PROVE  Correct
<1>1. /\ First(Guardian) /\ th[Guardian].at = "message" /\ {running', xoffed'} \subseteq BOOLEAN
      /\ UNCHANGED <<mode, stopped, xoffed, txQueue, heard, astray>>
  BY DEF MessageEnds, TypeOK
<1>2. th[Guardian].at \in {"receive", "message", "asleep"} /\ th[Guardian].at \in {"receive", "message"}
      /\ th[Guardian].at # "asleep"
  BY <1>1
<1>3. PICK r : r = Notified
  OBVIOUS
<1>4. r \in {<<>>, <<Manager>>} /\ (r = <<Manager>> => sync = Manager)
  <2>1. sync \in {None, Manager} /\ <<Manager>> # <<>>
    BY <1>1 DEF LInv, Guarded
  <2> QED
    BY <1>3, <2>1 DEF Notified
<1>5. Tail(high) \in Seq(Threads) /\ Manager \in Threads
  BY <1>1, <1>2, GuardianFirst, Threaded DEF Special
<1>6. CASE Loop(th, Tail(high) \o <<>> \o Notified)
  <2>1. PICK G : G = Tail(high) \o <<>> \o r
    OBVIOUS
  <2>2. Tail(high) \o <<>> = Tail(high)
    BY <1>5
  <2>3. G = Tail(high) \o r
    BY <2>1, <2>2
  <2>4. Loop(th, G)
    BY <1>3, <1>6, <2>1
  <2>5. WakersFindIt' /\ astray' \in {"no", "xon", "flow", "configure"}
    BY <1>1, AsBefore
  <2> QED
    BY <1>1, <1>2, <1>4, <2>3, <2>4, <2>5, PlainStep
<1>7. CASE /\ Spare
           /\ Loop([th EXCEPT ![NewWorker] = At("flow_xoff", "start", "none", 0)],
                   Tail(high) \o <<NewWorker>> \o Notified)
  <2>1. PICK w : w = NewWorker
    OBVIOUS
  <2>2. PICK G : G = Tail(high) \o <<w>> \o r
    OBVIOUS
  <2>3. PICK now : now = [th EXCEPT ![w] = At("flow_xoff", "start", "none", 0)]
    OBVIOUS
  <2>4. PICK j : j = "flow_xoff"
    OBVIOUS
  <2>5. Loop(now, G)
    BY <1>3, <1>7, <2>1, <2>2, <2>3
  <2>6. j \in NewJobs /\ j # "hold" /\ now = [th EXCEPT ![w] = At(j, "start", "none", 0)]
    BY <2>3, <2>4 DEF NewJobs
  <2> QED
    BY <1>1, <1>2, <1>4, <1>7, <2>1, <2>2, <2>5, <2>6, SpawnStep
<1> QED
  BY <1>6, <1>7 DEF MessageEnds

----------------------------------------------------------------------------
(* An interrupt: those of r are resumed, those of W are changed.           *)
Interrupts(r, W) ==
  /\ r \in Seq(Threads) /\ Once(r) /\ (\A x : In(r, x) => ~In(high, x)) /\ high' = high \o r
  /\ \A x \in {Guardian, Manager} :
       th'[x].at = th[x].at /\ (In(r, x) => th[x].at \in {"receive", "message", "tx", "queue", "clear"})
  /\ UNCHANGED <<mode, running, stopped, xoffed, txUser, sync, heard, astray>>
  /\ th' \in [Threads -> Records] /\ txQueue' \in Seq(Threads) /\ txThread' \in {txThread, None}
  /\ txThread' = txThread \/ In(r, txThread)
  /\ \A x \in Threads : x \notin W => th'[x] = th[x] /\ ~In(r, x) /\ (In(txQueue', x) <=> In(txQueue, x))

LEMMA InterruptStep ==
  ASSUME TypeOK, LInv, Sound, NEW r, NEW W, Interrupts(r, W),
         \A x \in W : x \in Threads => Own(x)' /\ (Believes(x)' => txUser = x),
         \A x \in Workers : HoldKept(x), StopSame,
         Once(txQueue'), UrgentFirst', Lock!Next \/ UNCHANGED lock
  PROVE  Correct
<1>1. /\ r \in Seq(Threads) /\ Once(r) /\ \A x : In(r, x) => ~In(high, x)
      /\ high' = high \o r /\ high \in Seq(Threads) /\ Once(high)
      /\ UNCHANGED <<mode, running, stopped, xoffed, txUser, sync, heard, astray>>
  BY TypeParts DEF Interrupts, LInv
<1>2. /\ high' \in Seq(Threads) /\ Once(high')
      /\ \A x : In(high', x) <=> In(high, x) \/ In(r, x)
  <2>1. \A x : ~(In(high, x) /\ In(r, x))
    BY <1>1
  <2> QED
    BY <1>1, <2>1, ConcatList
<1>3. Special /\ Guardian # Manager
  BY Threaded
<1>4. TypeOK'
  <2>1. running \in BOOLEAN /\ mode \in {"intelligent", "dumb"} /\ stopped \in BOOLEAN /\ xoffed \in BOOLEAN
        /\ heard \in {"xon", "xoff", "missed"} /\ astray \in {"no", "xon", "flow", "configure"}
        /\ {txUser, txThread, sync} \subseteq Threads \cup {None}
    BY DEF TypeOK
  <2>2. th' \in [Threads -> Records] /\ txQueue' \in Seq(Threads) /\ txThread' \in {txThread, None}
    BY DEF Interrupts
  <2> QED
    BY <1>1, <1>2, <2>1, <2>2, NewTypes
<1>5. ASSUME NEW x \in Threads
      PROVE  Own(x)' /\ (Believes(x)' => txUser' = x)
  <2>1. CASE x \in W
    BY <1>1, <2>1
  <2>2. CASE x \notin W
    <3>1. Spared(x)
      BY <1>1, <1>2, <1>3, <2>2 DEF Interrupts, Spared, Special
    <3>2. Own(x)
      BY DEF LInv
    <3> QED
      BY <1>1, <3>1, <3>2, OwnSpared DEF Sound, Unseated
  <2> QED
    BY <2>1, <2>2
<1>6. Guarded' /\ Served' = Served
  <2>1. /\ th'[Guardian].at = th[Guardian].at /\ th'[Manager].at = th[Manager].at
        /\ In(r, Guardian) => th[Guardian].at \in {"receive", "message", "tx", "queue", "clear"}
        /\ In(r, Manager) => th[Manager].at \in {"receive", "message", "tx", "queue", "clear"}
    BY DEF Interrupts
  <2>2. /\ In(high', Guardian) <=> In(high, Guardian) \/ In(r, Guardian)
        /\ In(high', Manager) <=> In(high, Manager) \/ In(r, Manager)
    BY <1>2
  <2>3. Served' = Served
    BY <1>1, <2>1 DEF Served
  <2>4. Guarded
    BY DEF LInv
  <2> QED
    BY <1>1, <1>3, <2>1, <2>2, <2>3, <2>4 DEF Guarded
<1>7. Heard'
  <2>1. AheadKept
    BY <1>1, AheadJoined DEF AheadKept
  <2>2. HeardSame
    BY <1>1, <2>1 DEF HeardSame
  <2> QED
    BY <2>2, HeardKept DEF LInv
<1>8. ~Ghost'
  BY NoGhost DEF Sound
<1>9. WakersFindIt'
  BY <1>1, AsBefore
<1>10. Resumed
  BY <1>2 DEF Resumed, Interrupts
<1> QED
  BY <1>2, <1>4, <1>5, <1>6, <1>7, <1>8, <1>9, <1>10, OrderlyCorrect DEF Orderly

(* When the queue of the link stays as it is.                              *)
LEMMA QueueKept ==
  ASSUME TypeOK, LInv, txQueue' = txQueue, \A x \in Threads : In(txQueue, x) => th'[x].job = th[x].job
  PROVE  Once(txQueue') /\ UrgentFirst' /\ txQueue' \in Seq(Threads)
<1>1. \A x \in Threads : In(txQueue', x) => th'[x].job = th[x].job
  BY DEF LInv
<1>2. txQueue \in Seq(Threads) /\ Once(txQueue) /\ UrgentFirst
  BY TypeParts DEF LInv
<1>3. \A i \in 1 .. Len(txQueue) : th'[txQueue[i]].job = th[txQueue[i]].job
  <2>1. \A i \in 1 .. Len(txQueue) : txQueue[i] \in Threads
    BY <1>2, ElementOfSeq
  <2> QED
    BY <1>1, <2>1 DEF In
<1> QED
  BY <1>2, <1>3 DEF UrgentFirst, Urgent

LEMMA ArrivesStep ==
  ASSUME TypeOK, LInv, Sound, Arrives
  PROVE  Correct
<1>1. /\ th[Guardian].at \in {"receive", "message"} /\ ~In(high, Guardian)
      /\ high' = Append(high, Guardian) /\ th' = th
      /\ UNCHANGED <<mode, running, stopped, xoffed, txUser, txQueue, txThread, sync, heard, astray>>
  BY DEF Arrives, Suspended, flags
<1>2. Guardian \in Threads /\ Guardian # Manager /\ Guardian \notin Workers
  BY Threaded DEF Special
<1>3. PICK r : r = <<Guardian>>
  OBVIOUS
<1>4. r \in Seq(Threads) /\ Once(r) /\ (\A x : In(r, x) <=> x = Guardian) /\ high' = high \o r
  BY <1>1, <1>2, <1>3, OnlyOne, AppendIsJoin, TypeParts
<1>5. Interrupts(r, {Guardian})
  BY <1>1, <1>2, <1>4, TypeParts DEF Interrupts
<1>6. Own(Guardian)' /\ ~Believes(Guardian)'
  <2>1. Own(Guardian)
    BY <1>2 DEF LInv
  <2>2. ~Believes(Guardian) /\ ~Believes(Guardian)'
    BY <1>1 DEF Believes
  <2>3. Shape(Guardian)'
    BY <1>1, <2>1 DEF Own, Shape
  <2>4. Placed(Guardian)'
    <3>1. In(high', Guardian)
      BY <1>1, <1>2, AppendList, TypeParts
    <3> QED
      BY <1>1, <2>1, <2>2, <3>1 DEF Own, Placed
  <2> QED
    BY <2>2, <2>3, <2>4 DEF Own
<1>7. (\A x \in Workers : HoldKept(x)) /\ StopSame
  BY <1>1 DEF HoldKept, StopSame
<1>8. Once(txQueue') /\ UrgentFirst'
  BY <1>1, QueueKept
<1>9. UNCHANGED lock
  BY <1>1 DEF lock, Served
<1> QED
  BY <1>5, <1>6, <1>7, <1>8, <1>9, InterruptStep

(* ClearPorts() gets the processor back.                                   *)
LEMMA PortsScannedStep ==
  ASSUME TypeOK, LInv, Sound, NEW t \in Threads, PortsScanned(t)
  PROVE  Correct
<1>1. /\ th[t].at = "clear" /\ ~In(high, t)
      /\ high' = Append(high, t) /\ th' = th
      /\ UNCHANGED <<mode, running, stopped, xoffed, txUser, txQueue, txThread, sync, heard, astray>>
  BY DEF PortsScanned, Suspended, flags
<1>2. t \in {Guardian, Manager} /\ ~In(txQueue, t) /\ txThread # t
  BY <1>1, WhoClears
<1>3. PICK r : r = <<t>>
  OBVIOUS
<1>4. r \in Seq(Threads) /\ Once(r) /\ (\A x : In(r, x) <=> x = t) /\ high' = high \o r
  BY <1>1, <1>3, OnlyOne, AppendIsJoin, TypeParts
<1>5. Interrupts(r, {t})
  BY <1>1, <1>4, TypeParts DEF Interrupts
<1>6. Own(t)' /\ ~Believes(t)'
  <2>1. Own(t)
    BY DEF LInv
  <2>2. ~Believes(t) /\ ~Believes(t)'
    BY <1>1 DEF Believes
  <2>3. Shape(t)'
    BY <1>1, <2>1 DEF Own, Shape
  <2>4. Placed(t)'
    <3>1. In(high', t)
      BY <1>1, AppendList, TypeParts
    <3> QED
      BY <1>1, <1>2, <2>1, <2>2, <3>1 DEF Own, Placed
  <2> QED
    BY <2>2, <2>3, <2>4 DEF Own
<1>7. (\A x \in Workers : HoldKept(x)) /\ StopSame
  BY <1>1 DEF HoldKept, StopSame
<1>8. Once(txQueue') /\ UrgentFirst'
  BY <1>1, QueueKept
<1>9. UNCHANGED lock
  BY <1>1 DEF lock, Served
<1> QED
  BY <1>5, <1>6, <1>7, <1>8, <1>9, InterruptStep

LEMMA SentStep ==
  ASSUME TypeOK, LInv, Sound, Sent
  PROVE  Correct
<1>1. PICK t : t = txThread
  OBVIOUS
<1>2. t \in Threads /\ t # None
  BY <1>1 DEF Sent, TypeOK
<1>3. Own(t) /\ th[t].at = "tx" /\ ~In(high, t) /\ th[t].left >= 1 /\ th[t] \in Records
  BY <1>1, <1>2, TypeParts DEF LInv, Own, Placed
<1>4. /\ Becomes(t, [th[t] EXCEPT !.left = @ - 1], Append(high, t)) /\ txThread' = None
      /\ UNCHANGED <<mode, running, stopped, xoffed, txUser, txQueue, sync, heard, astray>>
  BY <1>1 DEF Sent, flags
<1> DEFINE a == [th[t] EXCEPT !.left = th[t].left - 1]
<1>5. /\ a \in Records /\ a.job = th[t].job /\ a.at = "tx" /\ a.rc = th[t].rc /\ a.endtime = th[t].endtime
  <2>1. th[t].left - 1 \in 0 .. 2
    BY <1>3 DEF Records
  <2> QED
    BY <1>3, <2>1 DEF Records
<1>6. Becomes(t, a, Append(high, t))
  BY <1>4
<1> HIDE DEF a
<1>7. /\ th' \in [Threads -> Records] /\ th'[t] = a /\ high' = Append(high, t)
      /\ \A x \in Threads : x # t => th'[x] = th[x]
  BY <1>2, <1>5, <1>6, SetRecord
<1>8. PICK r : r = <<t>>
  OBVIOUS
<1>9. r \in Seq(Threads) /\ Once(r) /\ (\A x : In(r, x) <=> x = t) /\ high' = high \o r
  BY <1>2, <1>7, <1>8, OnlyOne, AppendIsJoin, TypeParts
<1>10. txQueue' \in Seq(Threads) /\ (\A x \in Workers : HoldKept(x)) /\ StopSame
  <2>1. \A x \in Workers : x \in Threads
    BY Threaded
  <2>2. th'[t].job = th[t].job /\ th'[t].at = th[t].at /\ th'[t].rc = th[t].rc
    BY <1>3, <1>5, <1>7
  <2> QED
    BY <1>4, <1>7, <2>1, <2>2, TypeParts DEF HoldKept, StopSame
<1>11. Interrupts(r, {t})
  <2>1. \A x \in {Guardian, Manager} :
          th'[x].at = th[x].at /\ (In(r, x) => th[x].at \in {"receive", "message", "tx", "queue", "clear"})
    BY <1>2, <1>3, <1>5, <1>7, <1>9, Threaded DEF Special
  <2>2. In(r, txThread)
    BY <1>1, <1>9
  <2> QED
    BY <1>1, <1>3, <1>4, <1>7, <1>9, <1>10, <2>1, <2>2 DEF Interrupts
<1>12. Own(t)' /\ (Believes(t)' => txUser = t)
  <2>1. Believes(t) /\ Believes(t)'
    BY <1>3, <1>5, <1>7 DEF Believes
  <2>2. Shape(t)'
    BY <1>3, <1>5, <1>7 DEF Own, Shape
  <2>3. Placed(t)'
    <3>1. In(high', t) /\ txThread' # t
      BY <1>2, <1>4, <1>7, AppendList, TypeParts
    <3> QED
      BY <1>3, <1>4, <1>5, <1>7, <2>1, <3>1 DEF Own, Placed
  <2> QED
    BY <1>2, <2>1, <2>2, <2>3 DEF Own, Sound, Unseated
<1>13. Once(txQueue') /\ UrgentFirst'
  <2>1. \A x \in Threads : th'[x].job = th[x].job
    BY <1>5, <1>7
  <2> QED
    BY <1>4, <2>1, QueueKept
<1>14. UNCHANGED lock
  <2>1. th'[Guardian].at = th[Guardian].at
    BY <1>11 DEF Interrupts
  <2> QED
    BY <1>4, <2>1 DEF lock, Served
<1> QED
  BY <1>10, <1>11, <1>12, <1>13, <1>14, InterruptStep

LEMMA LowWaterStep ==
  ASSUME TypeOK, LInv, Sound, LowWater
  PROVE  Correct
<1>1. PICK w : w = NewWorker
  OBVIOUS
<1>2. PICK j : j = "flow_xon"
  OBVIOUS
<1> DEFINE a == At(j, "start", "none", 0)
<1>3. /\ Spare /\ high = <<>>
      /\ Becomes(w, a, <<w>>)
      /\ UNCHANGED <<mode, running, stopped, xoffed, txUser, txQueue, txThread, sync, heard, astray>>
  BY <1>1, <1>2 DEF LowWater, flags
<1>4. /\ w \in Workers /\ w \in Threads /\ th[w] = Idle /\ w # Guardian /\ w # Manager
      /\ ~In(high, w) /\ ~In(txQueue, w) /\ txUser # w /\ txThread # w
  BY <1>1, <1>3, NewWorkerIs
<1>5. j \in NewJobs /\ j # "hold"
  BY <1>2 DEF NewJobs
<1>6. a \in Records /\ a.job = j /\ a.at = "start" /\ a.rc = "null"
  BY <1>5, StartShape
<1> HIDE DEF a
<1>7. /\ th' \in [Threads -> Records] /\ th'[w] = a /\ high' = <<w>>
      /\ \A x \in Threads : x # w => th'[x] = th[x]
  BY <1>3, <1>4, <1>6, SetRecord
<1>8. PICK r : r = <<w>>
  OBVIOUS
<1>9. r \in Seq(Threads) /\ Once(r) /\ (\A x : In(r, x) <=> x = w) /\ high' = high \o r
  BY <1>3, <1>4, <1>7, <1>8, OnlyOne, EmptyConcat
<1>10. (\A x \in Workers : HoldKept(x)) /\ StopSame
  <2>1. \A x \in Workers : x \in Threads
    BY Threaded
  <2>2. th[w].job = "none" /\ th[w].rc = "null" /\ th'[w].job # "hold" /\ th'[w].rc = "null"
    BY <1>4, <1>5, <1>6, <1>7, IdleShape
  <2> QED
    BY <1>3, <1>7, <2>1, <2>2 DEF HoldKept, StopSame
<1>11. Interrupts(r, {w})
  <2>1. th'[Guardian] = th[Guardian] /\ th'[Manager] = th[Manager]
    BY <1>4, <1>7, Threaded DEF Special
  <2> QED
    BY <1>3, <1>4, <1>7, <1>9, <2>1, TypeParts DEF Interrupts
<1>12. Own(w)' /\ ~Believes(w)'
  <2>1. th'[w] = At(j, "start", "none", 0)
    BY <1>7 DEF a
  <2>2. In(high', w) /\ ~In(txQueue', w) /\ txThread' # w /\ txUser' # w
    BY <1>3, <1>4, <1>7, OnlyOne
  <2> QED
    BY <1>4, <1>5, <2>1, <2>2, NewOwn
<1>13. Once(txQueue') /\ UrgentFirst'
  <2>1. \A x \in Threads : In(txQueue, x) => th'[x].job = th[x].job
    BY <1>4, <1>7
  <2> QED
    BY <1>3, <2>1, QueueKept
<1>14. UNCHANGED lock
  <2>1. th'[Guardian].at = th[Guardian].at
    BY <1>11 DEF Interrupts
  <2> QED
    BY <1>3, <2>1 DEF lock, Served
<1> QED
  BY <1>10, <1>11, <1>12, <1>13, <1>14, InterruptStep

(* When some are taken off the queue of the link.                          *)
LEMMA QueueDropped ==
  ASSUME TypeOK, LInv, NEW S, txQueue' = Drop(txQueue, S),
         \A x \in Threads : In(txQueue, x) => th'[x].job = th[x].job
  PROVE  /\ Once(txQueue') /\ UrgentFirst' /\ txQueue' \in Seq(Threads)
         /\ \A x : In(txQueue', x) <=> In(txQueue, x) /\ x \notin S
<1>1. txQueue \in Seq(Threads) /\ Once(txQueue) /\ UrgentFirst
  BY TypeParts DEF LInv
<1> DEFINE q == Drop(txQueue, S)
<1>2. /\ q \in Seq(Threads) /\ Once(q)
      /\ \A x : In(q, x) <=> In(txQueue, x) /\ x \notin S
  BY <1>1, DropList
<1>3. Sublist(q, txQueue)
  BY <1>1, DropOrder DEF Sublist
<1>4. txQueue' = q
  OBVIOUS
<1> HIDE DEF q
<1>5. \A i \in 1 .. Len(q) : q[i] \in Threads
  BY <1>2, ElementOfSeq
<1>6. \A i \in 1 .. Len(q) : th'[q[i]].job = th[q[i]].job
  BY <1>2, <1>5 DEF In
<1>7. Sublist(txQueue', txQueue)
  BY <1>3, <1>4
<1>8. UrgentFirst'
  BY <1>1, <1>4, <1>6, <1>7, UrgentLess
<1> QED
  BY <1>2, <1>4, <1>8

LEMMA WithdrawIs ==
  ASSUME NEW S, S \subseteq {x \in Threads : In(txQueue, x)}, txQueue' = Drop(txQueue, S),
         txUser' = txUser, Served' = Served
  PROVE  Lock!Next
<1>1. Lock!Withdraw(S)
  BY DEF Lock!Withdraw, Lock!Drop, Drop, Lock!Cardinality, Cardinality
<1>2. S \in SUBSET Lock!Waiting
  BY DEF Lock!Waiting, In
<1> QED
  BY <1>1, <1>2 DEF Lock!Next

LEMMA AbortPortStep ==
  ASSUME TypeOK, LInv, Sound, NEW t \in Programs, AbortPort(t)
  PROVE  Correct
<1>1. /\ high = <<>> /\ In(txQueue, t) /\ th[t].job = "put"
      /\ txQueue' = Drop(txQueue, {t})
      /\ Becomes(t, [th[t] EXCEPT !.rc = "abort"], <<t>>)
      /\ UNCHANGED <<mode, running, stopped, xoffed, txUser, txThread, sync, heard, astray>>
  BY DEF AbortPort, Runs, flags
<1>2. t \in Threads /\ t \notin Workers /\ t # Guardian /\ t # Manager
  BY Threaded
<1>3. Own(t) /\ th[t].at = "queue" /\ th[t].rc = "null" /\ ~In(high, t) /\ txThread # t /\ th[t] \in Records
  BY <1>1, <1>2, TypeParts DEF LInv, Own, Placed
<1> DEFINE a == [th[t] EXCEPT !.rc = "abort"]
<1>4. /\ a \in Records /\ a.job = "put" /\ a.at = "queue" /\ a.rc = "abort" /\ a.endtime = th[t].endtime
  BY <1>1, <1>3 DEF Records, Results
<1>5. Becomes(t, a, <<t>>)
  BY <1>1
<1> HIDE DEF a
<1>6. /\ th' \in [Threads -> Records] /\ th'[t] = a /\ high' = <<t>>
      /\ \A x \in Threads : x # t => th'[x] = th[x]
  BY <1>2, <1>4, <1>5, SetRecord
<1>7. PICK r : r = <<t>>
  OBVIOUS
<1>8. r \in Seq(Threads) /\ Once(r) /\ (\A x : In(r, x) <=> x = t) /\ high' = high \o r
  BY <1>1, <1>2, <1>6, <1>7, OnlyOne, EmptyConcat
<1>9. /\ Once(txQueue') /\ UrgentFirst' /\ txQueue' \in Seq(Threads)
      /\ \A x : In(txQueue', x) <=> In(txQueue, x) /\ x \notin {t}
  <2>1. \A x \in Threads : In(txQueue, x) => th'[x].job = th[x].job
    BY <1>1, <1>4, <1>6
  <2> QED
    BY <1>1, <2>1, QueueDropped
<1>10. (\A x \in Workers : HoldKept(x)) /\ StopSame
  <2>1. \A x \in Workers : x \in Threads /\ x # t
    BY <1>2, Threaded
  <2> QED
    BY <1>1, <1>6, <2>1 DEF HoldKept, StopSame
<1>11. Interrupts(r, {t})
  <2>1. th'[Guardian] = th[Guardian] /\ th'[Manager] = th[Manager]
    BY <1>2, <1>6, Threaded DEF Special
  <2> QED
    BY <1>1, <1>2, <1>3, <1>6, <1>8, <1>9, <2>1 DEF Interrupts
<1>12. Own(t)' /\ ~Believes(t)'
  <2>1. ~Believes(t) /\ ~Believes(t)'
    BY <1>3, <1>4, <1>6 DEF Believes
  <2>2. Shape(t)'
    BY <1>1, <1>3, <1>4, <1>6 DEF Own, Shape
  <2>3. Placed(t)'
    <3>1. In(high', t)
      BY <1>2, <1>6, OnlyOne
    <3> QED
      BY <1>1, <1>3, <1>4, <1>6, <1>9, <2>1, <3>1 DEF Own, Placed
  <2> QED
    BY <2>1, <2>2, <2>3 DEF Own
<1>13. Lock!Next
  <2>1. Served' = Served
    BY <1>1, <1>2, <1>6, Threaded DEF Served, Special
  <2>2. {t} \subseteq {x \in Threads : In(txQueue, x)}
    BY <1>1, <1>2
  <2> QED
    BY <1>1, <2>1, <2>2, WithdrawIs
<1> QED
  BY <1>9, <1>10, <1>11, <1>12, <1>13, InterruptStep

----------------------------------------------------------------------------
(* The link goes up.                                                       *)
LEMMA ConfigureIntelligentStep ==
  ASSUME TypeOK, LInv, Sound, ConfigureIntelligent
  PROVE  Correct
<1>1. /\ high = <<>> /\ th[Manager].at = "idle" /\ mode = "dumb" /\ mode' = "intelligent" /\ running' = TRUE
      /\ sync' = None /\ heard' = Told({})
      /\ UNCHANGED <<stopped, xoffed, txUser, txQueue, txThread, th>>
      /\ \/ (sync = None) /\ (astray' = "configure") /\ (high' = high)
         \/ (sync # None) /\ (high' = <<sync>>) /\ (astray' = astray)
  BY DEF ConfigureIntelligent, Runs
<1>2. Special /\ Guardian # Manager /\ Guardian \notin Workers
  BY Threaded
<1>3. \A x : ~In(high, x)
  BY <1>1 DEF In
<1>4. sync \in {None, Guardian}
  BY <1>1 DEF LInv, Guarded
<1>5. sync = Guardian => th[Guardian].at = "asleep"
  BY <1>1 DEF LInv, Guarded
<1>6. /\ high' \in Seq(Threads) /\ Once(high')
      /\ \A x : In(high', x) <=> x = Guardian /\ sync = Guardian
  <2>1. CASE sync = None
    BY <1>1, <1>2, <1>3, <2>1, TypeParts DEF LInv, Special
  <2>2. CASE sync = Guardian
    <3>1. high' = <<Guardian>> /\ Guardian \in Threads
      BY <1>1, <1>2, <2>2 DEF Special
    <3>2. <<Guardian>> \in Seq(Threads) /\ Once(<<Guardian>>) /\ \A x : In(<<Guardian>>, x) <=> x = Guardian
      BY <3>1, OnlyOne
    <3> QED
      BY <2>2, <3>1, <3>2
  <2> QED
    BY <1>4, <2>1, <2>2
<1>7. TypeOK'
  <2>1. heard' \in {"xon", "xoff", "missed"} /\ astray' \in {"no", "xon", "flow", "configure"}
    BY <1>1 DEF Told, TypeOK
  <2>2. {running', stopped', xoffed'} \subseteq BOOLEAN /\ {txUser', txThread', sync'} \subseteq Threads \cup {None}
        /\ mode' \in {"intelligent", "dumb"}
    BY <1>1 DEF TypeOK
  <2>3. th' \in [Threads -> Records] /\ txQueue' \in Seq(Threads)
    BY <1>1, TypeParts
  <2> QED
    BY <1>6, <2>1, <2>2, <2>3, NewTypes
<1>8. ASSUME NEW x \in Threads
      PROVE  Own(x)' /\ (Believes(x)' => txUser' = x)
  <2>1. Own(x)
    BY DEF LInv
  <2>2. In(high', x) => th[x].at = "asleep"
    BY <1>5, <1>6
  <2>3. Believes(x)' <=> Believes(x)
    BY <1>1, <1>3, <2>2 DEF Believes
  <2>4. Shape(x)'
    BY <1>1, <2>1 DEF Own, Shape
  <2>5. Placed(x)'
    <3>1. ~In(high, x)
      BY <1>3
    <3>2. th[x].at = "asleep" => ~In(txQueue, x) /\ txThread # x
      BY <2>1 DEF Own, Placed
    <3> QED
      BY <1>1, <2>1, <2>2, <2>3, <3>1, <3>2 DEF Own, Placed
  <2> QED
    BY <1>1, <2>3, <2>4, <2>5 DEF Own, Sound, Unseated
<1>9. Guarded'
  <2>1. th[Guardian].at = "asleep" => sync = Guardian
    BY <1>3 DEF LInv, Guarded
  <2>2. th[Guardian].at = "asleep" => In(high', Guardian)
    BY <1>6, <2>1
  <2>3. None # Guardian /\ None # Manager
    BY <1>2 DEF Special
  <2> QED
    BY <1>1, <2>2, <2>3 DEF Guarded
<1>10. Heard'
  <2>1. heard' \in {"xon", "missed"}
    BY <1>1 DEF Told
  <2>2. heard' = "xon" => \A x \in Workers : th'[x].job # "hold"
    BY <1>1 DEF Told
  <2> QED
    BY <2>1, <2>2 DEF Heard
<1>11. ~Ghost'
  <2>1. StopSame
    BY <1>1 DEF StopSame
  <2> QED
    BY <2>1, NoGhost DEF Sound
<1>12. WakersFindIt'
  <2>1. CASE sync = None
    <3>1. th[Guardian].at \in {"message", "queue", "clear"}
      <4>1. Shape(Guardian) /\ JobsOf(Guardian) = {"none", "dumb"}
        BY <1>2, Threaded DEF LInv, Own, JobsOf, Special
      <4>2. th[Guardian].at \in {"receive", "message", "asleep", "queue", "clear"}
        BY <4>1 DEF Shape, PlacesOf
      <4>3. th[Guardian].at # "receive"
        BY <1>1, <1>3 DEF LInv, Guarded
      <4>4. th[Guardian].at # "asleep"
        BY <1>2, <1>3, <2>1 DEF LInv, Guarded, Special
      <4> QED
        BY <4>2, <4>3, <4>4
    <3> QED
      BY <1>1, <2>1, <3>1 DEF WakersFindIt
  <2>2. CASE sync # None
    BY <1>1, <2>2, AsBefore
  <2> QED
    BY <2>1, <2>2
<1>13. ~Served
  BY <1>1 DEF Served
<1>14. Lock!Next
  <2>1. Served' \in BOOLEAN
    BY DEF Served
  <2>2. Lock!Reconfigure
    BY <1>1, <1>13, <2>1 DEF Lock!Reconfigure
  <2> QED
    BY <2>2 DEF Lock!Next
<1>15. Resumed
  BY <1>13 DEF Resumed
<1>16. Once(txQueue') /\ UrgentFirst'
  BY <1>1 DEF LInv, UrgentFirst, Urgent
<1> QED
  BY <1>6, <1>7, <1>8, <1>9, <1>10, <1>11, <1>12, <1>14, <1>15, <1>16, OrderlyCorrect DEF Orderly

----------------------------------------------------------------------------
(* Time-outs.  The parts of a pass over the link: who is taken off the     *)
(* queue, and who is resumed.                                              *)
Lates(S, late, cut, deaf, D, r) ==
  /\ late = {v \in S : In(txQueue, v)}
  /\ cut = IF txUser \in S THEN Cut(txUser) ELSE <<>>
  /\ deaf = IF Guardian \in S THEN <<Guardian>> ELSE <<>>
  /\ D = Drop(txQueue, Threads \ late)
  /\ r = cut \o deaf \o D

(* Those whose time is out, before the pass.                               *)
LEMMA WhoIsLate ==
  ASSUME TypeOK, LInv, Sound, NEW S \in SUBSET Threads, TimeoutHandler(S)
  PROVE  /\ \A x \in S : Own(x)
         /\ Guardian \in S => /\ th[Guardian].at = "receive" /\ ~In(high, Guardian) /\ ~In(txQueue, Guardian)
                              /\ txUser # Guardian /\ txThread # Guardian
         /\ \A x \in S : x # Guardian => th[x].endtime = "set" /\ (x = txUser \/ In(txQueue, x))
         /\ \A x \in S : In(txQueue, x) => /\ th[x].at = "queue" /\ th[x].rc = "null" /\ ~In(high, x)
                                           /\ x # txUser /\ x # txThread /\ x # Guardian
         /\ txThread # None => /\ txThread = txUser /\ th[txUser].at = "tx" /\ ~In(high, txUser)
                               /\ txUser \in Threads /\ th[txUser].rc # "FC_Xon"
<1>1. \A x \in S : \/ (x = Guardian) /\ Suspended(x, "receive")
                   \/ th[x].endtime = "set" /\ (x = txUser \/ In(txQueue, x))
  BY DEF TimeoutHandler
<1>2. \A x \in S : Own(x)
  BY DEF LInv
<1>3. Special /\ Guardian # Manager /\ JobsOf(Guardian) = {"none", "dumb"}
  BY Threaded DEF JobsOf
<1>4. ASSUME Guardian \in S
      PROVE  /\ th[Guardian].at = "receive" /\ ~In(high, Guardian) /\ ~In(txQueue, Guardian)
             /\ txUser # Guardian /\ txThread # Guardian
  <2>1. Shape(Guardian) /\ Placed(Guardian)
    BY <1>2, <1>4 DEF Own
  <2>2. th[Guardian].endtime # "set"
    BY <1>3, <2>1 DEF Shape, PlacesOf
  <2>3. th[Guardian].at = "receive" /\ ~In(high, Guardian)
    BY <1>1, <1>4, <2>2 DEF Suspended
  <2>4. ~Believes(Guardian)
    BY <2>3 DEF Believes
  <2> QED
    BY <2>1, <2>3, <2>4 DEF Placed
<1>5. ASSUME NEW x \in S, In(txQueue, x)
      PROVE  /\ th[x].at = "queue" /\ th[x].rc = "null" /\ ~In(high, x)
             /\ x # txUser /\ x # txThread /\ x # Guardian
  <2>1. Placed(x)
    BY <1>2 DEF Own
  <2>2. th[x].at = "queue" /\ th[x].rc = "null" /\ ~In(high, x)
    BY <1>5, <2>1 DEF Placed
  <2>3. ~Believes(x)
    BY <2>2 DEF Believes
  <2> QED
    BY <1>4, <1>5, <2>1, <2>2, <2>3 DEF Placed
<1>6. ASSUME txThread # None
      PROVE  /\ txThread = txUser /\ th[txUser].at = "tx" /\ ~In(high, txUser)
             /\ txUser \in Threads /\ th[txUser].rc # "FC_Xon"
  <2>1. txThread \in Threads
    BY <1>6 DEF TypeOK
  <2>2. Placed(txThread)
    BY <2>1 DEF LInv, Own
  <2>3. th[txThread].at = "tx" /\ ~In(high, txThread) /\ th[txThread].rc # "FC_Xon"
    BY <2>2 DEF Placed
  <2>4. Believes(txThread)
    BY <2>3 DEF Believes
  <2> QED
    BY <2>1, <2>3, <2>4 DEF Sound, Unseated
<1> QED
  BY <1>1, <1>2, <1>4, <1>5, <1>6

(* Those resumed.                                                          *)
LEMMA WhoIsWoken ==
  ASSUME TypeOK, LInv, Sound, NEW S \in SUBSET Threads, TimeoutHandler(S),
         NEW late, NEW cut, NEW deaf, NEW D, NEW r,
         Lates(S, late, cut, deaf, D, r)
  PROVE  /\ r \in Seq(Threads) /\ Once(r) /\ high \o cut \o deaf \o D = high \o r
         /\ \A x : In(r, x) <=> \/ x \in late
                                \/ (x = Guardian) /\ (Guardian \in S)
                                \/ (x = txUser) /\ (txUser \in S) /\ (txThread # None)
<1>1. late = {v \in S : In(txQueue, v)} /\ D = Drop(txQueue, Threads \ late)
      /\ cut = (IF txUser \in S THEN Cut(txUser) ELSE <<>>)
      /\ deaf = (IF Guardian \in S THEN <<Guardian>> ELSE <<>>)
  BY DEF Lates
<1>2. txQueue \in Seq(Threads) /\ Once(txQueue) /\ high \in Seq(Threads) /\ Guardian \in Threads
  BY TypeParts, Threaded DEF LInv, Special
<1>3. /\ D \in Seq(Threads) /\ Once(D)
      /\ \A x : In(D, x) <=> x \in late
  <2>1. /\ Drop(txQueue, Threads \ late) \in Seq(Threads) /\ Once(Drop(txQueue, Threads \ late))
        /\ \A x : In(Drop(txQueue, Threads \ late), x) <=> In(txQueue, x) /\ x \notin Threads \ late
    BY <1>2, DropList
  <2>2. \A x : In(txQueue, x) => x \in Threads
    BY <1>2, ElementOfSeq DEF In
  <2>3. \A x : x \in late => In(txQueue, x)
    BY <1>1
  <2> QED
    BY <1>1, <2>1, <2>2, <2>3
<1>4. /\ deaf \in Seq(Threads) /\ Once(deaf)
      /\ \A x : In(deaf, x) <=> x = Guardian /\ Guardian \in S
  <2>1. CASE Guardian \in S
    BY <1>1, <1>2, <2>1, OnlyOne
  <2>2. CASE Guardian \notin S
    <3>1. deaf = <<>>
      BY <1>1, <2>2
    <3> QED
      BY <2>2, <3>1 DEF Once, In
  <2> QED
    BY <2>1, <2>2
<1>5. /\ cut \in Seq(Threads) /\ Once(cut)
      /\ \A x : In(cut, x) <=> x = txUser /\ txUser \in S /\ txThread # None
  <2>1. CASE txUser \in S /\ txThread # None
    <3>1. txThread = txUser
      BY <2>1, WhoIsLate
    <3>2. PICK u : u = txUser
      OBVIOUS
    <3>3. u \in Threads /\ cut = <<u>>
      BY <1>1, <2>1, <3>1, <3>2 DEF Cut
    <3> QED
      BY <2>1, <3>2, <3>3, OnlyOne
  <2>2. CASE ~(txUser \in S /\ txThread # None)
    <3>1. cut = <<>>
      BY <1>1, <2>2 DEF Cut
    <3> QED
      BY <2>2, <3>1 DEF Once, In
  <2> QED
    BY <2>1, <2>2
<1>6. /\ Guardian \in S => Guardian # txUser
      /\ \A x \in late : x # Guardian /\ x # txUser
  BY <1>1, WhoIsLate
<1> DEFINE q == cut \o deaf
<1>7. /\ q \in Seq(Threads) /\ Once(q)
      /\ \A x : In(q, x) <=> In(cut, x) \/ In(deaf, x)
  <2>1. \A x : ~(In(cut, x) /\ In(deaf, x))
    BY <1>4, <1>5, <1>6
  <2> QED
    BY <1>4, <1>5, <2>1, ConcatList
<1>8. high \o cut \o deaf = high \o q
  BY <1>2, <1>4, <1>5, ConcatAssociative
<1> HIDE DEF q
<1>9. /\ q \o D \in Seq(Threads) /\ Once(q \o D)
      /\ \A x : In(q \o D, x) <=> In(q, x) \/ In(D, x)
  <2>1. \A x : ~(In(q, x) /\ In(D, x))
    BY <1>3, <1>4, <1>5, <1>6, <1>7
  <2> QED
    BY <1>3, <1>7, <2>1, ConcatList
<1>10. (high \o q) \o D = high \o (q \o D)
  BY <1>2, <1>3, <1>7, ConcatAssociative
<1>11. high \o cut \o deaf \o D = high \o (q \o D)
  BY <1>8, <1>10
<1>12. \A x : In(q \o D, x) <=> \/ x \in late
                                \/ (x = Guardian) /\ (Guardian \in S)
                                \/ (x = txUser) /\ (txUser \in S) /\ (txThread # None)
  BY <1>3, <1>4, <1>5, <1>7, <1>9
<1>13. r = q \o D
  BY DEF q, Lates
<1> QED
  BY <1>9, <1>11, <1>12, <1>13

(* What the pass makes of a thread whose time is out.                      *)
Timed(S, late, x) ==
  /\ (x \in late \/ x = Guardian) /\ (x \in S) => th'[x] = [th[x] EXCEPT !.rc = "timeout"]
  /\ (x \notin late) /\ (x # Guardian) /\ (x \in S) =>
       th'[x] = [th[x] EXCEPT !.endtime = "none", !.rc = IF txThread # None THEN "timeout" ELSE th[x].rc]

LEMMA TimedThreads ==
  ASSUME TypeOK, LInv, Sound, NEW S \in SUBSET Threads, TimeoutHandler(S),
         NEW late, late = {v \in S : In(txQueue, v)}
  PROVE  /\ th' \in [Threads -> Records]
         /\ \A x \in Threads : x \notin S => th'[x] = th[x]
         /\ \A x \in Threads : Timed(S, late, x)
         /\ \A x \in Threads : th'[x].job = th[x].job /\ th'[x].at = th[x].at
<1>1. th' = [v \in Threads |->
              IF v \in late \/ v \in S \cap {Guardian} THEN [th[v] EXCEPT !.rc = "timeout"]
              ELSE IF v \in S /\ v = txUser
                THEN [th[v] EXCEPT !.endtime = "none", !.rc = IF txThread # None THEN "timeout" ELSE th[v].rc]
                ELSE th[v]]
  BY DEF TimeoutHandler
<1>2. \A x \in Threads : th[x] \in Records
  BY TypeParts
<1>3. ASSUME NEW x \in Threads
      PROVE  /\ [th[x] EXCEPT !.rc = "timeout"] \in Records
             /\ [th[x] EXCEPT !.endtime = "none", !.rc = IF txThread # None THEN "timeout" ELSE th[x].rc]
                  \in Records
             /\ [th[x] EXCEPT !.rc = "timeout"].job = th[x].job
             /\ [th[x] EXCEPT !.rc = "timeout"].at = th[x].at
             /\ [th[x] EXCEPT !.endtime = "none", !.rc = IF txThread # None THEN "timeout" ELSE th[x].rc].job
                  = th[x].job
             /\ [th[x] EXCEPT !.endtime = "none", !.rc = IF txThread # None THEN "timeout" ELSE th[x].rc].at
                  = th[x].at
  <2>1. th[x] \in Records /\ (IF txThread # None THEN "timeout" ELSE th[x].rc) \in Results
    BY <1>2 DEF Records, Results
  <2> QED
    BY <2>1 DEF Records, Results
<1>4. \A x \in S : x \notin late /\ x # Guardian => x = txUser
  BY WhoIsLate
<1>5. \A x \in Threads : x \notin S => th'[x] = th[x]
  BY <1>1
<1>6. \A x \in Threads : Timed(S, late, x)
  BY <1>1, <1>4 DEF Timed
<1>7. th' \in [Threads -> Records]
  BY <1>1, <1>2, <1>3
<1>8. \A x \in Threads : th'[x].job = th[x].job /\ th'[x].at = th[x].at
  BY <1>1, <1>3
<1> QED
  BY <1>5, <1>6, <1>7, <1>8

LEMMA TimeoutStep ==
  ASSUME TypeOK, LInv, Sound, NEW S \in SUBSET Threads, TimeoutHandler(S)
  PROVE  Correct
<1>1. PICK late : late = {v \in S : In(txQueue, v)}
  OBVIOUS
<1>2. PICK cut : cut = IF txUser \in S THEN Cut(txUser) ELSE <<>>
  OBVIOUS
<1>3. PICK deaf : deaf = IF Guardian \in S THEN <<Guardian>> ELSE <<>>
  OBVIOUS
<1>4. PICK D : D = Drop(txQueue, Threads \ late)
  OBVIOUS
<1>5. PICK r : r = cut \o deaf \o D
  OBVIOUS
<1>6. Lates(S, late, cut, deaf, D, r)
  BY <1>1, <1>2, <1>3, <1>4, <1>5 DEF Lates
<1>7. /\ high' = high \o cut \o deaf \o D
      /\ txQueue' = Drop(txQueue, late)
      /\ txThread' = (IF txUser \in S THEN None ELSE txThread)
      /\ UNCHANGED <<mode, running, stopped, xoffed, txUser, sync, heard, astray>>
  BY <1>1, <1>2, <1>3, <1>4 DEF TimeoutHandler, Dq, flags
<1>8. /\ r \in Seq(Threads) /\ Once(r) /\ high' = high \o r
      /\ \A x : In(r, x) <=> \/ x \in late
                             \/ (x = Guardian) /\ (Guardian \in S)
                             \/ (x = txUser) /\ (txUser \in S) /\ (txThread # None)
  <2>1. /\ r \in Seq(Threads) /\ Once(r) /\ high \o cut \o deaf \o D = high \o r
        /\ \A x : In(r, x) <=> \/ x \in late
                               \/ (x = Guardian) /\ (Guardian \in S)
                               \/ (x = txUser) /\ (txUser \in S) /\ (txThread # None)
    BY <1>6, WhoIsWoken
  <2>2. high' = high \o r
    BY <1>7, <2>1
  <2> QED
    BY <2>1, <2>2
<1>9. /\ th' \in [Threads -> Records]
      /\ \A x \in Threads : x \notin S => th'[x] = th[x]
      /\ \A x \in Threads : Timed(S, late, x)
      /\ \A x \in Threads : th'[x].job = th[x].job /\ th'[x].at = th[x].at
  BY <1>1, TimedThreads
<1>10. /\ Once(txQueue') /\ UrgentFirst' /\ txQueue' \in Seq(Threads)
       /\ \A x : In(txQueue', x) <=> In(txQueue, x) /\ x \notin late
  BY <1>7, <1>9, QueueDropped
<1>11. /\ \A x \in S : Own(x)
       /\ Guardian \in S => /\ th[Guardian].at = "receive" /\ ~In(high, Guardian) /\ ~In(txQueue, Guardian)
                            /\ txUser # Guardian /\ txThread # Guardian
       /\ \A x \in S : x # Guardian => th[x].endtime = "set" /\ (x = txUser \/ In(txQueue, x))
       /\ \A x \in late : /\ th[x].at = "queue" /\ th[x].rc = "null" /\ ~In(high, x)
                          /\ x # txUser /\ x # txThread /\ x # Guardian
       /\ txThread # None => /\ txThread = txUser /\ th[txUser].at = "tx" /\ ~In(high, txUser)
                             /\ txUser \in Threads /\ th[txUser].rc # "FC_Xon"
  BY <1>1, WhoIsLate
<1>12. \A x \in Threads : th[x] \in Records
  BY TypeParts
<1>13. ASSUME NEW x \in late
       PROVE  th'[x] = [th[x] EXCEPT !.rc = "timeout"] /\ x \in S /\ x \in Threads /\ th'[x].rc = "timeout"
              /\ th'[x].endtime = th[x].endtime
  <2>1. x \in S /\ x \in Threads
    BY <1>1
  <2>2. th'[x] = [th[x] EXCEPT !.rc = "timeout"]
    BY <1>9, <2>1 DEF Timed
  <2> QED
    BY <1>12, <2>1, <2>2 DEF Records
<1>14. ASSUME Guardian \in S
       PROVE  th'[Guardian].rc = "timeout" /\ th'[Guardian].endtime = th[Guardian].endtime
  <2>1. th'[Guardian] = [th[Guardian] EXCEPT !.rc = "timeout"]
    BY <1>9, <1>14 DEF Timed
  <2> QED
    BY <1>12, <1>14, <2>1 DEF Records
<1>15. ASSUME NEW x \in S, x \notin late, x # Guardian
       PROVE  /\ x = txUser /\ x \in Threads /\ th'[x].endtime = "none" /\ th'[x].left = th[x].left
              /\ th'[x].rc = IF txThread # None THEN "timeout" ELSE th[x].rc
              /\ th[x].endtime = "set"
  <2>1. th'[x] = [th[x] EXCEPT !.endtime = "none", !.rc = IF txThread # None THEN "timeout" ELSE th[x].rc]
    BY <1>9, <1>15 DEF Timed
  <2>2. th[x] \in Records /\ x = txUser /\ th[x].endtime = "set"
    BY <1>1, <1>11, <1>12, <1>15
  <2> QED
    BY <2>1, <2>2 DEF Records
<1>16. (\A x \in Workers : HoldKept(x)) /\ StopSame
  <2>1. ASSUME NEW x \in Workers
        PROVE  HoldKept(x)
    <3>1. x \in Threads /\ x # Guardian
      BY Threaded
    <3>2. th'[x].rc = "FC_Xon" <=> th[x].rc = "FC_Xon"
      BY <1>9, <1>11, <1>13, <1>15, <3>1
    <3> QED
      BY <1>9, <3>1, <3>2 DEF HoldKept
  <2>2. StopSame
    BY <1>7, <1>9, Threaded DEF StopSame
  <2> QED
    BY <2>1, <2>2
<1>17. Interrupts(r, S)
  <2>1. \A x : In(r, x) => ~In(high, x)
    BY <1>8, <1>11
  <2>2. \A x \in {Guardian, Manager} :
          th'[x].at = th[x].at /\ (In(r, x) => th[x].at \in {"receive", "message", "tx", "queue", "clear"})
    BY <1>8, <1>9, <1>11, Threaded DEF Special
  <2>3. txThread' \in {txThread, None} /\ (txThread' = txThread \/ In(r, txThread))
    BY <1>7, <1>8, <1>11
  <2>4. \A x \in Threads : x \notin S => th'[x] = th[x] /\ ~In(r, x) /\ (In(txQueue', x) <=> In(txQueue, x))
    BY <1>1, <1>8, <1>9, <1>10
  <2> QED
    BY <1>7, <1>8, <1>9, <1>10, <2>1, <2>2, <2>3, <2>4 DEF Interrupts
<1>18. \A x : In(high', x) <=> In(high, x) \/ In(r, x)
  <2>1. high \in Seq(Threads)
    BY TypeParts
  <2> QED
    BY <1>8, <2>1, ConcatList
<1>19. ASSUME NEW x \in S, x \in Threads
       PROVE  Own(x)' /\ (Believes(x)' => txUser = x)
  <2>0. Shape(x) /\ Placed(x) /\ th'[x].job = th[x].job /\ th'[x].at = th[x].at /\ x # None
    BY <1>9, <1>11, Threaded DEF Own, Special
  <2>1. CASE x \in late
    <3>1. th[x].at = "queue" /\ th'[x].rc = "timeout" /\ th'[x].endtime = th[x].endtime
      BY <1>11, <1>13, <2>1
    <3>2. In(high', x) /\ ~In(txQueue', x) /\ txThread' # x /\ txUser' # x
      BY <1>7, <1>8, <1>10, <1>11, <1>18, <2>0, <2>1
    <3>3. ~Believes(x)'
      BY <2>0, <3>1 DEF Believes
    <3>4. Shape(x)'
      BY <2>0, <3>1 DEF Shape
    <3>5. Placed(x)'
      BY <2>0, <3>1, <3>2 DEF Placed
    <3> QED
      BY <3>3, <3>4, <3>5 DEF Own
  <2>2. CASE x = Guardian
    <3>1. th[x].at = "receive" /\ th'[x].rc = "timeout" /\ th'[x].endtime = th[x].endtime
      BY <1>11, <1>14, <2>2
    <3>2. ~In(txQueue', x) /\ txThread' # x /\ txUser' # x
      BY <1>7, <1>10, <1>11, <2>0, <2>2
    <3>3. ~Believes(x)'
      BY <2>0, <3>1 DEF Believes
    <3>4. Shape(x)'
      BY <2>0, <3>1 DEF Shape
    <3>5. Placed(x)'
      BY <2>0, <3>1, <3>2 DEF Placed
    <3> QED
      BY <3>3, <3>4, <3>5 DEF Own
  <2>3. CASE (x \notin late) /\ (x # Guardian)
    <3>1. /\ x = txUser /\ th'[x].endtime = "none"
          /\ th'[x].rc = IF txThread # None THEN "timeout" ELSE th[x].rc
      BY <1>15, <2>3
    <3>2. txThread' = None /\ ~In(txQueue', x) /\ ~In(txQueue, x) /\ Believes(x)
      <4>1. ~In(txQueue, x)
        BY <1>1, <2>3
      <4> QED
        BY <1>7, <1>10, <2>0, <3>1, <4>1 DEF Placed
    <3>3. CASE txThread # None
      <4>1. th[x].at = "tx" /\ In(high', x) /\ th'[x].rc = "timeout"
        BY <1>8, <1>11, <1>18, <3>1, <3>3
      <4>2. Believes(x)'
        BY <2>0, <4>1 DEF Believes
      <4>3. Shape(x)'
        BY <2>0, <3>1, <4>1 DEF Shape
      <4>4. Placed(x)'
        BY <2>0, <3>2, <4>1, <4>2 DEF Placed
      <4> QED
        BY <3>1, <4>3, <4>4 DEF Own
    <3>4. CASE txThread = None
      <4>1. th'[x].rc = th[x].rc /\ (In(high', x) <=> In(high, x))
        BY <1>8, <1>18, <2>3, <3>1, <3>4
      <4>2. Believes(x)'
        BY <2>0, <3>2, <4>1 DEF Believes
      <4>3. Shape(x)'
        <5>1. th[x].endtime = "set" /\ th[x].at # "idle"
          BY <1>15, <2>0, <2>3 DEF Shape
        <5> QED
          BY <2>0, <3>1, <4>1, <5>1 DEF Shape
      <4>4. Placed(x)'
        BY <2>0, <3>2, <4>1, <4>2 DEF Placed
      <4> QED
        BY <3>1, <4>3, <4>4 DEF Own
    <3> QED
      BY <3>3, <3>4
  <2> QED
    BY <2>1, <2>2, <2>3
<1>20. Lock!Next
  <2>1. Served' = Served
    BY <1>7, <1>9, Threaded DEF Served, Special
  <2>2. late \subseteq {x \in Threads : In(txQueue, x)}
    BY <1>1
  <2> QED
    BY <1>7, <2>1, <2>2, WithdrawIs
<1> QED
  BY <1>10, <1>16, <1>17, <1>19, <1>20, InterruptStep

----------------------------------------------------------------------------
(* The initial states, ...                                                 *)
LEMMA LInvInit ==
  ASSUME Init
  PROVE  TypeOK /\ LInv
<1>1. /\ mode = "intelligent" /\ running = TRUE /\ stopped = FALSE /\ xoffed = FALSE
      /\ txUser = None /\ txQueue = <<>> /\ txThread = None /\ sync = None
      /\ high = <<>> /\ heard = "xon" /\ astray = "no"
      /\ th = [t \in Threads |-> IF t = Guardian THEN At("none", "receive", "none", 0) ELSE Idle]
  BY DEF Init
<1>2. Special /\ Guardian # Manager /\ JobsOf(Guardian) = {"none", "dumb"} /\ Guardian \notin Workers
  BY Threaded DEF JobsOf
<1> DEFINE a == At("none", "receive", "none", 0)
<1>3. a \in Records /\ a.job = "none" /\ a.at = "receive" /\ a.rc = "null" /\ a.endtime = "none"
  BY AsleepShape
<1>4. Idle \in Records /\ Idle.job = "none" /\ Idle.at = "idle" /\ Idle.rc = "null"
      /\ Idle.endtime = "none" /\ Idle.left = 0
  BY IdleShape
<1> HIDE DEF a, Idle
<1>5. /\ th \in [Threads -> Records] /\ th[Guardian] = a
      /\ \A x \in Threads : x # Guardian => th[x] = Idle
  BY <1>1, <1>2, <1>3, <1>4 DEF a, Special
<1>6. /\ high \in Seq(Threads) /\ txQueue \in Seq(Threads) /\ Once(high) /\ Once(txQueue) /\ UrgentFirst
      /\ \A x : ~In(high, x) /\ ~In(txQueue, x)
  BY <1>1 DEF Once, In, UrgentFirst
<1>7. TypeOK
  BY <1>1, <1>5, <1>6 DEF TypeOK, Records
<1>8. ASSUME NEW x \in Threads
      PROVE  Own(x)
  <2>1. th[x].job = "none" /\ th[x].rc = "null" /\ th[x].endtime = "none"
        /\ th[x].at = IF x = Guardian THEN "receive" ELSE "idle"
    BY <1>3, <1>4, <1>5
  <2>2. "none" \in JobsOf(x) /\ th[x].at \in PlacesOf(x, "none")
    BY <2>1 DEF JobsOf, PlacesOf
  <2>3. Shape(x)
    <3>1. x # Guardian => th[x] = Idle
      BY <1>5
    <3> QED
      BY <2>1, <2>2, <3>1 DEF Shape
  <2>4. Placed(x)
    BY <1>1, <1>2, <1>6, <2>1 DEF Placed, Special
  <2> QED
    BY <2>3, <2>4 DEF Own
<1>9. Guarded
  <2>1. th[Guardian].at = "receive" /\ th[Manager].at = "idle"
    BY <1>2, <1>3, <1>4, <1>5 DEF Special
  <2> QED
    BY <1>1, <1>2, <2>1 DEF Guarded, Special
<1>10. Heard
  <2>1. \A w \in Workers : w \in Threads /\ w # Guardian
    BY Threaded
  <2>2. \A w \in Workers : th[w].job = "none"
    BY <1>4, <1>5, <2>1
  <2> QED
    BY <1>1, <2>2 DEF Heard
<1>11. WakersFindIt
  BY <1>1 DEF WakersFindIt
<1> QED
  BY <1>6, <1>7, <1>8, <1>9, <1>10, <1>11 DEF LInv

(* ... every step that is taken, ...                                       *)
LEMMA ContinuesStep ==
  ASSUME TypeOK, LInv, Sound, NEW t \in Threads, Continues(t)
  PROVE  Correct
<1>1. CASE QueueReturns(t)
  BY <1>1, QueueReturnsStep, DumbReturns
<1> QED
  BY <1>1, WorkerStartsStep, PutContinuesStep, TransferEndsStep, ReconfigureSentStep,
     GuardianReadyStep, PortsClearedStep, HoldContinuesStep DEF Continues

LEMMA NextCorrect ==
  ASSUME TypeOK, LInv, Next
  PROVE  Correct
<1>1. Sound
  BY DEF Next
<1>2. CASE \E t \in Programs : AbortPort(t) \/ \E d \in {"none", "set"} : PutMsg(t, d)
  BY <1>1, <1>2, AbortPortStep, PutMsgStep
<1>3. CASE ConfigureDumb \/ ConfigureIntelligent
  BY <1>1, <1>3, ConfigureDumbStep, ConfigureIntelligentStep
<1>4. CASE \E t \in Threads : Continues(t) \/ PortsScanned(t)
  BY <1>1, <1>4, ContinuesStep, PortsScannedStep
<1>5. CASE GuardianRuns
  BY <1>1, <1>5, GuardianActsStep, GuardianTimesOutStep, MessageEndsStep, GuardianWakesStep DEF GuardianRuns
<1>6. CASE Arrives \/ Sent \/ LowWater
  BY <1>1, <1>6, ArrivesStep, SentStep, LowWaterStep
<1>7. CASE \E S \in SUBSET Threads : TimeoutHandler(S)
  BY <1>1, <1>7, TimeoutStep
<1> QED
  BY <1>2, <1>3, <1>4, <1>5, <1>6, <1>7 DEF Next

(* ... and standing still.                                                 *)
LEMMA StillCorrect ==
  ASSUME TypeOK, LInv, UNCHANGED vars
  PROVE  TypeOK' /\ LInv' /\ UNCHANGED lock
<1>1. /\ UNCHANGED <<mode, running, stopped, xoffed, txUser, txQueue, txThread, sync, high, th, heard, astray>>
  BY DEF vars, flags
<1>2. TypeOK'
  BY <1>1 DEF TypeOK
<1>3. UNCHANGED lock
  BY <1>1 DEF lock, Served
<1>4. Once(high') /\ Once(txQueue') /\ UrgentFirst'
  BY <1>1 DEF LInv, UrgentFirst, Urgent
<1>5. \A x \in Threads : Own(x)'
  <2>1. ASSUME NEW x \in Threads
        PROVE  Own(x)'
    <3>1. Spared(x) /\ Own(x)
      BY <1>1 DEF Spared, LInv
    <3> QED
      BY <3>1, OwnSpared
  <2> QED
    BY <2>1
<1>6. Guarded'
  BY <1>1, GuardedSame DEF LInv
<1>7. Sound' => Heard'
  <2>1. Sound' <=> Sound
    BY <1>1 DEF Sound, Unseated, Believes, Ghost, Holders
  <2>2. HeardSame
    BY <1>1 DEF HeardSame, HoldKept, AheadKept
  <2> QED
    BY <2>1, <2>2, HeardKept DEF LInv
<1>8. WakersFindIt'
  BY <1>1 DEF LInv, WakersFindIt, Interrupted
<1> QED
  BY <1>2, <1>3, <1>4, <1>5, <1>6, <1>7, <1>8 DEF LInv

(* The invariant is one.                                                   *)
LEMMA Invariant ==
  Spec => [](TypeOK /\ LInv)
<1>1. Init => TypeOK /\ LInv
  BY LInvInit
<1>2. (TypeOK /\ LInv) /\ [Next]_vars => (TypeOK /\ LInv)'
  BY NextCorrect, StillCorrect DEF Correct
<1> QED
  BY <1>1, <1>2, PTL DEF Spec

----------------------------------------------------------------------------
(* Every variable of the link has its type; in particular nothing is sent  *)
(* that was not left to send.                                              *)
THEOREM LinkTypesCorrect == Spec => []TypeOK
BY Invariant, PTL

(* An Id on the link's queue is that of a thread that waits there without  *)
(* a result yet, each once, and every thread that waits there has its Id   *)
(* on the queue.                                                           *)
THEOREM LinkIdsLive == Spec => []IdLive
<1>1. TypeOK /\ LInv => IdLive
  <2> SUFFICES ASSUME TypeOK, LInv
               PROVE  IdLive
    OBVIOUS
  <2>1. \A x \in Threads : Placed(x)
    BY DEF LInv, Own
  <2>2. Waiters = {t \in Threads : In(txQueue, t)}
    BY <2>1 DEF Waiters, Placed
  <2>3. \A t \in Waiters : th[t].rc = "null"
    BY <2>1, <2>2 DEF Placed
  <2>4. Once(high) /\ Once(txQueue)
    BY DEF LInv
  <2> QED
    BY <2>2, <2>3, <2>4 DEF IdLive, Once
<1> QED
  BY <1>1, Invariant, PTL

(* An Xoff is obeyed before any message that waits, and for as long as the *)
(* neighbour has not sent Xon; an Xon that finds its HandleXoff() in charge*)
(* ends it.                                                                *)
THEOREM FlowIsObeyed == Spec => []FlowObeyed
<1>1. TypeOK /\ LInv => FlowObeyed
  <2> SUFFICES ASSUME TypeOK, LInv
               PROVE  FlowObeyed
    OBVIOUS
  <2>1. ASSUME Settled
        PROVE  Heard /\ \A x \in Workers : Own(x) /\ ~In(high, x)
    BY <2>1, Threaded DEF Settled, LInv, In
  <2>2. ASSUME Settled, heard = "xoff"
        PROVE  \E w \in Workers : w \in Holders \/ (th[w].job = "hold" /\ In(txQueue, w))
    <3>1. PICK w \in Workers : Holding(w)
      BY <2>1, <2>2 DEF Heard
    <3>2. th[w].at \in {"start", "queue", "tx", "stop"}
      BY <2>1, <2>2, <3>1 DEF Own, Shape, PlacesOf, Holding
    <3>3. th[w].at # "start" /\ (th[w].at = "queue" => In(txQueue, w))
      BY <2>1, <2>2 DEF Own, Placed
    <3> QED
      BY <3>1, <3>2, <3>3 DEF Holders, Holding
  <2>3. ASSUME Settled, Holders # {}, heard = "xon"
        PROVE  FALSE
    <3>1. PICK w \in Workers : th[w].job = "hold"
      BY <2>3 DEF Holders
    <3>2. th[w].rc = "FC_Xon"
      BY <2>1, <2>3, <3>1 DEF Heard
    <3> QED
      BY <2>1, <2>3, <3>2 DEF Own, Placed
  <2> QED
    BY <2>2, <2>3 DEF FlowObeyed, XoffObeyed, StoppedByXoff, LInv
<1> QED
  BY <1>1, Invariant, PTL

(* Whoever is woken through a pointer in the link waits there, but in the  *)
(* two situations the property names.                                      *)
THEOREM WakersAlwaysFindIt == Spec => []WakersFindIt
<1>1. TypeOK /\ LInv => WakersFindIt
  BY DEF LInv
<1> QED
  BY <1>1, Invariant, PTL

(* While the guardian serves an intelligent link, it has one user, and     *)
(* TxUser is that thread's Id.                                             *)
THEOREM SeatIsKept == Spec => SeatKept
<1> DEFINE A == Served /\ Served' => Unseated' = {}
<1>1. (TypeOK /\ LInv) /\ [Next]_vars => [A]_vars
  BY NextCorrect DEF Correct, Unseated
<1>2. SeatKept <=> [][A]_vars
  BY PTL DEF SeatKept
<1> HIDE DEF A
<1> QED
  BY <1>1, <1>2, Invariant, PTL DEF Spec

(* Link_Flags_stopped is left set without a HandleXoff() in charge only by *)
(* a _Configure() that read it earlier.                                    *)
THEOREM StopsAreOwned == Spec => StopIsOwned
<1> DEFINE A == Ghost' => \E t \in Threads : th[t].job = "dumb" /\ th[t].saw
<1>1. (TypeOK /\ LInv) /\ [Next]_vars => [A]_vars
  BY NextCorrect DEF Correct
<1>2. StopIsOwned <=> [][A]_vars
  BY PTL DEF StopIsOwned
<1> HIDE DEF A
<1> QED
  BY <1>1, <1>2, Invariant, PTL DEF Spec

(* A thread whose transfer is cut off is resumed, unless the guardian cuts *)
(* it when the link is reconfigured.                                       *)
THEOREM GuardianAloneDrops == Spec => OnlyGuardianDrops
<1> DEFINE A == Served /\ Served' /\ txThread # None /\ txThread' # txThread
                  => (\E i \in 1 .. Len(high') : high'[i] = txThread)
<1>1. (TypeOK /\ LInv) /\ [Next]_vars => [A]_vars
  BY NextCorrect DEF Correct, Resumed, In
<1>2. OnlyGuardianDrops <=> [][A]_vars
  BY PTL DEF OnlyGuardianDrops
<1> HIDE DEF A
<1> QED
  BY <1>1, <1>2, Invariant, PTL DEF Spec

(* The transmitting side of the link is the lock of LinkLock.tla, whatever *)
(* time-outs, aborts, flow control and reconfiguration do to its users.    *)
THEOREM LinksImplementLock == Spec => LockSpec
<1>1. Init => Lock!Init
  <2> SUFFICES ASSUME Init
               PROVE  Lock!Init
    OBVIOUS
  <2>1. th[Guardian].at = "receive" /\ txUser = None /\ txQueue = <<>> /\ mode = "intelligent"
    BY Threaded, AsleepShape DEF Init, Special
  <2> QED
    BY <2>1 DEF Lock!Init, Served
<1>2. (TypeOK /\ LInv) /\ [Next]_vars => [Lock!Next]_(Lock!vars)
  BY NextCorrect, StillCorrect DEF Correct, lock, Lock!vars
<1> QED
  BY <1>1, <1>2, Invariant, PTL DEF Spec, LockSpec, Lock!Spec
=============================================================================
