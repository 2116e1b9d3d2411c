---------------------------- MODULE Ports_proofs ----------------------------
(***************************************************************************)
(* The message ports, for any number of threads, ports and reuses of a     *)
(* slot, and MultiWait() on any number of ports.                           *)
(***************************************************************************)
EXTENDS Ports, Lists_proofs

----------------------------------------------------------------------------
(* The lists.                                                              *)

(* An order of a finite set is a list that holds each of its members once. *)
LEMMA OrderList ==
  ASSUME NEW S, IsFiniteSet(S), NEW s \in Orders(S)
  PROVE  s \in Seq(S) /\ Once(s) /\ \A x : In(s, x) <=> x \in S
<1> DEFINE n == Cardinality(S)
<1>1. n \in Nat
  BY FS_CardinalityType
<1>2. s \in [1 .. n -> S] /\ (\A i, j \in 1 .. n : s[i] = s[j] => i = j)
  BY DEF Orders
<1> HIDE DEF n
<1>3. s \in Seq(S) /\ Len(s) = n
  BY <1>1, <1>2
<1>4. s \in Injection(1 .. n, S)
  BY <1>2 DEF Injection, IsInjective
<1>5. IsFiniteSet(1 .. n) /\ Cardinality(1 .. n) = Cardinality(S)
  BY <1>1, FS_Interval DEF n
<1>6. s \in Surjection(1 .. n, S)
  BY <1>4, <1>5, FS_Injection
<1> QED
  BY <1>2, <1>3, <1>6 DEF Surjection, In, Once

(* The slots of a list of descriptors, and of its first ones.              *)
LEMMA SlotsOf ==
  ASSUME NEW s \in Seq(Descriptors)
  PROVE  /\ \A p : p \in Slots(s) <=> \E i \in 1 .. Len(s) : s[i].ix = p
         /\ Slots(s) \subseteq PortIndex
<1>1. Len(s) \in Nat /\ DOMAIN s = 1 .. Len(s) /\ \A i \in 1 .. Len(s) : s[i] \in Descriptors
  BY LenProperties, ElementOfSeq
<1> QED
  BY <1>1 DEF Slots, Descriptors

(* The first k descriptors of a list and their slots.                      *)
LEMMA FirstSlots ==
  ASSUME NEW s \in Seq(Descriptors), NEW k \in Int, k <= Len(s)
  PROVE  /\ SubSeq(s, 1, k) \in Seq(Descriptors)
         /\ Len(SubSeq(s, 1, k)) = IF 1 <= k THEN k ELSE 0
         /\ \A i \in 1 .. k : SubSeq(s, 1, k)[i] = s[i]
         /\ \A p : p \in Slots(SubSeq(s, 1, k)) <=> \E i \in 1 .. k : s[i].ix = p
<1>1. /\ SubSeq(s, 1, k) \in Seq(Descriptors)
      /\ Len(SubSeq(s, 1, k)) = IF 1 <= k THEN k ELSE 0
      /\ \A i \in 1 .. k : SubSeq(s, 1, k)[i] = s[i]
  BY SubSeqType
<1>2. \A p : p \in Slots(SubSeq(s, 1, k)) <=> \E i \in 1 .. k : SubSeq(s, 1, k)[i].ix = p
  <2>1. CASE 1 <= k
    <3> DEFINE r == SubSeq(s, 1, k)
    <3>1. r \in Seq(Descriptors) /\ Len(r) = k
      BY <1>1, <2>1
    <3> HIDE DEF r
    <3>2. \A p : p \in Slots(r) <=> \E i \in 1 .. k : r[i].ix = p
      BY <3>1, SlotsOf
    <3> QED
      BY <3>2 DEF r
  <2>2. CASE ~(1 <= k)
    <3>1. 1 .. k = {} /\ 1 .. 0 = {}
      BY <2>2
    <3>2. Len(SubSeq(s, 1, k)) = 0
      BY <1>1, <2>2
    <3> QED
      BY <1>1, <3>1, <3>2, SlotsOf
  <2> QED
    BY <2>1, <2>2
<1> QED
  BY <1>1, <1>2
----------------------------------------------------------------------------
(* The inductive invariant.  What the queues are: no thread is twice on    *)
(* one, the free slots are on the free list, and no port keeps both        *)
(* transmitters and receivers.                                             *)
Aim(u)    == want[u][Len(want[u])]
AtHead(x) == high # <<>> /\ Head(high) = x

Apart ==
  \A p \in PortIndex, x, y \in Threads : ~(In(TxId[p], x) /\ In(RxId[p], y))

Queues ==
  /\ \A p \in PortIndex : Once(TxId[p]) /\ Once(RxId[p])
  /\ Once(high) /\ Apart /\ FreeList

(* An Id on slot p was put there through a descriptor of the port there.   *)
Here(x, p) == Type[p] = "local" /\ Wants(x, [ix |-> p, cy |-> Cycle[p]])

(* The slots on which a MultiWait() has hooked its caller.                 *)
Hooks(x) == IF call[x] = "multi" THEN Slots(want[x]) ELSE Slots(SubSeq(want[x], 1, Len(want[x]) - 1))

Got(x) == \E p \in Hooks(x) : rc[x][p] = "null"

(* What is true of a thread's Id wherever it is on a queue, ...            *)
OnTx(x) ==
  \A p \in PortIndex : In(TxId[p], x) =>
    call[x] = "put" /\ ~In(high, x) /\ rc[x][p] = "null" /\ Here(x, p)

OnRx(x) ==
  \A p \in PortIndex : In(RxId[p], x) =>
    /\ Here(x, p)
    /\ IF call[x] = "get" THEN ~In(high, x) /\ rc[x][p] = "null"
                          ELSE call[x] \in {"multi", "multicopy"} /\ rc[x][p] = "waiting"

(* ... of one that is about to return from its call, ...                   *)
OnHigh(x) ==
  /\ In(high, x) => call[x] \in {"put", "get", "multi"} /\ ~state[x]
  /\ x \in moved => call[x] = "put" /\ In(high, x)
  /\ call[x] = "put" /\ In(high, x) => (rc[x][want[x][1].ix] = "null" <=> x \in moved)

(* ... of one in MultiWait(), ...                                          *)
Multi(x) ==
  /\ state[x] => call[x] = "multi" /\ ~In(high, x) /\ \A p \in Hooks(x) : rc[x][p] = "waiting"
  /\ call[x] = "multi" /\ ~state[x] => In(high, x)
  /\ call[x] \in {"multi", "multicopy"} => \A p \in PortIndex : rc[x][p] = "waiting" => p \in Hooks(x)
  /\ call[x] = "multi" /\ Got(x) => AtHead(x) /\ ~Failed(x, Hooks(x))
  /\ call[x] = "multicopy" => ~Got(x)

(* ... and of the descriptors and the other side of its call.              *)
Lengths(x) ==
  /\ call[x] \in {"made", "put", "get", "putcopy", "getcopy"} => Len(want[x]) = 1
  /\ call[x] # "none" => Len(want[x]) >= 1
  /\ peer[x] = None <=> call[x] \notin {"putcopy", "getcopy", "multicopy"}

Own(x) == OnTx(x) /\ OnRx(x) /\ OnHigh(x) /\ Multi(x) /\ Lengths(x)

(* A thread that waits is on a queue, or being copied from or to, or is    *)
(* about to return.                                                        *)
Sent(u, x, p)  == peer[u] = x /\ call[u] = "putcopy" /\ Aim(u).ix = p
Taken(u, x)    == peer[u] = x /\ call[u] \in {"getcopy", "multicopy"}
SentTo(x, p)   == \E u \in Threads : Sent(u, x, p)
TakenFrom(x)   == \E u \in Threads : Taken(u, x)

Linked(x) ==
  /\ call[x] = "put" => In(high, x) \/ TakenFrom(x) \/ \E p \in PortIndex : In(TxId[p], x)
  /\ call[x] = "get" => In(high, x) \/ \E p \in PortIndex : In(RxId[p], x) \/ SentTo(x, p)
  /\ call[x] \in {"multi", "multicopy"} =>
       \A p \in PortIndex : rc[x][p] = "waiting" =>
         In(RxId[p], x) \/ SentTo(x, p) \/ (call[x] = "multicopy" /\ held[x] > 0)

(* What the copying thread u relies on: its other side x is unlinked from  *)
(* the queue it was found on, and stays in its call.                       *)
Receiver(x, p) ==
  IF call[x] = "get" THEN ~In(high, x) /\ rc[x][p] = "null" /\ \A q \in PortIndex : ~In(RxId[q], x)
                     ELSE call[x] \in {"multi", "multicopy"} /\ rc[x][p] = "waiting" /\ ~In(RxId[p], x)

Transmitter(x, p) ==
  call[x] = "put" /\ ~In(high, x) /\ rc[x][p] = "null" /\ \A q \in PortIndex : ~In(TxId[q], x)

Copier(u) ==
  peer[u] # None =>
    /\ Wants(peer[u], Aim(u))
    /\ IF call[u] = "putcopy" THEN Receiver(peer[u], Aim(u).ix) ELSE Transmitter(peer[u], Aim(u).ix)

Sole == \A u, v \in Threads : peer[u] # None /\ peer[u] = peer[v] /\ Aim(u).ix = Aim(v).ix => u = v

(* The messages in a thread's buffer.                                      *)
Holds(x) ==
  CASE call[x] = "get"       -> held[x] = IF In(high, x) /\ rc[x][want[x][1].ix] = "null" THEN 1 ELSE 0
    [] call[x] = "multi"     -> held[x] = IF Got(x) THEN 1 ELSE 0
    [] call[x] = "multicopy" -> held[x] > 0 => Crossed(x)
    [] OTHER                 -> held[x] = 0

PInv ==
  /\ Queues
  /\ \A x \in Threads : Own(x) /\ Linked(x)
  /\ NeverAstray => Sole /\ \A x \in Threads : Copier(x) /\ Holds(x)

----------------------------------------------------------------------------
(* A thread that a step does not concern, ...                              *)
On(x, p) == In(TxId[p], x) \/ In(RxId[p], x)

SameCall(x) ==
  /\ call'[x] = call[x] /\ want'[x] = want[x] /\ rc'[x] = rc[x] /\ state'[x] = state[x]
  /\ peer'[x] = peer[x] /\ held'[x] = held[x]
  /\ x \in moved' <=> x \in moved

SamePlace(x) ==
  /\ In(high', x) <=> In(high, x)
  /\ AtHead(x) => AtHead(x)'
  /\ \A p \in PortIndex : /\ In(TxId'[p], x) <=> In(TxId[p], x)
                          /\ In(RxId'[p], x) <=> In(RxId[p], x)
                          /\ On(x, p) => Type'[p] = Type[p] /\ Cycle'[p] = Cycle[p]

Same(x) == SameCall(x) /\ SamePlace(x)

(* ... one that may have left a queue, ...                                 *)
Less(x) ==
  /\ SameCall(x)
  /\ In(high', x) <=> In(high, x)
  /\ AtHead(x) => AtHead(x)'
  /\ \A p \in PortIndex : /\ In(TxId'[p], x) => In(TxId[p], x)
                          /\ In(RxId'[p], x) => In(RxId[p], x)
                          /\ On(x, p) => Type'[p] = Type[p] /\ Cycle'[p] = Cycle[p]

(* ... and one that goes on copying what it copies.                        *)
Kept(u) == peer'[u] = peer[u] /\ call'[u] = call[u] /\ want'[u] = want[u]

(* A thread whose call goes on keeps its hooks.                            *)
LEMMA HooksSpared ==
  ASSUME NEW x, call'[x] = call[x], want'[x] = want[x]
  PROVE  Hooks(x)' = Hooks(x)
BY DEF Hooks, Slots

(* Nothing happened to x, so nothing it did not expect.                    *)
LEMMA SameLess ==
  ASSUME NEW x, Same(x)
  PROVE  Less(x)
BY DEF Same, SamePlace, Less

(* What is known of the thread itself stays true, ...                      *)
LEMMA OwnSpared ==
  ASSUME NEW x \in Threads, Own(x), Less(x)
  PROVE  Own(x)'
<1>1. Hooks(x)' = Hooks(x)
  BY HooksSpared DEF Less, SameCall
<1>2. OnTx(x)'
  BY DEF Own, OnTx, Less, SameCall, Here, Wants, On
<1>3. OnRx(x)'
  BY DEF Own, OnRx, Less, SameCall, Here, Wants, On
<1>4. OnHigh(x)'
  BY DEF Own, OnHigh, Less, SameCall
<1>5. Multi(x)'
  BY <1>1 DEF Own, Multi, Less, SameCall, Got, Failed
<1>6. Lengths(x)'
  BY DEF Own, Lengths, Less, SameCall
<1> QED
  BY <1>2, <1>3, <1>4, <1>5, <1>6 DEF Own

(* ... that it is crossed does, ...                                        *)
LEMMA CrossedSpared ==
  ASSUME NEW x \in Threads, Crossed(x), call'[x] = call[x], rc'[x] = rc[x], state'[x] = state[x],
         \A p \in PortIndex : In(RxId'[p], x) => In(RxId[p], x)
  PROVE  Crossed(x)'
BY DEF Crossed

(* ... what is in its buffer, ...                                          *)
LEMMA HoldsSpared ==
  ASSUME NEW x \in Threads, Holds(x), Less(x)
  PROVE  Holds(x)'
<1>1. Hooks(x)' = Hooks(x)
  BY HooksSpared DEF Less, SameCall
<1>2. Got(x)' <=> Got(x)
  BY <1>1 DEF Got, Less, SameCall
<1>3. Crossed(x) => Crossed(x)'
  BY CrossedSpared DEF Less, SameCall
<1> QED
  BY <1>2, <1>3 DEF Holds, Less, SameCall

(* ... how it can be reached, ...                                          *)
LEMMA LinkedSpared ==
  ASSUME NEW x \in Threads, Linked(x), Same(x), \A u \in Threads : peer[u] = x => Kept(u)
  PROVE  Linked(x)'
<1>1. \A p : SentTo(x, p) => SentTo(x, p)'
  BY DEF SentTo, Sent, Kept, Aim
<1>2. TakenFrom(x) => TakenFrom(x)'
  BY DEF TakenFrom, Taken, Kept
<1>3. call'[x] = "put" => In(high', x) \/ TakenFrom(x)' \/ \E p \in PortIndex : In(TxId'[p], x)
  BY <1>2 DEF Linked, Same, SameCall, SamePlace
<1>4. call'[x] = "get" => In(high', x) \/ \E p \in PortIndex : In(RxId'[p], x) \/ SentTo(x, p)'
  BY <1>1 DEF Linked, Same, SameCall, SamePlace
<1>5. call'[x] \in {"multi", "multicopy"} =>
        \A p \in PortIndex : rc'[x][p] = "waiting" =>
          In(RxId'[p], x) \/ SentTo(x, p)' \/ (call'[x] = "multicopy" /\ held'[x] > 0)
  BY <1>1 DEF Linked, Same, SameCall, SamePlace
<1> QED
  BY <1>3, <1>4, <1>5 DEF Linked

(* Where a copying thread's message goes.                                  *)
LEMMA AimSlot ==
  ASSUME TypeOK, NEW u \in Threads, Lengths(u), peer[u] # None
  PROVE  Aim(u) \in Descriptors /\ Aim(u).ix \in PortIndex /\ Wants(u, Aim(u)) /\ Len(want[u]) >= 1
<1>1. want[u] \in Seq(Descriptors) /\ Len(want[u]) \in Nat /\ Len(want[u]) >= 1
  <2>1. want[u] \in Seq(Descriptors)
    BY DEF TypeOK
  <2>2. Len(want[u]) \in Nat
    BY <2>1, LenProperties
  <2>3. Len(want[u]) >= 1
    BY DEF Lengths
  <2> QED
    BY <2>1, <2>2, <2>3
<1>2. Aim(u) \in Descriptors /\ Len(want[u]) \in 1 .. Len(want[u])
  BY <1>1, ElementOfSeq DEF Aim
<1>3. Wants(u, Aim(u))
  BY <1>2 DEF Wants, Aim
<1> QED
  BY <1>1, <1>2, <1>3 DEF Descriptors

(* ... and what a copying thread relies on.                                *)
LEMMA CopierSpared ==
  ASSUME TypeOK, NEW u \in Threads, Lengths(u), Copier(u), Kept(u), peer[u] \in Threads => Less(peer[u])
  PROVE  Copier(u)'
<1>1. CASE peer[u] = None
  BY <1>1 DEF Copier, Kept
<1>2. CASE peer[u] # None
  <2>1. PICK x \in Threads : x = peer[u] /\ x = peer'[u]
    BY <1>2 DEF Kept, TypeOK
  <2>2. Aim(u)' = Aim(u) /\ call'[u] = call[u] /\ Less(x) /\ Aim(u).ix \in PortIndex
    BY <1>2, <2>1, AimSlot DEF Aim, Kept
  <2>3. Wants(x, Aim(u))' /\ IF call[u] = "putcopy" THEN Receiver(x, Aim(u).ix) ELSE Transmitter(x, Aim(u).ix)
    BY <1>2, <2>1, <2>2 DEF Copier, Wants, Less, SameCall
  <2>4. ASSUME NEW p \in PortIndex
        PROVE  /\ Receiver(x, p) => Receiver(x, p)'
               /\ Transmitter(x, p) => Transmitter(x, p)'
    BY <2>2 DEF Receiver, Transmitter, Less, SameCall
  <2> QED
    BY <2>1, <2>2, <2>3, <2>4 DEF Copier
<1> QED
  BY <1>1, <1>2

(* A step that concerns the threads in W.                                  *)
LEMMA StepKeeps ==
  ASSUME TypeOK, PInv, NeverAstray, NEW W \in SUBSET Threads,
         \A x \in Threads \ W : Same(x),
         \A u \in Threads : peer[u] \in Threads \ W => Kept(u),
         Queues',
         \A x \in W : Own(x)' /\ Linked(x)',
         NeverAstray' => /\ \A x \in W : Holds(x)'
                         /\ \A u \in Threads : u \in W \/ peer[u] \in W => Copier(u)'
                         /\ Sole'
  PROVE  PInv'
<1>1. ASSUME NEW x \in Threads \ W
      PROVE  Own(x)' /\ Linked(x)' /\ Holds(x)'
  <2>1. Same(x) /\ Own(x) /\ Linked(x) /\ Holds(x)
    BY DEF PInv
  <2>2. \A u \in Threads : peer[u] = x => Kept(u)
    OBVIOUS
  <2> QED
    BY <2>1, <2>2, SameLess, OwnSpared, LinkedSpared, HoldsSpared
<1>2. ASSUME NEW u \in Threads \ W, peer[u] \notin W
      PROVE  Copier(u)'
  <2>1. Same(u) /\ Lengths(u) /\ Copier(u) /\ (peer[u] \in Threads => Same(peer[u]))
    BY <1>2 DEF PInv, Own
  <2>2. Kept(u) /\ (peer[u] \in Threads => Less(peer[u]))
    BY <2>1, SameLess DEF Same, SameCall, Kept
  <2> QED
    BY <2>1, <2>2, CopierSpared
<1>3. \A x \in Threads : Own(x)' /\ Linked(x)'
  BY <1>1
<1>4. ASSUME NeverAstray'
      PROVE  Sole' /\ \A x \in Threads : Copier(x)' /\ Holds(x)'
  BY <1>1, <1>2, <1>4
<1> QED
  BY <1>3, <1>4 DEF PInv

(* A step of t, of which no other thread takes part.                       *)
LEMMA ActorKeeps ==
  ASSUME TypeOK, PInv, NeverAstray, NEW t \in Threads, peer[t] = None, peer'[t] = None,
         \A x \in Threads \ {t} : Same(x),
         Queues', Own(t)', Linked(t)',
         NeverAstray' => Holds(t)' /\ \A u \in Threads : peer[u] # t
  PROVE  PInv'
<1>1. \A x \in Threads \ {t} : SameCall(x)
  BY DEF Same
<1>2. \A u \in Threads : peer[u] \in Threads \ {t} => Kept(u)
  BY <1>1, ThreadAssumption DEF SameCall, Kept
<1>3. Copier(t)'
  BY DEF Copier
<1>4. Sole'
  <2>1. Sole
    BY DEF PInv
  <2>2. ASSUME NEW u \in Threads, NEW v \in Threads, peer'[u] # None, peer'[u] = peer'[v],
               Aim(u)'.ix = Aim(v)'.ix
        PROVE  u = v
    <3>1. u # t /\ v # t
      BY <2>2
    <3>2. peer'[u] = peer[u] /\ peer'[v] = peer[v] /\ Aim(u)' = Aim(u) /\ Aim(v)' = Aim(v)
      BY <1>1, <3>1 DEF SameCall, Aim
    <3> QED
      BY <2>1, <2>2, <3>2 DEF Sole
  <2> QED
    BY <2>2 DEF Sole
<1> DEFINE W == {t}
<1>5. /\ W \in SUBSET Threads /\ \A x \in Threads \ W : Same(x)
      /\ \A u \in Threads : peer[u] \in Threads \ W => Kept(u)
      /\ \A x \in W : Own(x)' /\ Linked(x)'
  BY <1>2
<1>6. NeverAstray' => /\ \A x \in W : Holds(x)'
                      /\ \A u \in Threads : u \in W \/ peer[u] \in W => Copier(u)'
                      /\ Sole'
  BY <1>3, <1>4
<1> HIDE DEF W
<1> QED
  BY <1>5, <1>6, StepKeeps

(* A step in which t starts to copy from or to x, unlinked from a queue.   *)
LEMMA TakingKeeps ==
  ASSUME TypeOK, PInv, NeverAstray, NEW t \in Threads, NEW x \in Threads, t # x,
         \A u \in Threads : peer[u] # t,
         peer[t] = None, peer'[t] = x,
         \A y \in Threads \ {t, x} : Same(y), Less(x),
         Queues', Own(t)', Linked(t)', Linked(x)', Holds(t)', Copier(t)',
         \A u \in Threads : peer[u] = x => Aim(u).ix # Aim(t)'.ix
  PROVE  PInv'
<1> DEFINE W == {t, x}
<1>1. \A y \in Threads \ {t} : SameCall(y) /\ Less(y)
  BY SameLess DEF Same, Less
<1>2. \A u \in Threads \ {t} : Kept(u) /\ Aim(u)' = Aim(u)
  BY <1>1 DEF SameCall, Kept, Aim
<1>3. Own(x)' /\ Holds(x)'
  BY <1>1, OwnSpared, HoldsSpared DEF PInv
<1>4. ASSUME NEW u \in Threads, u # t
      PROVE  Copier(u)'
  <2>1. Lengths(u) /\ Copier(u) /\ (peer[u] \in Threads => Less(peer[u]))
    BY <1>1 DEF PInv, Own
  <2> QED
    BY <1>2, <1>4, <2>1, CopierSpared
<1>5. Sole'
  <2>1. Sole
    BY DEF PInv
  <2>2. ASSUME NEW u \in Threads, NEW v \in Threads, peer'[u] # None, peer'[u] = peer'[v],
               Aim(u)'.ix = Aim(v)'.ix
        PROVE  u = v
    BY <1>2, <2>1, <2>2 DEF Sole, Kept
  <2> QED
    BY <2>2 DEF Sole
<1>6. /\ W \in SUBSET Threads /\ \A y \in Threads \ W : Same(y)
      /\ \A u \in Threads : peer[u] \in Threads \ W => Kept(u)
      /\ \A y \in W : Own(y)' /\ Linked(y)'
  BY <1>2, <1>3, ThreadAssumption
<1>7. NeverAstray' => /\ \A y \in W : Holds(y)'
                      /\ \A u \in Threads : u \in W \/ peer[u] \in W => Copier(u)'
                      /\ Sole'
  BY <1>3, <1>4, <1>5
<1> HIDE DEF W
<1> QED
  BY <1>6, <1>7, StepKeeps

(* A step in which t ends its copy from or to x.                           *)
LEMMA EndingKeeps ==
  ASSUME TypeOK, PInv, NeverAstray, NEW t \in Threads, NEW x \in Threads, t # x,
         peer[t] = x, peer'[t] = None,
         \A y \in Threads \ {t, x} : Same(y), Kept(x),
         Queues', Own(t)', Linked(t)', Own(x)', Linked(x)',
         NeverAstray' => /\ Holds(t)' /\ Holds(x)' /\ Copier(x)'
                         /\ \A u \in Threads : peer[u] # t
                         /\ \A u \in Threads \ {t, x} : peer[u] = x => Copier(u)'
  PROVE  PInv'
<1> DEFINE W == {t, x}
<1>1. \A u \in Threads \ {t} : Kept(u) /\ Aim(u)' = Aim(u)
  BY DEF Same, SameCall, Kept, Aim
<1>2. Sole'
  <2>1. Sole
    BY DEF PInv
  <2>2. ASSUME NEW u \in Threads, NEW v \in Threads, peer'[u] # None, peer'[u] = peer'[v],
               Aim(u)'.ix = Aim(v)'.ix
        PROVE  u = v
    BY <1>1, <2>1, <2>2 DEF Sole, Kept
  <2> QED
    BY <2>2 DEF Sole
<1>3. Copier(t)'
  BY DEF Copier
<1>4. /\ W \in SUBSET Threads /\ \A y \in Threads \ W : Same(y)
      /\ \A u \in Threads : peer[u] \in Threads \ W => Kept(u)
      /\ \A y \in W : Own(y)' /\ Linked(y)'
  BY <1>1
<1>5. NeverAstray' => /\ \A y \in W : Holds(y)'
                      /\ \A u \in Threads : u \in W \/ peer[u] \in W => Copier(u)'
                      /\ Sole'
  BY <1>2, <1>3
<1> HIDE DEF W
<1> QED
  BY <1>4, <1>5, StepKeeps
----------------------------------------------------------------------------
(* What the invariant says of threads that are not waiting, ...            *)
Idle(t) ==
  /\ ~In(high, t) /\ ~state[t] /\ t \notin moved /\ held[t] = 0
  /\ \A p \in PortIndex : ~In(TxId[p], t) /\ ~In(RxId[p], t)
  /\ \A u \in Threads : peer[u] # t

(* Nobody holds anything of a thread that waits for nothing.               *)
LEMMA OutsideIdle ==
  ASSUME TypeOK, PInv, NeverAstray, NEW t \in Threads, call[t] \in {"none", "made", "putcopy", "getcopy"}
  PROVE  Idle(t)
<1>1. Own(t) /\ Holds(t)
  BY DEF PInv
<1>2. ~In(high, t) /\ ~state[t] /\ t \notin moved
  BY <1>1 DEF Own, OnHigh, Multi, TypeOK
<1>3. \A p \in PortIndex : ~In(TxId[p], t) /\ ~In(RxId[p], t)
  BY <1>1 DEF Own, OnTx, OnRx
<1>4. held[t] = 0
  BY <1>1 DEF Holds
<1>5. ASSUME NEW u \in Threads, peer[u] = t
      PROVE  FALSE
  <2>1. Copier(u) /\ peer[u] # None
    BY <1>5, ThreadAssumption DEF PInv
  <2> QED
    BY <1>5, <2>1 DEF Copier, Receiver, Transmitter
<1> QED
  BY <1>2, <1>3, <1>4, <1>5 DEF Idle

(* Nobody is about to return while no HIGHPRI thread can run.              *)
LEMMA NoneOnHigh ==
  ASSUME high = <<>>
  PROVE  \A x : ~In(high, x) /\ ~AtHead(x)
BY DEF In, AtHead

(* ... of one that becomes such, ...                                       *)
LEMMA BecomesQuiet ==
  ASSUME NEW t \in Threads, call'[t] \in {"none", "made", "putcopy", "getcopy"},
         call'[t] # "none" => Len(want'[t]) = 1 /\ Len(want'[t]) >= 1,
         peer'[t] = None <=> call'[t] \in {"none", "made"},
         ~In(high', t), ~state'[t], t \notin moved',
         \A p \in PortIndex : ~In(TxId'[p], t) /\ ~In(RxId'[p], t)
  PROVE  Own(t)' /\ Linked(t)' /\ (held'[t] = 0 => Holds(t)')
<1>1. OnTx(t)' /\ OnRx(t)' /\ OnHigh(t)'
  BY DEF OnTx, OnRx, OnHigh
<1>2. Multi(t)' /\ Lengths(t)'
  BY DEF Multi, Lengths
<1>3. Linked(t)'
  BY DEF Linked
<1>4. held'[t] = 0 => Holds(t)'
  BY DEF Holds
<1> QED
  BY <1>1, <1>2, <1>3, <1>4 DEF Own
(* ... and of the slots of the table.                                      *)
LEMMA FreeUnused ==
  ASSUME PInv, NEW p \in PortIndex, Type[p] # "local"
  PROVE  \A x \in Threads : ~On(x, p)
BY DEF PInv, Own, OnTx, OnRx, Here, On

(* A port has waiters on one side only.                                    *)
LEMMA Sides ==
  ASSUME TypeOK, PInv
  PROVE  OneSided
<1>1. ASSUME NEW p \in PortIndex
      PROVE  TxId[p] = <<>> \/ RxId[p] = <<>>
  <2>1. TxId[p] \in Seq(Threads) /\ RxId[p] \in Seq(Threads)
    BY DEF TypeOK
  <2> QED
    BY <2>1, EmptyList DEF PInv, Queues, Apart
<1> QED
  BY <1>1 DEF OneSided

(* What Begin() sets.                                                      *)
CallTypes ==
  /\ call \in [Threads -> Calls] /\ want \in [Threads -> Seq(Descriptors)]
  /\ rc \in [Threads -> [PortIndex -> Results]] /\ endtime \in [Threads -> {"forever", "coming", "past"}]

Alone(t) == \A x \in Threads \ {t} : call'[x] = call[x] /\ want'[x] = want[x] /\ rc'[x] = rc[x]

(* What the beginning of a call leaves behind.                             *)
LEMMA Begins ==
  ASSUME TypeOK, NEW t \in Threads, NEW c \in Calls, NEW ds \in Seq(Descriptors), NEW d \in Timeouts,
         NEW P, Begin(t, c, ds, d, P)
  PROVE  /\ CallTypes' /\ Alone(t) /\ call'[t] = c /\ want'[t] = ds
         /\ \A p \in PortIndex :
              rc'[t][p] = IF p \notin P THEN "unused" ELSE IF c \in {"put", "get"} THEN "null" ELSE "waiting"
<1> DEFINE r == [p \in PortIndex |->
              IF p \notin P THEN "unused" ELSE IF c \in {"put", "get"} THEN "null" ELSE "waiting"]
           e == IF P = {} THEN "forever" ELSE Ends(d)
<1>1. r \in [PortIndex -> Results]
  BY DEF Results
<1>2. e \in {"forever", "coming", "past"}
  BY DEF Ends
<1>3. rc' = [rc EXCEPT ![t] = r] /\ endtime' = [endtime EXCEPT ![t] = e]
      /\ call' = [call EXCEPT ![t] = c] /\ want' = [want EXCEPT ![t] = ds]
  BY DEF Begin
<1>4. \A p \in PortIndex :
        r[p] = IF p \notin P THEN "unused" ELSE IF c \in {"put", "get"} THEN "null" ELSE "waiting"
  OBVIOUS
<1> HIDE DEF r, e
<1>5. CallTypes'
  BY <1>1, <1>2, <1>3 DEF TypeOK, CallTypes
<1>6. rc'[t] = r /\ call'[t] = c /\ want'[t] = ds
  BY <1>3 DEF TypeOK
<1>7. Alone(t)
  BY <1>3 DEF TypeOK, Alone
<1> QED
  BY <1>4, <1>5, <1>6, <1>7

(* A call on one port has a list of one descriptor.                        *)
LEMMA OneDescriptor ==
  ASSUME NEW d \in Descriptors
  PROVE  <<d>> \in Seq(Descriptors) /\ Len(<<d>>) = 1 /\ <<d>>[1] = d
OBVIOUS

(* A call with one descriptor, ...                                         *)
Asks(t, c, d) ==
  /\ CallTypes' /\ Alone(t) /\ call'[t] = c
  /\ Len(want'[t]) = 1 /\ Len(want'[t]) >= 1 /\ want'[t][1] = d /\ Aim(t)' = d /\ Wants(t, d)'

(* The beginning of a PutMsg() or GetMsg().                                *)
LEMMA BeginsOne ==
  ASSUME TypeOK, NEW t \in Threads, NEW c \in Calls, NEW d \in Descriptors, NEW w \in Timeouts,
         NEW P, Begin(t, c, <<d>>, w, P)
  PROVE  /\ Asks(t, c, d)
         /\ c \in {"put", "get"} => \A p \in P : p \in PortIndex => rc'[t][p] = "null"
<1>1. PICK ds \in Seq(Descriptors) : Begin(t, c, ds, w, P) /\ Len(ds) = 1 /\ ds[1] = d
  <2>1. <<d>> \in Seq(Descriptors) /\ Len(<<d>>) = 1 /\ <<d>>[1] = d
    BY OneDescriptor
  <2> QED
    BY <2>1
<1>2. /\ CallTypes' /\ Alone(t) /\ call'[t] = c /\ want'[t] = ds
      /\ \A p \in PortIndex :
           rc'[t][p] = IF p \notin P THEN "unused" ELSE IF c \in {"put", "get"} THEN "null" ELSE "waiting"
  BY <1>1, Begins
<1>3. Len(want'[t]) = 1 /\ want'[t][1] = d /\ Len(want'[t]) >= 1
  BY <1>1, <1>2
<1>4. Aim(t)' = d /\ Wants(t, d)'
  BY <1>3 DEF Aim, Wants
<1> QED
  BY <1>2, <1>3, <1>4 DEF Asks

(* Such a call wants that descriptor and no other.                         *)
LEMMA Only ==
  ASSUME NEW x, Len(want[x]) = 1
  PROVE  /\ Aim(x) = want[x][1]
         /\ \A d : Wants(x, d) <=> d = want[x][1]
BY DEF Aim, Wants

(* ... and the end of one.                                                 *)
LEMMA Finishes ==
  ASSUME TypeOK, NEW t \in Threads, Finish(t)
  PROVE  CallTypes' /\ Alone(t) /\ call'[t] = "none"
<1>1. "none" \in Calls /\ "forever" \in Timeouts /\ <<>> \in Seq(Descriptors)
  BY DEF Calls, Timeouts
<1>2. Begin(t, "none", <<>>, "forever", {})
  BY DEF Finish
<1> QED
  BY <1>1, <1>2, Begins
----------------------------------------------------------------------------
(* The queues of the table, as one: an Id joins one, the first leaves one, *)
(* one is emptied, an Id is hooked on some, is unhooked from some.         *)
Queued == [PortIndex -> Seq(Threads)]

Joined(Q, p, t)   == [Q EXCEPT ![p] = Append(@, t)]
Shifted(Q, p)     == [Q EXCEPT ![p] = Tail(@)]
Emptied(Q, p)     == [Q EXCEPT ![p] = <<>>]
Hooked(Q, P, t)   == [p \in PortIndex |-> IF p \in P THEN Append(Q[p], t) ELSE Q[p]]
Unhooked(Q, P, S) == [p \in PortIndex |-> IF p \in P THEN Drop(Q[p], S) ELSE Q[p]]

AllOnce(Q) == \A p \in PortIndex : Once(Q[p])

(* The queues of all the ports when t has joined that of p, ...            *)
LEMMA JoinQueue ==
  ASSUME NEW Q \in Queued, NEW p \in PortIndex, NEW t \in Threads
  PROVE  /\ Joined(Q, p, t) \in Queued
         /\ \A r \in PortIndex : \A x : In(Joined(Q, p, t)[r], x) <=> In(Q[r], x) \/ (r = p /\ x = t)
         /\ AllOnce(Q) /\ ~In(Q[p], t) => AllOnce(Joined(Q, p, t))
<1>1. Q[p] \in Seq(Threads) /\ Joined(Q, p, t) = [Q EXCEPT ![p] = Append(Q[p], t)]
  BY DEF Queued, Joined
<1>2. /\ Append(Q[p], t) \in Seq(Threads)
      /\ \A x : In(Append(Q[p], t), x) <=> In(Q[p], x) \/ x = t
      /\ Once(Q[p]) /\ ~In(Q[p], t) => Once(Append(Q[p], t))
  BY <1>1, AppendList
<1>3. /\ Joined(Q, p, t) \in Queued /\ Joined(Q, p, t)[p] = Append(Q[p], t)
      /\ \A r \in PortIndex \ {p} : Joined(Q, p, t)[r] = Q[r]
  BY <1>1, <1>2 DEF Queued
<1> QED
  BY <1>2, <1>3 DEF AllOnce

(* ... when the head of that of p has left, ...                            *)
LEMMA ShiftQueue ==
  ASSUME NEW Q \in Queued, NEW p \in PortIndex, Q[p] # <<>>, AllOnce(Q)
  PROVE  /\ Shifted(Q, p) \in Queued /\ AllOnce(Shifted(Q, p))
         /\ Head(Q[p]) \in Threads /\ In(Q[p], Head(Q[p]))
         /\ \A r \in PortIndex : \A x :
              In(Shifted(Q, p)[r], x) <=> In(Q[r], x) /\ (r = p => x # Head(Q[p]))
<1>1. Q[p] \in Seq(Threads) /\ Shifted(Q, p) = [Q EXCEPT ![p] = Tail(Q[p])] /\ Once(Q[p])
  BY DEF Queued, Shifted, AllOnce
<1>2. /\ Head(Q[p]) \in Threads /\ Tail(Q[p]) \in Seq(Threads) /\ Once(Tail(Q[p]))
      /\ In(Q[p], Head(Q[p]))
      /\ \A x : In(Tail(Q[p]), x) <=> In(Q[p], x) /\ x # Head(Q[p])
  BY <1>1, TailList
<1>3. /\ Shifted(Q, p) \in Queued /\ Shifted(Q, p)[p] = Tail(Q[p])
      /\ \A r \in PortIndex \ {p} : Shifted(Q, p)[r] = Q[r]
  BY <1>1, <1>2 DEF Queued
<1> QED
  BY <1>2, <1>3 DEF AllOnce

(* ... when that of p has been emptied, ...                                *)
LEMMA EmptyQueue ==
  ASSUME NEW Q \in Queued, NEW p \in PortIndex
  PROVE  /\ Emptied(Q, p) \in Queued
         /\ AllOnce(Q) => AllOnce(Emptied(Q, p))
         /\ \A r \in PortIndex : \A x : In(Emptied(Q, p)[r], x) <=> In(Q[r], x) /\ r # p
<1>1. <<>> \in Seq(Threads) /\ Once(<<>>) /\ \A x : ~In(<<>>, x)
  BY DEF Once, In
<1>2. /\ Emptied(Q, p) \in Queued /\ Emptied(Q, p)[p] = <<>>
      /\ \A r \in PortIndex \ {p} : Emptied(Q, p)[r] = Q[r]
  BY <1>1 DEF Queued, Emptied
<1> QED
  BY <1>1, <1>2 DEF AllOnce

(* ... when t has joined those of the slots P, ...                         *)
LEMMA HookQueues ==
  ASSUME NEW Q \in Queued, NEW P, NEW t \in Threads
  PROVE  /\ Hooked(Q, P, t) \in Queued
         /\ \A r \in PortIndex : \A x : In(Hooked(Q, P, t)[r], x) <=> In(Q[r], x) \/ (r \in P /\ x = t)
         /\ AllOnce(Q) /\ (\A r \in PortIndex : ~In(Q[r], t)) => AllOnce(Hooked(Q, P, t))
<1>1. ASSUME NEW r \in PortIndex
      PROVE  /\ Hooked(Q, P, t)[r] = IF r \in P THEN Append(Q[r], t) ELSE Q[r]
             /\ Append(Q[r], t) \in Seq(Threads) /\ Q[r] \in Seq(Threads)
             /\ \A x : In(Append(Q[r], t), x) <=> In(Q[r], x) \/ x = t
             /\ Once(Q[r]) /\ ~In(Q[r], t) => Once(Append(Q[r], t))
  <2>1. Q[r] \in Seq(Threads)
    BY DEF Queued
  <2> QED
    BY <2>1, AppendList DEF Hooked
<1>2. Hooked(Q, P, t) \in Queued
  BY <1>1 DEF Hooked, Queued
<1>3. \A r \in PortIndex : \A x : In(Hooked(Q, P, t)[r], x) <=> In(Q[r], x) \/ (r \in P /\ x = t)
  BY <1>1
<1>4. AllOnce(Q) /\ (\A r \in PortIndex : ~In(Q[r], t)) => AllOnce(Hooked(Q, P, t))
  BY <1>1 DEF AllOnce
<1> QED
  BY <1>2, <1>3, <1>4

(* ... and when the threads S have been taken off those of P.              *)
LEMMA UnhookQueues ==
  ASSUME NEW Q \in Queued, NEW P, NEW S, AllOnce(Q)
  PROVE  /\ Unhooked(Q, P, S) \in Queued /\ AllOnce(Unhooked(Q, P, S))
         /\ \A r \in PortIndex : \A x :
              In(Unhooked(Q, P, S)[r], x) <=> In(Q[r], x) /\ ~(r \in P /\ x \in S)
<1>1. ASSUME NEW r \in PortIndex
      PROVE  /\ Unhooked(Q, P, S)[r] = IF r \in P THEN Drop(Q[r], S) ELSE Q[r]
             /\ Drop(Q[r], S) \in Seq(Threads) /\ Q[r] \in Seq(Threads) /\ Once(Q[r])
             /\ \A x : In(Drop(Q[r], S), x) <=> In(Q[r], x) /\ x \notin S
             /\ Once(Drop(Q[r], S))
  <2>1. Q[r] \in Seq(Threads) /\ Once(Q[r])
    BY DEF Queued, AllOnce
  <2> QED
    BY <2>1, DropList DEF Unhooked
<1>2. Unhooked(Q, P, S) \in Queued
  BY <1>1 DEF Unhooked, Queued
<1>3. \A r \in PortIndex : \A x : In(Unhooked(Q, P, S)[r], x) <=> In(Q[r], x) /\ ~(r \in P /\ x \in S)
  BY <1>1
<1>4. AllOnce(Unhooked(Q, P, S))
  BY <1>1 DEF AllOnce
<1> QED
  BY <1>2, <1>3, <1>4

(* The other things that change no queue.                                  *)
LEMMA QueuesSpared ==
  ASSUME Queues, UNCHANGED <<Type, PTFreeq>>, Once(high'),
         AllOnce(TxId') /\ AllOnce(RxId'), Apart'
  PROVE  Queues'
BY DEF Queues, FreeList, AllOnce

----------------------------------------------------------------------------
(* The steps, one by one.                                                  *)
LEMMA NewPortKeeps ==
  ASSUME TypeOK, PInv, NeverAstray, NEW t \in Threads, NewPort(t)
  PROVE  TypeOK' /\ PInv'
<1> DEFINE p == Head(PTFreeq)
           d == [ix |-> p, cy |-> Cycle[p]]
<1>1. Idle(t) /\ call[t] = "none" /\ high = <<>> /\ PTFreeq # <<>> /\ PTFreeq \in Seq(PortIndex)
  BY OutsideIdle DEF NewPort, Runs, TypeOK
<1>2. /\ p \in PortIndex /\ Tail(PTFreeq) \in Seq(PortIndex) /\ Once(Tail(PTFreeq)) /\ In(PTFreeq, p)
      /\ \A x : In(Tail(PTFreeq), x) <=> In(PTFreeq, x) /\ x # p
  BY <1>1, TailList DEF PInv, Queues, FreeList
<1>3. /\ Cycle[p] <= LastCycle /\ PTFreeq' = Tail(PTFreeq) /\ Type' = [Type EXCEPT ![p] = "local"]
      /\ Owner' = [Owner EXCEPT ![p] = None]
      /\ TxId' = Emptied(TxId, p) /\ RxId' = Emptied(RxId, p)
      /\ Begin(t, "made", <<d>>, "forever", {})
      /\ UNCHANGED <<Cycle, high, state, peer, held, moved, astray>>
  BY DEF NewPort, history, Emptied
<1>4. Type[p] = "free" /\ Cycle[p] \in 1 .. LastCycle + 1
  BY <1>2 DEF PInv, Queues, FreeList, TypeOK
<1>5. d \in Descriptors
  BY <1>2, <1>3, <1>4, CycleAssumption DEF Descriptors
<1> HIDE DEF p, d
<1>6. Asks(t, "made", d)
  <2>1. "made" \in Calls /\ "forever" \in Timeouts
    BY DEF Calls, Timeouts
  <2> QED
    BY <1>3, <1>5, <2>1, BeginsOne
<1>7. TxId \in Queued /\ RxId \in Queued /\ AllOnce(TxId) /\ AllOnce(RxId)
  BY DEF TypeOK, Queued, PInv, Queues, AllOnce
<1>8. /\ TxId' \in Queued /\ AllOnce(TxId')
      /\ \A r \in PortIndex : \A x : In(TxId'[r], x) <=> In(TxId[r], x) /\ r # p
  BY <1>2, <1>3, <1>7, EmptyQueue
<1>9. /\ RxId' \in Queued /\ AllOnce(RxId')
      /\ \A r \in PortIndex : \A x : In(RxId'[r], x) <=> In(RxId[r], x) /\ r # p
  BY <1>2, <1>3, <1>7, EmptyQueue
<1>10. \A x \in Threads : ~On(x, p)
  BY <1>2, <1>4, FreeUnused
<1>11. TypeOK'
  BY <1>2, <1>3, <1>6, <1>8, <1>9 DEF TypeOK, Queued, Asks, CallTypes
<1>12. ASSUME NEW x \in Threads \ {t}
       PROVE  Same(x)
  <2>1. SameCall(x)
    BY <1>3, <1>6 DEF SameCall, Asks, Alone
  <2>2. \A r \in PortIndex : On(x, r) => Type'[r] = Type[r] /\ Cycle'[r] = Cycle[r]
    BY <1>3, <1>10 DEF TypeOK
  <2>3. SamePlace(x)
    BY <1>3, <1>8, <1>9, <1>10, <2>2 DEF SamePlace, AtHead, On
  <2> QED
    BY <2>1, <2>3 DEF Same
<1>13. Queues'
  <2>1. FreeList'
    BY <1>2, <1>3, <1>4 DEF PInv, Queues, FreeList, TypeOK
  <2>2. Apart'
    <3>1. Apart
      BY DEF PInv, Queues
    <3> QED
      BY <1>8, <1>9, <3>1 DEF Apart
  <2>3. Once(high)
    BY DEF PInv, Queues
  <2> QED
    BY <1>3, <1>8, <1>9, <2>1, <2>2, <2>3 DEF Queues, AllOnce
<1>14. peer[t] = None /\ peer'[t] = None
  BY <1>1, <1>3 DEF PInv, Own, Lengths
<1>15. Own(t)' /\ Linked(t)' /\ Holds(t)'
  <2>1. call'[t] = "made" /\ Len(want'[t]) = 1 /\ Len(want'[t]) >= 1
    BY <1>6 DEF Asks
  <2>2. ~In(high', t) /\ ~state'[t] /\ t \notin moved' /\ held'[t] = 0
    BY <1>1, <1>3 DEF Idle
  <2>3. \A q \in PortIndex : ~In(TxId'[q], t) /\ ~In(RxId'[q], t)
    BY <1>1, <1>8, <1>9 DEF Idle
  <2> QED
    BY <1>14, <2>1, <2>2, <2>3, BecomesQuiet
<1> QED
  BY <1>1, <1>11, <1>12, <1>13, <1>14, <1>15, ActorKeeps DEF Idle
(* A call that returns without a change to the queues of the table.        *)
LEMMA NewPortReturnsKeeps ==
  ASSUME TypeOK, PInv, NeverAstray, NEW t \in Threads, NewPortReturns(t)
  PROVE  TypeOK' /\ PInv'
<1>1. Idle(t) /\ call[t] = "made"
  BY OutsideIdle DEF NewPortReturns
<1>2. /\ Owner' = [Owner EXCEPT ![want[t][1].ix] = t]
      /\ UNCHANGED <<Type, Cycle, PTFreeq, TxId, RxId, high, state, peer, held, moved, astray>>
  BY DEF NewPortReturns, history
<1>3. CallTypes' /\ Alone(t) /\ call'[t] = "none"
  BY Finishes DEF NewPortReturns
<1>4. TypeOK'
  BY <1>2, <1>3 DEF TypeOK, CallTypes
<1>5. \A x \in Threads \ {t} : Same(x)
  BY <1>2, <1>3 DEF Same, SameCall, SamePlace, Alone, AtHead
<1>6. Queues'
  BY <1>2 DEF PInv, Queues, Apart, FreeList
<1>7. peer[t] = None /\ peer'[t] = None
  BY <1>1, <1>2 DEF PInv, Own, Lengths
<1>8. Own(t)' /\ Linked(t)' /\ Holds(t)'
  BY <1>1, <1>2, <1>3, <1>7, BecomesQuiet DEF Idle
<1> QED
  BY <1>1, <1>4, <1>5, <1>6, <1>7, <1>8, ActorKeeps DEF Idle

(* The HIGHPRI queue without its head.                                     *)
LEMMA FirstLeaves ==
  ASSUME TypeOK, PInv, NEW t \in Threads, First(t)
  PROVE  /\ Tail(high) \in Seq(Threads \cup {Clock}) /\ Once(Tail(high))
         /\ In(high, t) /\ AtHead(t)
         /\ \A x : In(Tail(high), x) <=> In(high, x) /\ x # t
         /\ \A x \in Threads \ {t} : ~AtHead(x)
<1>1. high \in Seq(Threads \cup {Clock}) /\ Once(high) /\ high # <<>> /\ Head(high) = t
  BY DEF TypeOK, PInv, Queues, First
<1>2. /\ Tail(high) \in Seq(Threads \cup {Clock}) /\ Once(Tail(high)) /\ In(high, Head(high))
      /\ \A x : In(Tail(high), x) <=> In(high, x) /\ x # Head(high)
  BY <1>1, TailList
<1> QED
  BY <1>1, <1>2 DEF AtHead

(* In general: t is the head of high, leaves the receiver queues in P, and *)
(* ends its call.                                                          *)
Returning(t, P) ==
  /\ First(t) /\ call[t] \in {"put", "get", "multi"}
  /\ high' = Tail(high) /\ Finish(t)
  /\ RxId' = Unhooked(RxId, P, {t})
  /\ UNCHANGED <<table, TxId, state, peer>>

(* A call that returns to its program keeps the invariant: nobody holds    *)
(* anything of it.                                                         *)
LEMMA ReturningKeeps ==
  ASSUME TypeOK, PInv, NeverAstray, NEW t \in Threads, NEW P, Returning(t, P),
         \A p \in PortIndex : ~In(TxId[p], t) /\ (In(RxId[p], t) => p \in P),
         \A x \in Threads \ {t} : held'[x] = held[x] /\ (x \in moved' <=> x \in moved),
         held' \in [Threads -> Nat], moved' \subseteq Threads, t \notin moved',
         astray' \in {"no", "queue", "message"},
         NeverAstray' => held'[t] = 0 /\ \A u \in Threads : peer[u] # t
  PROVE  TypeOK' /\ PInv'
<1>1. /\ Tail(high) \in Seq(Threads \cup {Clock}) /\ Once(Tail(high))
      /\ In(high, t)
      /\ \A x : In(Tail(high), x) <=> In(high, x) /\ x # t
      /\ \A x \in Threads \ {t} : ~AtHead(x)
  BY FirstLeaves DEF Returning
<1>2. CallTypes' /\ Alone(t) /\ call'[t] = "none"
  BY Finishes DEF Returning
<1>3. UNCHANGED <<Type, Cycle, Owner, PTFreeq, TxId, state, peer>> /\ high' = Tail(high)
      /\ call[t] \in {"put", "get", "multi"}
  BY DEF Returning, table
<1>4. TxId \in Queued /\ RxId \in Queued /\ AllOnce(TxId) /\ AllOnce(RxId)
  BY DEF TypeOK, Queued, PInv, Queues, AllOnce
<1>5. /\ RxId' \in Queued /\ AllOnce(RxId')
      /\ \A r \in PortIndex : \A x : In(RxId'[r], x) <=> In(RxId[r], x) /\ ~(r \in P /\ x \in {t})
  <2> DEFINE R == Unhooked(RxId, P, {t})
  <2>1. /\ R \in Queued /\ AllOnce(R)
        /\ \A r \in PortIndex : \A x : In(R[r], x) <=> In(RxId[r], x) /\ ~(r \in P /\ x \in {t})
    BY <1>4, UnhookQueues
  <2>2. RxId' = R
    BY DEF Returning
  <2> QED
    BY <2>1, <2>2
<1>6. TypeOK'
  BY <1>1, <1>2, <1>3, <1>5 DEF TypeOK, CallTypes, Queued
<1>7. ASSUME NEW x \in Threads \ {t}
      PROVE  Same(x)
  BY <1>1, <1>2, <1>3, <1>5 DEF Same, SameCall, SamePlace, Alone
<1>8. Queues'
  <2>1. Apart'
    BY <1>3, <1>5 DEF PInv, Queues, Apart
  <2> QED
    BY <1>1, <1>3, <1>4, <1>5, <2>1, QueuesSpared DEF PInv
<1>9. peer[t] = None /\ peer'[t] = None /\ ~state'[t]
  BY <1>1, <1>3 DEF PInv, Own, Lengths, OnHigh
<1>10. ~In(high', t) /\ \A p \in PortIndex : ~In(TxId'[p], t) /\ ~In(RxId'[p], t)
  BY <1>1, <1>3, <1>5
<1>11. Own(t)' /\ Linked(t)' /\ (held'[t] = 0 => Holds(t)')
  BY <1>2, <1>9, <1>10, BecomesQuiet
<1>12. PInv'
  BY <1>7, <1>8, <1>9, <1>11, ActorKeeps
<1> QED
  BY <1>6, <1>12

(* Unhooking from no port.                                                 *)
LEMMA UnhookNone ==
  ASSUME TypeOK, NEW S, UNCHANGED RxId
  PROVE  RxId' = Unhooked(RxId, {}, S)
BY DEF TypeOK, Unhooked

(* The return of a PutMsg() keeps the invariant, ...                       *)
LEMMA PutMsgReturnsKeeps ==
  ASSUME TypeOK, PInv, NeverAstray, NEW t \in Threads, PutMsgReturns(t)
  PROVE  TypeOK' /\ PInv'
<1>1. First(t) /\ call[t] = "put" /\ high' = Tail(high) /\ Finish(t) /\ moved' = moved \ {t}
      /\ UNCHANGED <<table, TxId, RxId, state, peer, held, astray>>
  BY DEF PutMsgReturns
<1>2. In(high, t) /\ Own(t) /\ Holds(t)
  BY <1>1, FirstLeaves DEF PInv
<1>3. \A p \in PortIndex : ~In(TxId[p], t) /\ ~In(RxId[p], t)
  BY <1>1, <1>2 DEF Own, OnTx, OnRx
<1>4. held[t] = 0
  BY <1>1, <1>2 DEF Holds
<1>5. ASSUME NEW u \in Threads, peer[u] = t
      PROVE  FALSE
  <2>1. Copier(u) /\ peer[u] # None
    BY <1>5, ThreadAssumption DEF PInv
  <2> QED
    BY <1>1, <1>2, <1>5, <2>1 DEF Copier, Receiver, Transmitter
<1>6. /\ held' \in [Threads -> Nat] /\ moved' \subseteq Threads /\ t \notin moved'
      /\ astray' \in {"no", "queue", "message"}
      /\ \A x \in Threads \ {t} : held'[x] = held[x] /\ (x \in moved' <=> x \in moved)
  BY <1>1 DEF TypeOK
<1>7. RxId' = Unhooked(RxId, {}, {t})
  BY <1>1, UnhookNone
<1>8. held'[t] = 0 /\ Returning(t, {})
  BY <1>1, <1>4, <1>7 DEF Returning
<1> QED
  BY <1>3, <1>5, <1>6, <1>8, ReturningKeeps

(* ... of a GetMsg(), ...                                                  *)
LEMMA GetMsgReturnsKeeps ==
  ASSUME TypeOK, PInv, NeverAstray, NEW t \in Threads, GetMsgReturns(t)
  PROVE  TypeOK' /\ PInv'
<1> DEFINE given == rc[t][want[t][1].ix] = "null"
<1>1. First(t) /\ call[t] = "get" /\ high' = Tail(high) /\ Finish(t)
      /\ held' = (IF given THEN [held EXCEPT ![t] = @ - 1] ELSE held)
      /\ UNCHANGED <<table, TxId, RxId, state, peer, moved, astray>>
  BY DEF GetMsgReturns
<1>2. In(high, t) /\ Own(t) /\ Holds(t)
  BY <1>1, FirstLeaves DEF PInv
<1>3. \A p \in PortIndex : ~In(TxId[p], t) /\ ~In(RxId[p], t)
  BY <1>1, <1>2 DEF Own, OnTx, OnRx
<1>4. held[t] = (IF given THEN 1 ELSE 0) /\ t \notin moved
  BY <1>1, <1>2 DEF Holds, Own, OnHigh
<1>5. ASSUME NEW u \in Threads, peer[u] = t
      PROVE  FALSE
  <2>1. Copier(u) /\ peer[u] # None
    BY <1>5, ThreadAssumption DEF PInv
  <2> QED
    BY <1>1, <1>2, <1>5, <2>1 DEF Copier, Receiver, Transmitter
<1> HIDE DEF given
<1>6. /\ held' \in [Threads -> Nat] /\ held'[t] = 0
      /\ \A x \in Threads \ {t} : held'[x] = held[x]
  BY <1>1, <1>4 DEF TypeOK
<1>7. RxId' = Unhooked(RxId, {}, {t})
  BY <1>1, UnhookNone
<1>8. moved' = moved /\ moved' \subseteq Threads /\ t \notin moved' /\ astray' \in {"no", "queue", "message"}
  BY <1>1, <1>4 DEF TypeOK
<1>9. Returning(t, {})
  BY <1>1, <1>7 DEF Returning
<1> QED
  BY <1>3, <1>5, <1>6, <1>8, <1>9, ReturningKeeps

(* MultiWait() comes back: it must find every Id that it looks for.        *)
LEMMA NoCopier ==
  ASSUME TypeOK, PInv, NeverAstray, NEW t \in Threads, call[t] \in {"multi", "multicopy"},
         \A p \in PortIndex : p \in Hooks(t) /\ rc[t][p] = "waiting" => In(RxId[p], t)
  PROVE  ~Crossed(t) /\ \A u \in Threads : peer[u] # t
<1>1. Own(t) /\ Linked(t)
  BY DEF PInv
<1>2. \A p \in PortIndex : rc[t][p] = "waiting" => In(RxId[p], t)
  BY <1>1 DEF Own, Multi
<1>3. ~Crossed(t)
  BY <1>2 DEF Crossed
<1>4. ASSUME NEW u \in Threads, peer[u] = t
      PROVE  FALSE
  <2>1. Copier(u) /\ peer[u] # None /\ Lengths(u)
    BY <1>4, ThreadAssumption DEF PInv, Own
  <2>2. Aim(u).ix \in PortIndex
    BY <2>1, AimSlot
  <2> QED
    BY <1>2, <1>4, <2>1, <2>2 DEF Copier, Receiver, Transmitter
<1> QED
  BY <1>3, <1>4

(* ... and of a MultiWait(), whose cleanup finds all its Ids unless it is  *)
(* crossed.                                                                *)
LEMMA MultiWaitReturnsKeeps ==
  ASSUME TypeOK, PInv, NeverAstray, NEW t \in Threads, MultiWaitReturns(t)
  PROVE  TypeOK' /\ PInv'
<1> DEFINE P == Slots(want[t])
           got == \E p \in P : rc[t][p] = "null"
           hooked == {p \in P : rc[t][p] = "waiting"}
<1>1. /\ First(t) /\ call[t] = "multi" /\ high' = Tail(high) /\ Finish(t)
      /\ held' = (IF got THEN [held EXCEPT ![t] = @ - 1] ELSE held)
      /\ RxId' = Unhooked(RxId, hooked, {t})
      /\ UNCHANGED <<table, TxId, state, peer, moved>>
  BY DEF MultiWaitReturns, CleanUp, Unhooked
<1>2. /\ astray' \in {"no", "queue", "message"}
      /\ NeverAstray' => \A p \in hooked : In(RxId[p], t)
  BY DEF MultiWaitReturns, CleanUp, NeverAstray, TypeOK
<1>3. Own(t) /\ Holds(t) /\ Hooks(t) = P
  BY <1>1 DEF PInv, Hooks
<1>4. held[t] = (IF got THEN 1 ELSE 0) /\ t \notin moved
  BY <1>1, <1>3 DEF Holds, Got, Own, OnHigh
<1>5. \A p \in PortIndex : rc[t][p] = "waiting" => p \in hooked
  BY <1>1, <1>3 DEF Own, Multi
<1>6. \A p \in PortIndex : ~In(TxId[p], t) /\ (In(RxId[p], t) => p \in hooked)
  BY <1>1, <1>3, <1>5 DEF Own, OnTx, OnRx
<1>7. \A p \in PortIndex : p \in Hooks(t) /\ rc[t][p] = "waiting" => p \in hooked
  BY <1>5
<1> HIDE DEF P, got, hooked
<1>8. NeverAstray' => \A u \in Threads : peer[u] # t
  BY <1>1, <1>2, <1>7, NoCopier
<1>9. /\ held' \in [Threads -> Nat] /\ held'[t] = 0
      /\ \A x \in Threads \ {t} : held'[x] = held[x]
  BY <1>1, <1>4 DEF TypeOK
<1>10. moved' = moved /\ moved' \subseteq Threads /\ t \notin moved'
  BY <1>1, <1>4 DEF TypeOK
<1>11. Returning(t, hooked)
  BY <1>1 DEF Returning
<1> QED
  BY <1>2, <1>6, <1>8, <1>9, <1>10, <1>11, ReturningKeeps

----------------------------------------------------------------------------
(* Threads are made to leave the queues of the slots P[x] with the result  *)
(* v: AbortPort(), FreePort() and TimeoutHandler().                        *)
Ejecting(P, v) ==
  /\ \A x \in Threads : \A p \in P[x] : p \in PortIndex /\ On(x, p)
  /\ \A x \in Threads, p \in PortIndex :
       /\ In(TxId'[p], x) <=> In(TxId[p], x) /\ p \notin P[x]
       /\ In(RxId'[p], x) <=> In(RxId[p], x) /\ p \notin P[x]
       /\ rc'[x][p] = IF p \in P[x] THEN v ELSE rc[x][p]
       /\ In(TxId'[p], x) \/ In(RxId'[p], x) => Type'[p] = Type[p] /\ Cycle'[p] = Cycle[p]
  /\ \A x \in Threads :
       /\ ~AtHead(x)
       /\ state'[x] = (state[x] /\ P[x] = {})
       /\ In(high', x) <=> In(high, x) \/ (P[x] # {} /\ (call[x] \in {"put", "get"} \/ state[x]))
       /\ call'[x] = call[x] /\ want'[x] = want[x] /\ peer'[x] = peer[x] /\ held'[x] = held[x]
       /\ x \in moved' <=> x \in moved

(* One that is not on them.                                                *)
LEMMA NotEjected ==
  ASSUME TypeOK, PInv, NeverAstray, NEW P, NEW v, Ejecting(P, v), rc' \in [Threads -> [PortIndex -> Results]],
         NEW x \in Threads, P[x] = {}
  PROVE  Own(x)' /\ Linked(x)' /\ Holds(x)' /\ \A u \in Threads : peer[u] = x => Copier(u)'
<1>1. Less(x)
  <2>1. rc'[x] = rc[x]
    <3>1. rc'[x] \in [PortIndex -> Results] /\ rc[x] \in [PortIndex -> Results]
      BY DEF TypeOK
    <3>2. \A p \in PortIndex : rc'[x][p] = rc[x][p]
      BY DEF Ejecting
    <3> QED
      BY <3>1, <3>2
  <2>2. /\ \A p \in PortIndex : (In(TxId'[p], x) <=> In(TxId[p], x)) /\ (In(RxId'[p], x) <=> In(RxId[p], x))
        /\ \A p \in PortIndex : On(x, p) => Type'[p] = Type[p] /\ Cycle'[p] = Cycle[p]
    BY DEF Ejecting, On
  <2>3. SameCall(x)
    BY <2>1 DEF Ejecting, SameCall, TypeOK
  <2> QED
    BY <2>2, <2>3 DEF Less, Ejecting
<1>2. Same(x)
  BY <1>1 DEF Same, SamePlace, Less, Ejecting
<1>3. Own(x) /\ Linked(x) /\ Holds(x)
  BY DEF PInv
<1>4. \A u \in Threads : Kept(u) /\ Lengths(u) /\ Copier(u)
  BY DEF Ejecting, Kept, PInv, Own
<1> QED
  BY <1>1, <1>2, <1>3, <1>4, OwnSpared, LinkedSpared, HoldsSpared, CopierSpared

(* One that waits in PutMsg() or GetMsg() is on no other slot.             *)
LEMMA CallerEjected ==
  ASSUME TypeOK, PInv, NeverAstray, NEW P, NEW v, v # "null", Ejecting(P, v),
         NEW x \in Threads, P[x] # {}, call[x] \in {"put", "get"}
  PROVE  Own(x)' /\ Linked(x)' /\ Holds(x)' /\ \A u \in Threads : peer[u] # x
<1> DEFINE p == want[x][1].ix
<1>1. Own(x) /\ Holds(x) /\ peer[x] = None /\ ~state[x] /\ Len(want[x]) = 1
  BY DEF PInv, Own, Lengths, Multi, TypeOK
<1>2. \A q \in PortIndex : On(x, q) => q = p
  <2>1. \A q \in PortIndex : On(x, q) => Here(x, q)
    BY <1>1 DEF Own, OnTx, OnRx, On
  <2> QED
    <3>1. \A d : Wants(x, d) <=> d = want[x][1]
      BY <1>1, Only
    <3>2. ASSUME NEW q \in PortIndex, On(x, q)
          PROVE  q = p
      <4>1. [ix |-> q, cy |-> Cycle[q]] = want[x][1]
        BY <2>1, <3>1, <3>2 DEF Here
      <4>2. [ix |-> q, cy |-> Cycle[q]].ix = q
        OBVIOUS
      <4> QED
        BY <4>1, <4>2
    <3> QED
      BY <3>2
<1>3. p \in PortIndex /\ P[x] = {p} /\ On(x, p)
  BY <1>2 DEF Ejecting
<1>4. ~In(high, x) /\ x \notin moved
  BY <1>1, <1>3 DEF Own, OnTx, OnRx, OnHigh, On
<1>5. /\ \A q \in PortIndex : ~In(TxId'[q], x) /\ ~In(RxId'[q], x)
      /\ In(high', x) /\ x \notin moved' /\ ~state'[x] /\ rc'[x][p] = v
      /\ call'[x] = call[x] /\ want'[x] = want[x] /\ peer'[x] = peer[x] /\ held'[x] = held[x]
  <2>1. \A q \in PortIndex : ~In(TxId'[q], x) /\ ~In(RxId'[q], x)
    BY <1>2, <1>3 DEF Ejecting, On
  <2>2. P[x] # {} /\ rc'[x][p] = v
    BY <1>3 DEF Ejecting
  <2>3. In(high', x) /\ x \notin moved' /\ ~state'[x]
    BY <1>4, <2>2 DEF Ejecting
  <2>4. call'[x] = call[x] /\ want'[x] = want[x] /\ peer'[x] = peer[x] /\ held'[x] = held[x]
    BY DEF Ejecting
  <2> QED
    BY <2>1, <2>2, <2>3, <2>4
<1>6. rc'[x][want'[x][1].ix] # "null"
  BY <1>5
<1> HIDE DEF p
<1>7. held[x] = 0
  BY <1>4 DEF PInv, Holds
<1>8. OnTx(x)' /\ OnRx(x)'
  BY <1>5 DEF OnTx, OnRx
<1>9. OnHigh(x)'
  BY <1>5, <1>6 DEF OnHigh
<1>10. Multi(x)' /\ Lengths(x)'
  <2>1. call'[x] \in {"put", "get"} /\ ~state'[x] /\ peer'[x] = None /\ Len(want'[x]) = 1
    BY <1>1, <1>5
  <2>2. Multi(x)'
    BY <2>1 DEF Multi
  <2> QED
    BY <2>1, <2>2 DEF Lengths
<1>11. Linked(x)'
  BY <1>5 DEF Linked
<1>12. Holds(x)'
  BY <1>5, <1>6, <1>7 DEF Holds
<1>13. ASSUME NEW u \in Threads, peer[u] = x
       PROVE  FALSE
  <2>1. Copier(u) /\ peer[u] # None
    BY <1>13, ThreadAssumption DEF PInv
  <2>2. \/ call[x] = "get" /\ \A q \in PortIndex : ~In(RxId[q], x)
        \/ call[x] = "put" /\ \A q \in PortIndex : ~In(TxId[q], x)
    BY <1>13, <2>1 DEF Copier, Receiver, Transmitter
  <2> QED
    BY <1>1, <1>3, <2>2 DEF Own, OnTx, OnRx, On
<1> QED
  BY <1>8, <1>9, <1>10, <1>11, <1>12, <1>13 DEF Own

(* One in MultiWait() may stay on others.                                  *)
LEMMA MultiEjected ==
  ASSUME TypeOK, PInv, NeverAstray, NEW P, NEW v, v \notin {"null", "waiting"}, Ejecting(P, v),
         NEW x \in Threads, P[x] # {}, call[x] \notin {"put", "get"}
  PROVE  Own(x)' /\ Linked(x)' /\ Holds(x)' /\ \A u \in Threads : peer[u] = x => Copier(u)'
<1>1. Own(x) /\ Linked(x) /\ Holds(x)
  BY DEF PInv
<1>2. /\ call[x] \in {"multi", "multicopy"}
      /\ \A p \in PortIndex : ~In(TxId[p], x)
      /\ \A p \in P[x] : p \in PortIndex /\ In(RxId[p], x) /\ rc[x][p] = "waiting"
  BY <1>1 DEF Own, OnTx, OnRx, Ejecting, On
<1>3. /\ call'[x] = call[x] /\ want'[x] = want[x] /\ peer'[x] = peer[x] /\ held'[x] = held[x]
      /\ ~state'[x] /\ (In(high', x) <=> In(high, x) \/ state[x]) /\ ~AtHead(x)
      /\ x \in moved' <=> x \in moved
  BY <1>2 DEF Ejecting
<1>4. /\ \A p \in PortIndex : rc'[x][p] = "waiting" => rc[x][p] = "waiting" /\ p \notin P[x]
      /\ \A p \in PortIndex : p \notin P[x] => rc'[x][p] = rc[x][p]
      /\ \A p \in PortIndex : rc'[x][p] = "null" <=> rc[x][p] = "null"
  BY <1>2 DEF Ejecting
<1>5. /\ \A p \in PortIndex : ~In(TxId'[p], x)
      /\ \A p \in PortIndex : In(RxId'[p], x) <=> In(RxId[p], x) /\ p \notin P[x]
      /\ \A p \in PortIndex : In(RxId'[p], x) => Type'[p] = Type[p] /\ Cycle'[p] = Cycle[p]
  BY <1>2 DEF Ejecting
<1>6. Hooks(x)' = Hooks(x) /\ Hooks(x) \subseteq PortIndex
  <2>1. want[x] \in Seq(Descriptors) /\ Len(want[x]) \in Nat
    BY LenProperties DEF TypeOK
  <2>2. Slots(want[x]) \subseteq PortIndex
    BY <2>1, SlotsOf
  <2>3. SubSeq(want[x], 1, Len(want[x]) - 1) \in Seq(Descriptors)
    BY <2>1, FirstSlots
  <2>4. Slots(SubSeq(want[x], 1, Len(want[x]) - 1)) \subseteq PortIndex
    BY <2>3, SlotsOf
  <2> QED
    BY <1>3, <2>2, <2>4, HooksSpared DEF Hooks
<1>7. OnTx(x)' /\ OnHigh(x)'
  BY <1>1, <1>2, <1>3, <1>5 DEF Own, OnTx, OnHigh, Multi
<1>8. OnRx(x)'
  BY <1>1, <1>2, <1>3, <1>4, <1>5 DEF Own, OnRx, Here, Wants
<1>9. Got(x)' <=> Got(x)
  BY <1>4, <1>6 DEF Got
<1>10. Multi(x)' /\ ~(call[x] = "multi" /\ Got(x))
  BY <1>1, <1>2, <1>3, <1>4, <1>6, <1>9 DEF Own, Multi
<1>11. Lengths(x)'
  BY <1>1, <1>3 DEF Own, Lengths
<1>12. Linked(x)'
  <2>1. \A p : SentTo(x, p) => SentTo(x, p)'
    BY DEF SentTo, Sent, Aim, Ejecting
  <2> QED
    BY <1>1, <1>2, <1>3, <1>4, <1>5, <2>1 DEF Linked
<1>13. Crossed(x) => Crossed(x)'
  BY <1>2, <1>3, <1>4, <1>5 DEF Crossed
<1>14. Holds(x)'
  BY <1>1, <1>2, <1>3, <1>9, <1>13 DEF Holds
<1>15. ASSUME NEW u \in Threads, peer[u] = x
       PROVE  Copier(u)'
  <2>1. Copier(u) /\ peer[u] # None /\ Lengths(u)
    BY <1>15, ThreadAssumption DEF PInv, Own
  <2>2. Aim(u).ix \in PortIndex
    BY <2>1, AimSlot
  <2>3. peer'[u] = x /\ call'[u] = call[u] /\ Aim(u)' = Aim(u)
    BY <1>15 DEF Ejecting, Aim
  <2>4. call[u] = "putcopy" /\ Wants(x, Aim(u)) /\ Receiver(x, Aim(u).ix)
    BY <1>2, <1>15, <2>1 DEF Copier, Transmitter
  <2>5. Receiver(x, Aim(u).ix)'
    BY <1>2, <1>3, <1>4, <1>5, <2>2, <2>3, <2>4 DEF Receiver
  <2>6. Wants(x, Aim(u))'
    BY <1>3, <2>3, <2>4 DEF Wants
  <2> QED
    BY <2>3, <2>4, <2>5, <2>6 DEF Copier
<1> QED
  BY <1>7, <1>8, <1>10, <1>11, <1>12, <1>14, <1>15, <1>1 DEF Own

(* An abort, the end of a port or a time-out pass, which take waiters off  *)
(* their queues and tell them so, keep the invariant.                      *)
LEMMA EjectingKeeps ==
  ASSUME TypeOK, PInv, NeverAstray, NEW P, NEW v, v \in {"abort", "timeout"}, Ejecting(P, v),
         rc' \in [Threads -> [PortIndex -> Results]], Queues'
  PROVE  PInv'
<1>1. ASSUME NEW x \in Threads
      PROVE  Own(x)' /\ Linked(x)' /\ Holds(x)' /\ \A u \in Threads : peer[u] = x => Copier(u)'
  <2>1. v # "null" /\ v \notin {"null", "waiting"}
    OBVIOUS
  <2>2. CASE P[x] = {}
    BY <2>2, NotEjected
  <2>3. CASE P[x] # {} /\ call[x] \in {"put", "get"}
    <3>1. Own(x)' /\ Linked(x)' /\ Holds(x)' /\ \A u \in Threads : peer[u] # x
      BY <2>1, <2>3, CallerEjected
    <3> QED
      BY <3>1
  <2>4. CASE P[x] # {} /\ call[x] \notin {"put", "get"}
    BY <2>1, <2>4, MultiEjected
  <2> QED
    BY <2>2, <2>3, <2>4
<1>2. \A u \in Threads : peer'[u] = peer[u] /\ Aim(u)' = Aim(u)
  BY DEF Ejecting, Aim
<1>3. \A u \in Threads : Copier(u)'
  <2>1. ASSUME NEW u \in Threads
        PROVE  Copier(u)'
    <3>1. CASE peer[u] = None
      BY <1>2, <3>1 DEF Copier
    <3>2. CASE peer[u] # None
      <4>1. peer[u] \in Threads
        BY <3>2 DEF TypeOK
      <4> QED
        BY <1>1, <4>1
    <3> QED
      BY <3>1, <3>2
  <2> QED
    BY <2>1
<1>4. Sole'
  <2>1. Sole
    BY DEF PInv
  <2> QED
    BY <1>2, <2>1 DEF Sole
<1> QED
  BY <1>1, <1>3, <1>4 DEF PInv

(* The threads that _AbortPort() resumes.                                  *)
AbortedOn(p) == [x \in Threads |-> IF On(x, p) THEN {p} ELSE {}]

(* Whom an abort of port p resumes: a MultiWait() only once.               *)
LEMMA ResumableList ==
  ASSUME TypeOK, PInv, NEW p \in PortIndex
  PROVE  /\ Resumable(p) \in Seq(Threads \cup {Clock}) /\ Once(Resumable(p))
         /\ \A x \in Threads : In(Resumable(p), x) <=> On(x, p) /\ (call[x] \in {"put", "get"} \/ state[x])
<1> DEFINE S == {t \in Threads : call[t] # "get" /\ ~state[t]}
           D == Drop(RxId[p], S)
<1>1. /\ TxId[p] \in Seq(Threads) /\ Once(TxId[p]) /\ RxId[p] \in Seq(Threads) /\ Once(RxId[p])
      /\ \A x, y \in Threads : ~(In(TxId[p], x) /\ In(RxId[p], y))
  BY DEF TypeOK, PInv, Queues, Apart
<1>2. /\ D \in Seq(Threads) /\ Once(D)
      /\ \A x : In(D, x) <=> In(RxId[p], x) /\ x \notin S
  BY <1>1, DropList
<1>3. \A x \in Threads : /\ In(TxId[p], x) => call[x] = "put"
                         /\ In(RxId[p], x) => call[x] \in {"get", "multi", "multicopy"}
  BY DEF PInv, Own, OnTx, OnRx
<1>4. \A x \in Threads : In(TxId[p], x) \/ In(D, x)
                           <=> On(x, p) /\ (call[x] \in {"put", "get"} \/ state[x])
  BY <1>2, <1>3 DEF On
<1>5. Resumable(p) = TxId[p] \o D
  BY DEF Resumable
<1> HIDE DEF D, S
<1>6. \A x : ~(In(TxId[p], x) /\ In(D, x))
  <2>1. ASSUME NEW x, In(TxId[p], x), In(D, x)
        PROVE  FALSE
    <3>1. x \in Threads
      BY <1>1, <2>1, ElementOfSeq, LenProperties DEF In
    <3> QED
      BY <1>1, <1>2, <2>1, <3>1
  <2> QED
    BY <2>1
<1>7. /\ TxId[p] \o D \in Seq(Threads) /\ Once(TxId[p] \o D)
      /\ \A x : In(TxId[p] \o D, x) <=> In(TxId[p], x) \/ In(D, x)
  BY <1>1, <1>2, <1>6, ConcatList
<1> QED
  BY <1>4, <1>5, <1>7, LargerList

(* AbortPort() and FreePort() both do this.                                *)
Aborting(p) ==
  /\ high = <<>> /\ Abort(p) /\ ClearQueues(p)
  /\ \A r \in PortIndex \ {p} : Type'[r] = Type[r] /\ Cycle'[r] = Cycle[r]
  /\ UNCHANGED <<call, want, endtime, peer, held, moved, astray>>

(* An abort takes off all who wait at the port.                            *)
LEMMA AbortingEjects ==
  ASSUME TypeOK, PInv, NeverAstray, NEW p \in PortIndex, Aborting(p)
  PROVE  /\ Ejecting(AbortedOn(p), "abort")
         /\ high' \in Seq(Threads \cup {Clock}) /\ Once(high')
         /\ TxId' \in Queued /\ AllOnce(TxId') /\ RxId' \in Queued /\ AllOnce(RxId')
         /\ rc' \in [Threads -> [PortIndex -> Results]] /\ state' \in [Threads -> BOOLEAN]
         /\ Apart'
<1> DEFINE P == AbortedOn(p)
<1>1. /\ high' = high \o Resumable(p)
      /\ state' = [t \in Threads |-> state[t] /\ ~In(RxId[p], t)]
      /\ rc' = [t \in Threads |-> IF In(TxId[p] \o RxId[p], t)
                                    THEN [rc[t] EXCEPT ![p] = "abort"] ELSE rc[t]]
  BY DEF Aborting, Abort
<1>2. TxId \in Queued /\ RxId \in Queued /\ AllOnce(TxId) /\ AllOnce(RxId)
  BY DEF TypeOK, Queued, PInv, Queues, AllOnce
<1>3. /\ TxId' \in Queued /\ AllOnce(TxId')
      /\ \A r \in PortIndex : \A x : In(TxId'[r], x) <=> In(TxId[r], x) /\ r # p
  <2>1. TxId' = Emptied(TxId, p)
    BY DEF Aborting, ClearQueues, Emptied
  <2> QED
    BY <1>2, <2>1, EmptyQueue
<1>4. /\ RxId' \in Queued /\ AllOnce(RxId')
      /\ \A r \in PortIndex : \A x : In(RxId'[r], x) <=> In(RxId[r], x) /\ r # p
  <2>1. RxId' = Emptied(RxId, p)
    BY DEF Aborting, ClearQueues, Emptied
  <2> QED
    BY <1>2, <2>1, EmptyQueue
<1>5. /\ high' \in Seq(Threads \cup {Clock}) /\ Once(high')
      /\ \A x \in Threads : In(high', x) <=> On(x, p) /\ (call[x] \in {"put", "get"} \/ state[x])
  <2>1. high' = Resumable(p)
    <3>1. Resumable(p) \in Seq(Threads \cup {Clock})
      BY ResumableList
    <3> QED
      BY <1>1, <3>1, EmptyConcat DEF Aborting
  <2> QED
    BY <2>1, ResumableList
<1>6. \A x \in Threads : In(TxId[p] \o RxId[p], x) <=> On(x, p)
  <2>1. TxId[p] \in Seq(Threads) /\ RxId[p] \in Seq(Threads)
    BY DEF TypeOK
  <2> QED
    BY <2>1, ConcatList DEF On
<1>7. rc' = [t \in Threads |-> IF On(t, p) THEN [rc[t] EXCEPT ![p] = "abort"] ELSE rc[t]]
  BY <1>1, <1>6
<1>8. /\ rc' \in [Threads -> [PortIndex -> Results]]
      /\ \A x \in Threads, r \in PortIndex :
           rc'[x][r] = IF r = p /\ On(x, p) THEN "abort" ELSE rc[x][r]
  BY <1>7 DEF TypeOK, Results
<1>9. \A x \in Threads : P[x] = IF On(x, p) THEN {p} ELSE {}
  BY DEF AbortedOn
<1>10. \A x \in Threads, r \in PortIndex : r \in P[x] <=> r = p /\ On(x, p)
  BY <1>9
<1>11. \A x \in Threads : P[x] = {} <=> ~On(x, p)
  BY <1>9
<1>12. state' \in [Threads -> BOOLEAN] /\ \A x \in Threads : state'[x] = (state[x] /\ ~On(x, p))
  <2>1. \A x \in Threads : In(TxId[p], x) => ~state[x]
    BY DEF PInv, Own, OnTx, Multi
  <2>2. \A x \in Threads : state'[x] = (state[x] /\ ~In(RxId[p], x))
    BY <1>1
  <2> QED
    BY <1>1, <2>1, <2>2 DEF On, TypeOK
<1> HIDE DEF P
<1>13. \A x \in Threads : ~AtHead(x) /\ ~In(high, x)
  BY NoneOnHigh DEF Aborting
<1>14. \A x \in Threads : \A r \in P[x] : r \in PortIndex /\ On(x, r)
  <2> USE DEF P
  <2> QED
    BY <1>9
<1>15. \A x \in Threads, r \in PortIndex :
         /\ In(TxId'[r], x) <=> In(TxId[r], x) /\ r \notin P[x]
         /\ In(RxId'[r], x) <=> In(RxId[r], x) /\ r \notin P[x]
         /\ rc'[x][r] = IF r \in P[x] THEN "abort" ELSE rc[x][r]
         /\ In(TxId'[r], x) \/ In(RxId'[r], x) => Type'[r] = Type[r] /\ Cycle'[r] = Cycle[r]
  BY <1>3, <1>4, <1>8, <1>10 DEF On, Aborting
<1>16. \A x \in Threads :
         /\ state'[x] = (state[x] /\ P[x] = {})
         /\ In(high', x) <=> In(high, x) \/ (P[x] # {} /\ (call[x] \in {"put", "get"} \/ state[x]))
  BY <1>5, <1>11, <1>12, <1>13
<1>17. \A x \in Threads :
         /\ call'[x] = call[x] /\ want'[x] = want[x] /\ peer'[x] = peer[x] /\ held'[x] = held[x]
         /\ x \in moved' <=> x \in moved
  BY DEF Aborting
<1>18. Ejecting(P, "abort")
  BY <1>13, <1>14, <1>15, <1>16, <1>17 DEF Ejecting
<1>19. Apart'
  BY <1>3, <1>4 DEF Apart, PInv, Queues
<1> QED
  BY <1>3, <1>4, <1>5, <1>8, <1>12, <1>18, <1>19 DEF P

(* AbortPort() keeps the invariant, ...                                    *)
LEMMA AbortPortKeeps ==
  ASSUME TypeOK, PInv, NeverAstray, NEW t \in Threads, NEW d \in Descriptors, AbortPort(t, d)
  PROVE  TypeOK' /\ PInv'
<1> DEFINE p == d.ix
<1>1. p \in PortIndex
  BY DEF Descriptors
<1>2. UNCHANGED <<Type, Cycle, Owner, PTFreeq, call, want, endtime, peer, held, moved, astray>>
  BY DEF AbortPort, table, history
<1>3. Aborting(p)
  BY <1>2 DEF AbortPort, Runs, Aborting
<1> HIDE DEF p
<1>4. /\ Ejecting(AbortedOn(p), "abort")
      /\ high' \in Seq(Threads \cup {Clock}) /\ Once(high')
      /\ TxId' \in Queued /\ AllOnce(TxId') /\ RxId' \in Queued /\ AllOnce(RxId')
      /\ rc' \in [Threads -> [PortIndex -> Results]] /\ state' \in [Threads -> BOOLEAN]
      /\ Apart'
  BY <1>1, <1>3, AbortingEjects
<1>5. Queues'
  BY <1>2, <1>4, QueuesSpared DEF PInv
<1>6. PInv'
  BY <1>4, <1>5, EjectingKeeps
<1>7. TypeOK'
  BY <1>2, <1>4 DEF TypeOK, Queued
<1> QED
  BY <1>6, <1>7

(* ... and so does FreePort(), which also frees the slot, if it was not    *)
(* free, ...                                                               *)
LEMMA FreePortKeeps ==
  ASSUME TypeOK, PInv, NeverAstray, NEW t \in Threads, NEW d \in Descriptors, FreePort(t, d)
  PROVE  TypeOK' /\ PInv'
<1> DEFINE p == d.ix
<1>1. p \in PortIndex /\ Type[p] = "local" /\ Cycle[p] \in 1 .. LastCycle
  BY DEF Descriptors, FreePort, MayFree, Valid
<1>2. /\ Type' = [Type EXCEPT ![p] = "free"] /\ Cycle' = [Cycle EXCEPT ![p] = @ + 1]
      /\ Owner' = [Owner EXCEPT ![p] = None] /\ PTFreeq' = <<p>> \o PTFreeq
      /\ UNCHANGED <<call, want, endtime, peer, held, moved, astray>>
  BY DEF FreePort, history
<1>3. \A r \in PortIndex \ {p} : Type'[r] = Type[r] /\ Cycle'[r] = Cycle[r]
  BY <1>2 DEF TypeOK
<1>4. Aborting(p)
  BY <1>2, <1>3 DEF FreePort, Runs, Aborting
<1> HIDE DEF p
<1>5. /\ Ejecting(AbortedOn(p), "abort")
      /\ high' \in Seq(Threads \cup {Clock}) /\ Once(high')
      /\ TxId' \in Queued /\ AllOnce(TxId') /\ RxId' \in Queued /\ AllOnce(RxId')
      /\ rc' \in [Threads -> [PortIndex -> Results]] /\ state' \in [Threads -> BOOLEAN]
      /\ Apart'
  BY <1>1, <1>4, AbortingEjects
<1>6. PTFreeq' \in Seq(PortIndex) /\ FreeList'
  <2>1. FreeList /\ ~In(PTFreeq, p) /\ PTFreeq \in Seq(PortIndex)
    BY <1>1 DEF PInv, Queues, FreeList, TypeOK
  <2>2. /\ PTFreeq' \in Seq(PortIndex) /\ Once(PTFreeq')
        /\ \A y : In(PTFreeq', y) <=> In(PTFreeq, y) \/ y = p
    <3> DEFINE r == <<p>> \o PTFreeq
    <3>1. /\ r \in Seq(PortIndex) /\ Once(r) /\ \A y : In(r, y) <=> In(PTFreeq, y) \/ y = p
      BY <1>1, <2>1, PushFirst DEF FreeList
    <3>2. PTFreeq' = r
      BY <1>2
    <3> QED
      BY <3>1, <3>2
  <2>3. \A q \in PortIndex : Type'[q] = IF q = p THEN "free" ELSE Type[q]
    BY <1>2 DEF TypeOK
  <2> QED
    BY <2>1, <2>2, <2>3 DEF FreeList
<1>7. Queues'
  BY <1>5, <1>6 DEF Queues, AllOnce
<1>8. PInv'
  BY <1>5, <1>7, EjectingKeeps
<1>9. Type' \in [PortIndex -> {"free", "local"}] /\ Cycle' \in [PortIndex -> 1 .. LastCycle + 1]
      /\ Owner' \in [PortIndex -> Threads \cup {None}]
  <2>1. Cycle[p] + 1 \in 1 .. LastCycle + 1
    BY <1>1, CycleAssumption
  <2> QED
    BY <1>2, <2>1 DEF TypeOK
<1>10. TypeOK'
  BY <1>2, <1>5, <1>6, <1>9 DEF TypeOK, Queued
<1> QED
  BY <1>8, <1>10

(* The threads that TimeoutHandler() resumes.                              *)
LateOn == [x \in Threads |-> {p \in PortIndex : LateTx(x, p) \/ LateRx(x, p)}]

(* On which ports a thread's time is out.                                  *)
LEMMA LateProperties ==
  ASSUME TypeOK, PInv
  PROVE  /\ \A x \in Threads, p \in PortIndex : p \in LateOn[x] <=> x \in Expired /\ On(x, p)
         /\ \A x \in Threads : LateOn[x] = {} <=> x \notin Expired
         /\ \A x \in Threads : LateOn[x] \subseteq PortIndex
<1>1. \A x \in Threads : LateOn[x] = {p \in PortIndex : LateTx(x, p) \/ LateRx(x, p)}
  BY DEF LateOn
<1>2. \A x \in Threads, p \in PortIndex : p \in LateOn[x] <=> x \in Late /\ On(x, p)
  BY <1>1 DEF LateTx, LateRx, On
<1>3. \A x \in Threads : x \in Expired <=> x \in Late /\ \E p \in PortIndex : On(x, p)
  BY DEF Expired, LateTx, LateRx, On
<1> HIDE DEF LateOn
<1>4. \A x \in Threads : LateOn[x] = {} <=> x \notin Expired
  BY <1>1, <1>2, <1>3
<1> QED
  BY <1>1, <1>2, <1>3, <1>4

(* ... and the time-out pass over all the ports.                           *)
LEMMA TimeoutHandlerKeeps ==
  ASSUME TypeOK, PInv, NeverAstray, TimeoutHandler
  PROVE  TypeOK' /\ PInv'
<1> DEFINE R == {t \in Expired : call[t] \in {"put", "get"} \/ state[t]}
           P == LateOn
<1>1. PICK s \in Orders(R) : high' = Tail(high) \o s
  BY DEF TimeoutHandler
<1>2. /\ First(Clock)
      /\ state' = [t \in Threads |-> state[t] /\ t \notin Expired]
      /\ rc' = [t \in Threads |-> [p \in PortIndex |->
              IF t \in Expired /\ (LateTx(t, p) \/ LateRx(t, p)) THEN "timeout" ELSE rc[t][p]]]
      /\ TxId' = Unhooked(TxId, PortIndex, Expired) /\ RxId' = Unhooked(RxId, PortIndex, Expired)
      /\ UNCHANGED <<Type, Cycle, Owner, PTFreeq, call, want, endtime, peer, held, moved, astray>>
  BY DEF TimeoutHandler, DequeueExpired, table, history, Unhooked
<1>3. /\ Tail(high) \in Seq(Threads \cup {Clock}) /\ Once(Tail(high))
      /\ \A x : In(Tail(high), x) <=> In(high, x) /\ x # Clock
      /\ \A x \in Threads : ~AtHead(x)
  <2>1. high \in Seq(Threads \cup {Clock}) /\ Once(high) /\ high # <<>> /\ Head(high) = Clock
    BY <1>2 DEF TypeOK, PInv, Queues, First
  <2>2. \A x \in Threads : ~AtHead(x)
    BY <2>1, ThreadAssumption DEF AtHead
  <2> QED
    BY <2>1, <2>2, TailList
<1>4. R \subseteq Threads /\ IsFiniteSet(R) /\ Expired \subseteq Threads
  <2>1. R \subseteq Threads /\ Expired \subseteq Threads
    BY DEF Expired
  <2> QED
    BY <2>1, FiniteAssumption, FS_Subset
<1>5. /\ \A x \in Threads : \A p \in PortIndex : p \in P[x] <=> x \in Expired /\ On(x, p)
      /\ \A x \in Threads : P[x] = {} <=> x \notin Expired
      /\ \A x \in Threads : P[x] \subseteq PortIndex
  BY LateProperties
<1>6. \A x \in R : ~In(high, x) /\ x # Clock
  <2>1. ASSUME NEW x \in R
        PROVE  ~In(high, x) /\ x # Clock
    <3>1. x \in Threads /\ Own(x) /\ x # Clock /\ (call[x] \in {"put", "get"} \/ state[x])
      BY <1>4, ThreadAssumption DEF PInv
    <3>2. PICK p \in PortIndex : On(x, p)
      BY DEF Expired, LateTx, LateRx, On
    <3> QED
      BY <3>1, <3>2 DEF Own, OnTx, OnRx, Multi, On
  <2> QED
    BY <2>1
<1>7. /\ s \in Seq(Threads \cup {Clock}) /\ Once(s) /\ \A x : In(s, x) <=> x \in R
  <2>1. s \in Seq(R) /\ Once(s) /\ \A x : In(s, x) <=> x \in R
    BY <1>4, OrderList
  <2> QED
    BY <1>4, <2>1, LargerList
<1>8. /\ high' \in Seq(Threads \cup {Clock}) /\ Once(high')
      /\ \A x \in Threads : In(high', x) <=> In(high, x) \/ x \in R
  <2> DEFINE h == Tail(high)
  <2>1. h \in Seq(Threads \cup {Clock}) /\ Once(h) /\ \A x : In(h, x) <=> In(high, x) /\ x # Clock
    BY <1>3
  <2>2. high' = h \o s
    BY <1>1
  <2> HIDE DEF h, R
  <2>3. \A x : ~(In(h, x) /\ In(s, x))
    BY <1>6, <1>7, <2>1
  <2>4. /\ h \o s \in Seq(Threads \cup {Clock}) /\ Once(h \o s)
        /\ \A x : In(h \o s, x) <=> In(h, x) \/ In(s, x)
    BY <1>7, <2>1, <2>3, ConcatList
  <2> QED
    BY <1>7, <2>1, <2>2, <2>4, ThreadAssumption
<1>9. TxId \in Queued /\ RxId \in Queued /\ AllOnce(TxId) /\ AllOnce(RxId)
  BY DEF TypeOK, Queued, PInv, Queues, AllOnce
<1>10. /\ TxId' \in Queued /\ AllOnce(TxId')
       /\ \A r \in PortIndex : \A x : In(TxId'[r], x) <=> In(TxId[r], x) /\ ~(r \in PortIndex /\ x \in Expired)
  BY <1>2, <1>9, UnhookQueues
<1>11. /\ RxId' \in Queued /\ AllOnce(RxId')
       /\ \A r \in PortIndex : \A x : In(RxId'[r], x) <=> In(RxId[r], x) /\ ~(r \in PortIndex /\ x \in Expired)
  BY <1>2, <1>9, UnhookQueues
<1>12. /\ rc' \in [Threads -> [PortIndex -> Results]]
       /\ \A x \in Threads, p \in PortIndex :
            rc'[x][p] = IF x \in Expired /\ (LateTx(x, p) \/ LateRx(x, p)) THEN "timeout" ELSE rc[x][p]
  <2>1. \A x \in Threads, p \in PortIndex : rc[x][p] \in Results /\ "timeout" \in Results
    BY DEF TypeOK, Results
  <2> QED
    BY <1>2, <2>1
<1>13. \A x \in Threads, p \in PortIndex :
         x \in Expired /\ (LateTx(x, p) \/ LateRx(x, p)) <=> p \in P[x]
  <2>1. \A x \in Threads : x \in Expired => x \in Late
    BY DEF Expired, LateTx, LateRx
  <2> QED
    BY <1>5, <2>1 DEF LateTx, LateRx, On
<1>14. state' \in [Threads -> BOOLEAN] /\ \A x \in Threads : state'[x] = (state[x] /\ x \notin Expired)
  BY <1>2 DEF TypeOK
<1>15. \A x \in Threads : x \in R <=> x \in Expired /\ (call[x] \in {"put", "get"} \/ state[x])
  OBVIOUS
<1> HIDE DEF P, R
<1>16. \A x \in Threads : \A p \in P[x] : p \in PortIndex /\ On(x, p)
  BY <1>5
<1>17. \A x \in Threads, p \in PortIndex :
         /\ In(TxId'[p], x) <=> In(TxId[p], x) /\ p \notin P[x]
         /\ In(RxId'[p], x) <=> In(RxId[p], x) /\ p \notin P[x]
         /\ rc'[x][p] = IF p \in P[x] THEN "timeout" ELSE rc[x][p]
         /\ In(TxId'[p], x) \/ In(RxId'[p], x) => Type'[p] = Type[p] /\ Cycle'[p] = Cycle[p]
  BY <1>2, <1>5, <1>10, <1>11, <1>12, <1>13 DEF On
<1>18. \A x \in Threads :
         /\ ~AtHead(x)
         /\ state'[x] = (state[x] /\ P[x] = {})
         /\ In(high', x) <=> In(high, x) \/ (P[x] # {} /\ (call[x] \in {"put", "get"} \/ state[x]))
         /\ call'[x] = call[x] /\ want'[x] = want[x] /\ peer'[x] = peer[x] /\ held'[x] = held[x]
         /\ x \in moved' <=> x \in moved
  BY <1>2, <1>3, <1>5, <1>8, <1>14, <1>15
<1>19. Ejecting(P, "timeout")
  BY <1>16, <1>17, <1>18 DEF Ejecting
<1>20. Queues'
  <2>1. Apart'
    BY <1>10, <1>11 DEF Apart, PInv, Queues
  <2> QED
    BY <1>2, <1>8, <1>10, <1>11, <2>1, QueuesSpared DEF PInv
<1>21. PInv'
  BY <1>12, <1>19, <1>20, EjectingKeeps
<1>22. TypeOK'
  BY <1>2, <1>8, <1>10, <1>11, <1>12, <1>14 DEF TypeOK, Queued
<1> QED
  BY <1>21, <1>22

(* A call through a valid descriptor.                                      *)
LEMMA ValidHere ==
  ASSUME NEW d \in Descriptors, Local(d)
  PROVE  /\ d.ix \in PortIndex /\ d = [ix |-> d.ix, cy |-> Cycle[d.ix]] /\ Type[d.ix] = "local"
         /\ \A x : Here(x, d.ix) <=> Wants(x, d)
<1>1. d.ix \in PortIndex /\ d = [ix |-> d.ix, cy |-> Cycle[d.ix]] /\ Type[d.ix] = "local"
  BY DEF Descriptors, Local, Valid
<1> QED
  BY <1>1 DEF Here

(* A descriptor that still fits its slot is that of the port there.        *)
LEMMA IssuedLocal ==
  ASSUME TypeOK, NEW d \in Descriptors, Issued(d), Valid(d)
  PROVE  Local(d)
<1>1. d.cy \in Int /\ d.ix \in PortIndex /\ Cycle[d.ix] = d.cy
  BY DEF Descriptors, Valid
<1> QED
  BY <1>1 DEF Issued

(* A caller of PutMsg() or GetMsg() that has to wait.                      *)
LEMMA WaitingKeeps ==
  ASSUME TypeOK, PInv, NeverAstray, NEW t \in Threads, NEW d \in Descriptors, Local(d),
         Idle(t), call[t] = "none", NEW c \in {"put", "get"}, Asks(t, c, d), rc'[t][d.ix] = "null",
         UNCHANGED <<table, high, state, peer, held, moved, astray>>,
         TxId' \in Queued, AllOnce(TxId'), RxId' \in Queued, AllOnce(RxId'), Apart',
         \A p \in PortIndex : \A x \in Threads :
           /\ In(TxId'[p], x) <=> In(TxId[p], x) \/ (c = "put" /\ p = d.ix /\ x = t)
           /\ In(RxId'[p], x) <=> In(RxId[p], x) \/ (c = "get" /\ p = d.ix /\ x = t)
  PROVE  TypeOK' /\ PInv'
<1>1. UNCHANGED <<Type, Cycle, Owner, PTFreeq, high, state, peer, held, moved, astray>>
  BY DEF table
<1>2. /\ CallTypes' /\ Alone(t) /\ call'[t] = c
      /\ Len(want'[t]) = 1 /\ Len(want'[t]) >= 1 /\ want'[t][1] = d /\ Wants(t, d)'
  BY DEF Asks
<1>3. TypeOK'
  BY <1>1, <1>2 DEF TypeOK, CallTypes, Queued
<1>4. \A x \in Threads \ {t} : Same(x)
  BY <1>1, <1>2 DEF Same, SameCall, SamePlace, Alone, AtHead
<1>5. Queues'
  BY <1>1, QueuesSpared DEF PInv, Queues
<1>6. peer[t] = None /\ peer'[t] = None
  BY <1>1 DEF PInv, Own, Lengths
<1>7. /\ ~In(high', t) /\ ~state'[t] /\ t \notin moved' /\ held'[t] = 0
      /\ \A p \in PortIndex : ~In(TxId[p], t) /\ ~In(RxId[p], t)
      /\ \A u \in Threads : peer[u] # t
  BY <1>1 DEF Idle
<1>8. Here(t, d.ix)' /\ d.ix \in PortIndex
  <2>1. d.ix \in PortIndex /\ d = [ix |-> d.ix, cy |-> Cycle[d.ix]] /\ Type[d.ix] = "local"
    BY ValidHere
  <2>2. Type'[d.ix] = "local" /\ Wants(t, [ix |-> d.ix, cy |-> Cycle[d.ix]])' /\ Cycle' = Cycle
    BY <1>1, <1>2, <2>1
  <2> QED
    BY <2>1, <2>2 DEF Here
<1>9. OnTx(t)'
  BY <1>2, <1>7, <1>8 DEF OnTx
<1>10. OnRx(t)'
  BY <1>2, <1>7, <1>8 DEF OnRx
<1>11. OnHigh(t)'
  BY <1>7 DEF OnHigh
<1>12. Multi(t)' /\ Lengths(t)'
  <2>1. call'[t] \in {"put", "get"}
    BY <1>2
  <2>2. Multi(t)'
    BY <1>7, <2>1 DEF Multi
  <2> QED
    BY <1>2, <1>6, <2>1, <2>2 DEF Lengths
<1>13. Linked(t)'
  BY <1>2, <1>7, <1>8 DEF Linked
<1>14. Holds(t)'
  BY <1>2, <1>7 DEF Holds
<1>15. Own(t)'
  BY <1>9, <1>10, <1>11, <1>12 DEF Own
<1>16. PInv'
  BY <1>4, <1>5, <1>6, <1>7, <1>13, <1>14, <1>15, ActorKeeps
<1> QED
  BY <1>3, <1>16

(* One that finds its other side x at the head of a queue.                 *)
Copies(t, c, d, x) ==
  /\ Asks(t, c, d)
  /\ peer' = [peer EXCEPT ![t] = x]
  /\ IF c = "putcopy" THEN In(RxId[d.ix], x) ELSE In(TxId[d.ix], x)
  /\ UNCHANGED <<table, high, state, held, moved, astray>>
  /\ TxId' \in Queued /\ AllOnce(TxId') /\ RxId' \in Queued /\ AllOnce(RxId')
  /\ \A p \in PortIndex : \A y \in Threads :
       /\ In(TxId'[p], y) <=> In(TxId[p], y) /\ ~(c = "getcopy" /\ p = d.ix /\ y = x)
       /\ In(RxId'[p], y) <=> In(RxId[p], y) /\ ~(c = "putcopy" /\ p = d.ix /\ y = x)

(* The beginning of a copy keeps the invariant: the other side has been    *)
(* taken off its queue.                                                    *)
LEMMA CopyingKeeps ==
  ASSUME TypeOK, PInv, NeverAstray, NEW t \in Threads, NEW d \in Descriptors, Local(d),
         Idle(t), call[t] = "none", NEW c \in {"putcopy", "getcopy"}, NEW x \in Threads,
         Copies(t, c, d, x)
  PROVE  TypeOK' /\ PInv'
<1>0. /\ Asks(t, c, d)
      /\ peer' = [peer EXCEPT ![t] = x]
      /\ IF c = "putcopy" THEN In(RxId[d.ix], x) ELSE In(TxId[d.ix], x)
      /\ UNCHANGED <<table, high, state, held, moved, astray>>
      /\ TxId' \in Queued /\ AllOnce(TxId') /\ RxId' \in Queued /\ AllOnce(RxId')
      /\ \A p \in PortIndex : \A y \in Threads :
           /\ In(TxId'[p], y) <=> In(TxId[p], y) /\ ~(c = "getcopy" /\ p = d.ix /\ y = x)
           /\ In(RxId'[p], y) <=> In(RxId[p], y) /\ ~(c = "putcopy" /\ p = d.ix /\ y = x)
  BY DEF Copies
<1> USE <1>0
<1>1. UNCHANGED <<Type, Cycle, Owner, PTFreeq, high, state, held, moved, astray>>
  BY DEF table
<1>2. /\ CallTypes' /\ Alone(t) /\ call'[t] = c
      /\ Len(want'[t]) = 1 /\ Len(want'[t]) >= 1 /\ Aim(t)' = d
  BY DEF Asks
<1>3. /\ ~In(high', t) /\ ~state'[t] /\ t \notin moved' /\ held'[t] = 0
      /\ \A p \in PortIndex : ~In(TxId[p], t) /\ ~In(RxId[p], t)
      /\ \A u \in Threads : peer[u] # t
  BY <1>1 DEF Idle
<1>4. d.ix \in PortIndex /\ t # x /\ \A y : Here(y, d.ix) <=> Wants(y, d)
  BY <1>3, ValidHere
<1>5. peer' \in [Threads -> Threads \cup {None}] /\ peer'[t] = x /\ \A y \in Threads \ {t} : peer'[y] = peer[y]
  BY DEF TypeOK
<1>6. TypeOK'
  BY <1>1, <1>2, <1>5 DEF TypeOK, CallTypes, Queued
<1>7. \A y \in Threads \ {t} : SameCall(y)
  BY <1>1, <1>2, <1>5 DEF SameCall, Alone
<1>8. \A y \in Threads \ {t, x} : Same(y)
  BY <1>1, <1>7 DEF Same, SamePlace, AtHead
<1>9. Less(x)
  BY <1>1, <1>4, <1>7 DEF Less, AtHead
<1>10. Queues'
  <2>1. Apart'
    BY DEF Apart, PInv, Queues
  <2> QED
    BY <1>1, <2>1, QueuesSpared DEF PInv, Queues
<1>11. peer[t] = None
  BY DEF PInv, Own, Lengths
<1>12. Own(t)' /\ Linked(t)' /\ Holds(t)'
  <2>1. x # None
    BY ThreadAssumption
  <2>2. call'[t] \in {"none", "made", "putcopy", "getcopy"}
        /\ (call'[t] # "none" => Len(want'[t]) = 1 /\ Len(want'[t]) >= 1)
        /\ (peer'[t] = None <=> call'[t] \in {"none", "made"})
    BY <1>2, <1>5, <2>1
  <2>3. \A p \in PortIndex : ~In(TxId'[p], t) /\ ~In(RxId'[p], t)
    BY <1>3
  <2> QED
    BY <1>3, <2>2, <2>3, BecomesQuiet
<1>13. Own(x) /\ Linked(x) /\ call'[x] = call[x] /\ rc'[x] = rc[x] /\ want'[x] = want[x]
  BY <1>4, <1>7 DEF PInv, SameCall
<1>14. IF c = "putcopy" THEN call[x] \in {"get", "multi", "multicopy"} ELSE call[x] = "put"
  BY <1>4, <1>13 DEF Own, OnTx, OnRx
<1>15. Wants(x, d)'
  BY <1>4, <1>13 DEF Own, OnTx, OnRx, Wants
<1>16. \A q \in PortIndex : On(x, q) /\ call[x] \in {"put", "get"} => q = d.ix
  <2>1. ASSUME NEW q \in PortIndex, On(x, q), call[x] \in {"put", "get"}
        PROVE  q = d.ix
    <3>1. Here(x, q) /\ Here(x, d.ix) /\ Len(want[x]) = 1
      BY <1>4, <1>13, <2>1 DEF Own, OnTx, OnRx, On, Lengths
    <3>2. Wants(x, [ix |-> q, cy |-> Cycle[q]]) /\ Wants(x, d)
      BY <1>4, <3>1 DEF Here
    <3>3. [ix |-> q, cy |-> Cycle[q]] = d
      BY <3>1, <3>2, Only
    <3>4. [ix |-> q, cy |-> Cycle[q]].ix = q
      OBVIOUS
    <3> QED
      BY <3>3, <3>4
  <2> QED
    BY <2>1
<1>17. IF c = "putcopy" THEN Receiver(x, d.ix)' ELSE Transmitter(x, d.ix)'
  <2>1. CASE c = "putcopy"
    <3>1. /\ ~In(RxId'[d.ix], x)
          /\ IF call[x] = "get" THEN ~In(high, x) /\ rc[x][d.ix] = "null"
                                ELSE rc[x][d.ix] = "waiting"
      BY <1>4, <1>13, <2>1 DEF Own, OnRx
    <3>2. call[x] = "get" => \A q \in PortIndex : ~In(RxId'[q], x)
      BY <1>4, <1>16, <2>1 DEF On
    <3>3. Receiver(x, d.ix)'
      BY <1>1, <1>13, <1>14, <2>1, <3>1, <3>2 DEF Receiver
    <3> QED
      BY <2>1, <3>3
  <2>2. CASE c = "getcopy"
    <3>1. ~In(high, x) /\ rc[x][d.ix] = "null"
      BY <1>4, <1>13, <2>2 DEF Own, OnTx
    <3>2. \A q \in PortIndex : ~In(TxId'[q], x)
      BY <1>4, <1>14, <1>16, <2>2 DEF On
    <3>3. Transmitter(x, d.ix)'
      BY <1>1, <1>13, <1>14, <2>2, <3>1, <3>2 DEF Transmitter
    <3> QED
      BY <2>2, <3>3
  <2> QED
    BY <2>1, <2>2
<1>18. Copier(t)'
  BY <1>2, <1>5, <1>15, <1>17 DEF Copier
<1>19. Linked(x)'
  <2>1. \A q : SentTo(x, q) => SentTo(x, q)'
    <3>1. \A u \in Threads : peer[u] = x => u # t /\ peer'[u] = x /\ call'[u] = call[u] /\ Aim(u)' = Aim(u)
      BY <1>7, <1>11, ThreadAssumption DEF SameCall, Aim
    <3> QED
      BY <3>1 DEF SentTo, Sent
  <2>2. CASE c = "putcopy"
    <3>1. SentTo(x, d.ix)'
      BY <1>2, <1>5, <2>2 DEF SentTo, Sent
    <3>2. call[x] = "get" => \E p \in PortIndex : SentTo(x, p)'
      BY <1>4, <3>1
    <3>3. call[x] \in {"multi", "multicopy"} => \A p \in PortIndex : rc[x][p] = "waiting" =>
            In(RxId'[p], x) \/ SentTo(x, p)' \/ (call[x] = "multicopy" /\ held[x] > 0)
      BY <1>13, <2>1, <2>2, <3>1 DEF Linked
    <3> QED
      BY <1>1, <1>13, <1>14, <2>2, <3>2, <3>3 DEF Linked
  <2>3. CASE c = "getcopy"
    <3>1. TakenFrom(x)'
      BY <1>2, <1>5, <2>3 DEF TakenFrom, Taken
    <3> QED
      BY <1>13, <1>14, <2>3, <3>1 DEF Linked
  <2> QED
    BY <2>2, <2>3
<1>20. ASSUME NEW u \in Threads, peer[u] = x
       PROVE  Aim(u).ix # d.ix
  <2>1. Copier(u) /\ peer[u] # None
    BY <1>20, ThreadAssumption DEF PInv
  <2>2. Aim(u).ix = d.ix => FALSE
    BY <1>4, <1>14, <1>20, <2>1 DEF Copier, Receiver, Transmitter
  <2> QED
    BY <2>2
<1>21. PInv'
  BY <1>2, <1>3, <1>4, <1>5, <1>8, <1>9, <1>10, <1>11, <1>12, <1>18, <1>19, <1>20, TakingKeeps
<1> QED
  BY <1>6, <1>21

(* The queues are lists of threads without repetitions.                    *)
LEMMA QueuesTyped ==
  ASSUME TypeOK, PInv
  PROVE  TxId \in Queued /\ RxId \in Queued /\ AllOnce(TxId) /\ AllOnce(RxId)
BY DEF TypeOK, Queued, PInv, Queues, AllOnce

(* Nobody waits at an empty queue.                                         *)
LEMMA SlotEmpty ==
  ASSUME NEW Q \in Queued, NEW p \in PortIndex
  PROVE  Q[p] = <<>> <=> \A x \in Threads : ~In(Q[p], x)
<1>1. Q[p] \in Seq(Threads)
  BY DEF Queued
<1> QED
  BY <1>1, EmptyList

(* PutMsg(), which waits, copies or fails, keeps the invariant, ...        *)
LEMMA PutMsgKeeps ==
  ASSUME TypeOK, PInv, NeverAstray, NEW t \in Threads, NEW d \in Descriptors, Issued(d),
         NEW w \in Timeouts, PutMsg(t, d, w)
  PROVE  TypeOK' /\ PInv'
<1> DEFINE p == d.ix
<1>1. Idle(t) /\ call[t] = "none"
  BY OutsideIdle DEF PutMsg, Runs
<1>2. Local(d) /\ p \in PortIndex
  BY IssuedLocal, ValidHere DEF PutMsg, Deliverable
<1>3. UNCHANGED <<table, high, state, held, moved, astray>>
  BY DEF PutMsg, history
<1>4. TxId \in Queued /\ RxId \in Queued /\ AllOnce(TxId) /\ AllOnce(RxId) /\ Apart
  BY QueuesTyped DEF PInv, Queues
<1>5. CASE TxId[p] = <<>> /\ RxId[p] # <<>>
  <2>1. /\ RxId' = Shifted(RxId, p) /\ peer' = [peer EXCEPT ![t] = Head(RxId[p])]
        /\ Begin(t, "putcopy", <<d>>, "forever", {}) /\ UNCHANGED TxId
    BY <1>5 DEF PutMsg, TakeReceiver, Shifted
  <2>2. PICK x \in Threads : x = Head(RxId[p])
    BY <1>2, <1>4, <1>5, ShiftQueue
  <2> HIDE DEF p
  <2>3. /\ RxId' \in Queued /\ AllOnce(RxId') /\ In(RxId[p], x)
        /\ \A r \in PortIndex : \A y : In(RxId'[r], y) <=> In(RxId[r], y) /\ (r = p => y # x)
    BY <1>2, <1>4, <1>5, <2>1, <2>2, ShiftQueue
  <2>9. PICK c \in {"putcopy", "getcopy"} : c = "putcopy"
    OBVIOUS
  <2>4. Asks(t, c, d)
    <3>1. "putcopy" \in Calls /\ "forever" \in Timeouts
      BY DEF Calls, Timeouts
    <3> QED
      BY <2>1, <2>9, <3>1, BeginsOne
  <2>5. peer' = [peer EXCEPT ![t] = x]
    BY <2>1, <2>2
  <2>6. /\ TxId' \in Queued /\ AllOnce(TxId')
        /\ \A r \in PortIndex : \A y \in Threads :
             /\ In(TxId'[r], y) <=> In(TxId[r], y) /\ ~(c = "getcopy" /\ r = d.ix /\ y = x)
             /\ In(RxId'[r], y) <=> In(RxId[r], y) /\ ~(c = "putcopy" /\ r = d.ix /\ y = x)
    BY <1>4, <2>1, <2>3, <2>9 DEF p
  <2>7. IF c = "putcopy" THEN In(RxId[d.ix], x) ELSE In(TxId[d.ix], x)
    BY <2>3, <2>9 DEF p
  <2>8. Copies(t, c, d, x)
    BY <1>3, <2>3, <2>4, <2>5, <2>6, <2>7 DEF Copies
  <2> QED
    BY <1>1, <1>2, <2>8, CopyingKeeps
<1>6. CASE ~(TxId[p] = <<>> /\ RxId[p] # <<>>)
  <2>1. /\ TxId' = Joined(TxId, p, t) /\ Begin(t, "put", <<d>>, w, {p}) /\ UNCHANGED <<RxId, peer>>
    BY <1>6 DEF PutMsg, Joined
  <2>2. \A x \in Threads : ~In(RxId[p], x)
    <3>1. RxId[p] = <<>>
      BY <1>2, <1>6, Sides DEF OneSided
    <3> QED
      BY <1>2, <1>4, <3>1, SlotEmpty
  <2> HIDE DEF p
  <2>3. ~In(TxId[p], t)
    BY <1>1, <1>2 DEF Idle
  <2>4. /\ TxId' \in Queued /\ AllOnce(TxId')
        /\ \A r \in PortIndex : \A x : In(TxId'[r], x) <=> In(TxId[r], x) \/ (r = p /\ x = t)
    <3> DEFINE Q == Joined(TxId, p, t)
    <3>1. /\ Q \in Queued /\ AllOnce(Q)
          /\ \A r \in PortIndex : \A x : In(Q[r], x) <=> In(TxId[r], x) \/ (r = p /\ x = t)
      BY <1>2, <1>4, <2>3, JoinQueue
    <3> QED
      BY <2>1, <3>1
  <2>5. Asks(t, "put", d) /\ rc'[t][d.ix] = "null"
    <3>1. "put" \in Calls
      BY DEF Calls
    <3> QED
      BY <1>2, <2>1, <3>1, BeginsOne DEF p
  <2>6. Apart'
    BY <1>4, <2>1, <2>2, <2>4 DEF Apart
  <2>7. /\ RxId' \in Queued /\ AllOnce(RxId') /\ "put" \in {"put", "get"}
        /\ \A r \in PortIndex : \A x \in Threads :
             /\ In(TxId'[r], x) <=> In(TxId[r], x) \/ ("put" = "put" /\ r = d.ix /\ x = t)
             /\ In(RxId'[r], x) <=> In(RxId[r], x) \/ ("put" = "get" /\ r = d.ix /\ x = t)
    BY <1>4, <2>1, <2>4 DEF p
  <2>8. UNCHANGED <<table, high, state, peer, held, moved, astray>>
    BY <1>3, <2>1
  <2> QED
    BY <1>1, <1>2, <2>4, <2>5, <2>6, <2>7, <2>8, WaitingKeeps
<1> QED
  BY <1>5, <1>6

(* ... and so does GetMsg().                                               *)
LEMMA GetMsgKeeps ==
  ASSUME TypeOK, PInv, NeverAstray, NEW t \in Threads, NEW d \in Descriptors,
         NEW w \in Timeouts, GetMsg(t, d, w)
  PROVE  TypeOK' /\ PInv'
<1> DEFINE p == d.ix
<1>1. Idle(t) /\ call[t] = "none"
  BY OutsideIdle DEF GetMsg, Runs
<1>2. Local(d) /\ p \in PortIndex
  BY ValidHere DEF GetMsg
<1>3. UNCHANGED <<table, high, state, held, moved, astray>>
  BY DEF GetMsg, history
<1>4. TxId \in Queued /\ RxId \in Queued /\ AllOnce(TxId) /\ AllOnce(RxId) /\ Apart
  BY QueuesTyped DEF PInv, Queues
<1>5. CASE ~NoMessageYet(p)
  <2>1. /\ TxId' = Shifted(TxId, p) /\ peer' = [peer EXCEPT ![t] = Head(TxId[p])]
        /\ Begin(t, "getcopy", <<d>>, "forever", {}) /\ UNCHANGED RxId /\ TxId[p] # <<>>
    BY <1>5 DEF GetMsg, TakeTransmitter, Shifted, NoMessageYet
  <2>2. PICK x \in Threads : x = Head(TxId[p])
    BY <1>2, <1>4, <2>1, ShiftQueue
  <2> HIDE DEF p
  <2>3. /\ TxId' \in Queued /\ AllOnce(TxId') /\ In(TxId[p], x)
        /\ \A r \in PortIndex : \A y : In(TxId'[r], y) <=> In(TxId[r], y) /\ (r = p => y # x)
    BY <1>2, <1>4, <2>1, <2>2, ShiftQueue
  <2>9. PICK c \in {"putcopy", "getcopy"} : c = "getcopy"
    OBVIOUS
  <2>4. Asks(t, c, d)
    <3>1. "getcopy" \in Calls /\ "forever" \in Timeouts
      BY DEF Calls, Timeouts
    <3> QED
      BY <2>1, <2>9, <3>1, BeginsOne
  <2>5. peer' = [peer EXCEPT ![t] = x]
    BY <2>1, <2>2
  <2>6. /\ RxId' \in Queued /\ AllOnce(RxId')
        /\ \A r \in PortIndex : \A y \in Threads :
             /\ In(TxId'[r], y) <=> In(TxId[r], y) /\ ~(c = "getcopy" /\ r = d.ix /\ y = x)
             /\ In(RxId'[r], y) <=> In(RxId[r], y) /\ ~(c = "putcopy" /\ r = d.ix /\ y = x)
    BY <1>4, <2>1, <2>3, <2>9 DEF p
  <2>7. IF c = "putcopy" THEN In(RxId[d.ix], x) ELSE In(TxId[d.ix], x)
    BY <2>3, <2>9 DEF p
  <2>8. Copies(t, c, d, x)
    BY <1>3, <2>3, <2>4, <2>5, <2>6, <2>7 DEF Copies
  <2> QED
    BY <1>1, <1>2, <2>8, CopyingKeeps
<1>6. CASE NoMessageYet(p)
  <2>1. /\ RxId' = Joined(RxId, p, t) /\ Begin(t, "get", <<d>>, w, {p}) /\ UNCHANGED <<TxId, peer>>
    BY <1>6 DEF GetMsg, Joined
  <2>2. \A x \in Threads : ~In(TxId[p], x)
    <3>1. TxId[p] = <<>>
      BY <1>2, <1>6, Sides DEF OneSided, NoMessageYet
    <3> QED
      BY <1>2, <1>4, <3>1, SlotEmpty
  <2> HIDE DEF p
  <2>3. ~In(RxId[p], t)
    BY <1>1, <1>2 DEF Idle
  <2>4. /\ RxId' \in Queued /\ AllOnce(RxId')
        /\ \A r \in PortIndex : \A x : In(RxId'[r], x) <=> In(RxId[r], x) \/ (r = p /\ x = t)
    <3> DEFINE Q == Joined(RxId, p, t)
    <3>1. /\ Q \in Queued /\ AllOnce(Q)
          /\ \A r \in PortIndex : \A x : In(Q[r], x) <=> In(RxId[r], x) \/ (r = p /\ x = t)
      BY <1>2, <1>4, <2>3, JoinQueue
    <3> QED
      BY <2>1, <3>1
  <2>5. Asks(t, "get", d) /\ rc'[t][d.ix] = "null"
    <3>1. "get" \in Calls
      BY DEF Calls
    <3> QED
      BY <1>2, <2>1, <3>1, BeginsOne DEF p
  <2>6. Apart'
    BY <1>4, <2>1, <2>2, <2>4 DEF Apart
  <2>7. /\ TxId' \in Queued /\ AllOnce(TxId') /\ "get" \in {"put", "get"}
        /\ \A r \in PortIndex : \A x \in Threads :
             /\ In(TxId'[r], x) <=> In(TxId[r], x) \/ ("get" = "put" /\ r = d.ix /\ x = t)
             /\ In(RxId'[r], x) <=> In(RxId[r], x) \/ ("get" = "get" /\ r = d.ix /\ x = t)
    BY <1>4, <2>1, <2>4 DEF p
  <2>8. UNCHANGED <<table, high, state, peer, held, moved, astray>>
    BY <1>3, <2>1
  <2> QED
    BY <1>1, <1>2, <2>4, <2>5, <2>6, <2>7, <2>8, WaitingKeeps
<1> QED
  BY <1>5, <1>6

(* The other side of a copy.                                               *)
LEMMA OtherSide ==
  ASSUME TypeOK, PInv, NeverAstray, NEW t \in Threads, call[t] \in {"putcopy", "getcopy", "multicopy"}
  PROVE  \E x \in Threads :
           /\ peer[t] = x /\ t # x /\ Wants(x, Aim(t)) /\ Aim(t).ix \in PortIndex
           /\ call[t] = "putcopy" => Receiver(x, Aim(t).ix) /\ want[t][1] = Aim(t)
           /\ call[t] \in {"getcopy", "multicopy"} => Transmitter(x, Aim(t).ix)
<1>1. Lengths(t) /\ Copier(t) /\ peer[t] # None
  BY DEF PInv, Own, Lengths
<1>2. PICK x \in Threads : peer[t] = x
  BY <1>1 DEF TypeOK
<1>3. Aim(t).ix \in PortIndex
  BY <1>1, AimSlot
<1>4. call[t] = "putcopy" => want[t][1] = Aim(t)
  BY <1>1 DEF Lengths, Aim
<1>5. Wants(x, Aim(t)) /\ IF call[t] = "putcopy" THEN Receiver(x, Aim(t).ix) ELSE Transmitter(x, Aim(t).ix)
  BY <1>1, <1>2 DEF Copier
<1>6. t # x
  BY <1>5 DEF Receiver, Transmitter
<1> QED
  BY <1>2, <1>3, <1>4, <1>5, <1>6

(* Another thread that copies to or from x does so on another slot.        *)
LEMMA OtherSlot ==
  ASSUME TypeOK, PInv, NeverAstray, NEW t \in Threads, NEW x \in Threads, peer[t] = x,
         NEW u \in Threads \ {t}, peer[u] = x
  PROVE  /\ Aim(u).ix # Aim(t).ix /\ Aim(u).ix \in PortIndex /\ peer[u] # None /\ Copier(u)
         /\ call[x] \in {"multi", "multicopy"} /\ call[u] = "putcopy"
<1>1. x # None /\ Sole /\ Copier(u) /\ Copier(t) /\ Lengths(u) /\ Lengths(x)
  BY ThreadAssumption DEF PInv, Own
<1>2. Aim(u).ix # Aim(t).ix /\ Aim(u).ix \in PortIndex
  BY <1>1, AimSlot DEF Sole
<1>3. ASSUME Len(want[x]) = 1
      PROVE  FALSE
  <2>1. Wants(x, Aim(u)) /\ Wants(x, Aim(t))
    BY <1>1 DEF Copier
  <2>2. Aim(u) = Aim(t)
    BY <1>3, <2>1, Only
  <2> QED
    BY <1>2, <2>2
<1>4. call[x] \notin {"put", "get"}
  BY <1>1, <1>3 DEF Lengths
<1> QED
  BY <1>1, <1>2, <1>4 DEF Copier, Receiver, Transmitter

(* The transmitter x is told that its message has been received.           *)
LEMMA TransmitterTold ==
  ASSUME TypeOK, PInv, NeverAstray, NEW t \in Threads, call[t] \in {"getcopy", "multicopy"},
         NEW x \in Threads, peer[t] = x, high' = <<x>>, x \in moved',
         UNCHANGED <<Type, Cycle, TxId>>,
         \A p \in PortIndex : In(RxId'[p], x) => In(RxId[p], x),
         call'[x] = call[x], want'[x] = want[x], rc'[x] = rc[x], state'[x] = state[x],
         peer'[x] = peer[x], held'[x] = held[x]
  PROVE  /\ Own(x)' /\ Linked(x)' /\ Holds(x)' /\ Copier(x)' /\ call[x] = "put"
         /\ \A u \in Threads \ {t} : peer[u] # x
<1> DEFINE p == Aim(t).ix
<1>1. p \in PortIndex /\ Wants(x, Aim(t)) /\ Transmitter(x, p)
  BY OtherSide
<1>2. Own(x) /\ Holds(x) /\ call[x] = "put" /\ ~In(high, x) /\ rc[x][p] = "null"
      /\ \A q \in PortIndex : ~In(TxId[q], x)
  BY <1>1 DEF Transmitter, PInv
<1>3. want[x][1] = Aim(t) /\ Len(want[x]) = 1
  BY <1>1, <1>2, Only DEF Own, Lengths
<1>4. /\ In(high', x) /\ call'[x] = "put" /\ ~state'[x] /\ peer'[x] = None /\ held'[x] = 0
      /\ rc'[x][want'[x][1].ix] = "null"
      /\ \A q \in PortIndex : ~In(TxId'[q], x) /\ ~In(RxId'[q], x)
  <2>1. In(high', x)
    BY OnlyOne
  <2>2. \A q \in PortIndex : ~In(RxId[q], x)
    BY <1>2 DEF Own, OnRx
  <2>3. ~state[x] /\ peer[x] = None /\ held[x] = 0
    BY <1>2 DEF Own, Multi, Lengths, Holds, TypeOK
  <2> QED
    BY <1>2, <1>3, <2>1, <2>2, <2>3
<1> HIDE DEF p
<1>5. OnTx(x)' /\ OnRx(x)'
  BY <1>4 DEF OnTx, OnRx
<1>6. OnHigh(x)'
  BY <1>4 DEF OnHigh
<1>7. Multi(x)' /\ Lengths(x)'
  BY <1>3, <1>4 DEF Multi, Lengths
<1>8. Linked(x)' /\ Holds(x)' /\ Copier(x)'
  BY <1>4 DEF Linked, Holds, Copier
<1>9. \A u \in Threads \ {t} : peer[u] # x
  BY <1>2, OtherSlot
<1> QED
  BY <1>2, <1>5, <1>6, <1>7, <1>8, <1>9 DEF Own

(* The end of the copy in GetMsg() keeps the invariant, ...                *)
LEMMA GetCopyEndKeeps ==
  ASSUME TypeOK, PInv, NeverAstray, NEW t \in Threads, GetCopyEnd(t)
  PROVE  TypeOK' /\ PInv'
<1>1. Idle(t) /\ call[t] = "getcopy"
  BY OutsideIdle DEF GetCopyEnd
<1>2. PICK x \in Threads : peer[t] = x /\ t # x
  BY <1>1, OtherSide
<1>3. /\ high = <<>> /\ high' = <<x>> /\ moved' = moved \cup {x} /\ peer' = [peer EXCEPT ![t] = None]
      /\ UNCHANGED <<Type, Cycle, Owner, PTFreeq, TxId, RxId, state, held, astray>>
  BY <1>2 DEF GetCopyEnd, Copied, table
<1>4. CallTypes' /\ Alone(t) /\ call'[t] = "none"
  BY Finishes DEF GetCopyEnd
<1>5. peer' \in [Threads -> Threads \cup {None}] /\ peer'[t] = None /\ \A y \in Threads \ {t} : peer'[y] = peer[y]
  BY <1>3 DEF TypeOK
<1>6. high' \in Seq(Threads \cup {Clock}) /\ Once(high') /\ \A y : In(high', y) <=> y = x
  <2>1. x \in Threads \cup {Clock}
    OBVIOUS
  <2> QED
    BY <1>3, <2>1, OnlyOne
<1>7. TypeOK'
  BY <1>3, <1>4, <1>5, <1>6 DEF TypeOK, CallTypes
<1>8. \A y \in Threads : ~In(high, y) /\ ~AtHead(y)
  BY <1>3, NoneOnHigh
<1>9. \A y \in Threads \ {t, x} : Same(y)
  BY <1>3, <1>4, <1>5, <1>6, <1>8 DEF Same, SameCall, SamePlace, Alone
<1>10. Queues'
  BY <1>3, <1>6 DEF PInv, Queues, Apart, FreeList
<1>11. Own(t)' /\ Linked(t)' /\ Holds(t)'
  <2>1. ~In(high', t) /\ ~state'[t] /\ t \notin moved' /\ held'[t] = 0
    BY <1>1, <1>2, <1>3, <1>6 DEF Idle
  <2>2. \A p \in PortIndex : ~In(TxId'[p], t) /\ ~In(RxId'[p], t)
    BY <1>1, <1>3 DEF Idle
  <2> QED
    BY <1>4, <1>5, <2>1, <2>2, BecomesQuiet
<1>12. /\ Own(x)' /\ Linked(x)' /\ Holds(x)' /\ Copier(x)'
       /\ \A u \in Threads \ {t} : peer[u] # x
  <2>1. /\ call[t] \in {"getcopy", "multicopy"} /\ x \in moved' /\ high' = <<x>> /\ peer[t] = x
        /\ UNCHANGED <<Type, Cycle, TxId>>
        /\ \A p \in PortIndex : In(RxId'[p], x) => In(RxId[p], x)
        /\ call'[x] = call[x] /\ want'[x] = want[x] /\ rc'[x] = rc[x] /\ state'[x] = state[x]
        /\ peer'[x] = peer[x] /\ held'[x] = held[x]
    BY <1>1, <1>2, <1>3, <1>4, <1>5 DEF Alone
  <2> QED
    BY <2>1, TransmitterTold
<1>13. Kept(x)
  BY <1>2, <1>4, <1>5 DEF Kept, Alone
<1>14. PInv'
  BY <1>1, <1>2, <1>5, <1>9, <1>10, <1>11, <1>12, <1>13, EndingKeeps DEF Idle
<1> QED
  BY <1>7, <1>14

(* What PutCopyEnd() does to the receiver x of slot p.                     *)
Given(t, x, p) ==
  /\ peer[t] = x /\ t # x /\ call[t] = "putcopy" /\ high = <<>>
  /\ Receiver(x, p) /\ Wants(x, Aim(t)) /\ p = Aim(t).ix /\ p \in PortIndex
  /\ \A y : In(high', y) <=> y = x /\ (call[x] = "get" \/ state[x])
  /\ call[x] = "get" \/ state[x] => AtHead(x)'
  /\ ~state'[x] /\ call'[x] = call[x] /\ want'[x] = want[x] /\ peer'[x] = peer[x]
  /\ rc'[x] = IF state[x] THEN [rc[x] EXCEPT ![p] = "null"] ELSE rc[x]
  /\ held'[x] = held[x] + 1
  /\ \A u \in Threads \ {t} : Kept(u)
  /\ UNCHANGED <<Type, Cycle, TxId, RxId, moved>>

(* It is in GetMsg(), ...                                                  *)
LEMMA GetterGiven ==
  ASSUME TypeOK, PInv, NeverAstray, NEW t \in Threads, NEW x \in Threads, NEW p, Given(t, x, p),
         call[x] = "get"
  PROVE  /\ Own(x)' /\ Linked(x)' /\ Holds(x)'
         /\ \A u \in Threads \ {t} : peer[u] # x
<1>1. Own(x) /\ Holds(x)
  BY DEF PInv
<1>2. ~In(high, x) /\ rc[x][p] = "null" /\ \A q \in PortIndex : ~In(RxId[q], x)
  BY DEF Given, Receiver
<1>3. want[x][1] = Aim(t) /\ Len(want[x]) = 1
  BY <1>1, Only DEF Own, Lengths, Given
<1>4. ~state[x] /\ peer[x] = None /\ held[x] = 0 /\ x \notin moved
  BY <1>1, <1>2 DEF Own, OnHigh, Multi, Lengths, Holds, TypeOK
<1>5. /\ In(high', x) /\ ~state'[x] /\ call'[x] = "get" /\ peer'[x] = None /\ held'[x] = 1
      /\ x \notin moved' /\ Len(want'[x]) = 1 /\ rc'[x][want'[x][1].ix] = "null"
  BY <1>2, <1>3, <1>4 DEF Given
<1>6. \A q \in PortIndex : ~In(TxId'[q], x) /\ ~In(RxId'[q], x)
  <2>1. \A q \in PortIndex : ~In(TxId[q], x)
    BY <1>1 DEF Own, OnTx
  <2> QED
    BY <1>2, <2>1 DEF Given
<1>7. OnTx(x)' /\ OnRx(x)'
  BY <1>6 DEF OnTx, OnRx
<1>8. OnHigh(x)' /\ Multi(x)' /\ Lengths(x)'
  BY <1>5 DEF OnHigh, Multi, Lengths
<1>9. Linked(x)' /\ Holds(x)'
  BY <1>5 DEF Linked, Holds
<1>10. \A u \in Threads \ {t} : peer[u] # x
  <2>1. peer[t] = x
    BY DEF Given
  <2> QED
    BY <2>1, OtherSlot
<1> QED
  BY <1>7, <1>8, <1>9, <1>10 DEF Own

(* ... or in MultiWait().                                                  *)
LEMMA WaiterGiven ==
  ASSUME TypeOK, PInv, NeverAstray, NEW t \in Threads, NEW x \in Threads, NEW p, Given(t, x, p),
         call[x] # "get"
  PROVE  /\ Own(x)' /\ Linked(x)' /\ Holds(x)'
         /\ \A u \in Threads \ {t} : peer[u] = x => Copier(u)'
<1>1. Own(x) /\ Linked(x) /\ Holds(x)
  BY DEF PInv
<1>2. /\ call[x] \in {"multi", "multicopy"} /\ rc[x][p] = "waiting" /\ ~In(RxId[p], x) /\ ~In(high, x)
      /\ p \in PortIndex
  BY NoneOnHigh DEF Given, Receiver
<1>3. call[x] = "multi" <=> state[x]
  BY <1>1, <1>2 DEF Own, Multi
<1>4. p \in Hooks(x)
  BY <1>1, <1>2 DEF Own, Multi
<1>5. /\ call'[x] = call[x] /\ want'[x] = want[x] /\ peer'[x] = peer[x] /\ ~state'[x]
      /\ In(high', x) <=> call[x] = "multi"
      /\ call[x] = "multi" => AtHead(x)'
      /\ held'[x] = held[x] + 1
  BY <1>2, <1>3 DEF Given
<1>6. /\ \A q \in PortIndex : rc'[x][q] = IF call[x] = "multi" /\ q = p THEN "null" ELSE rc[x][q]
  BY <1>2, <1>3 DEF Given, TypeOK
<1>7. UNCHANGED <<Type, Cycle, TxId, RxId, moved>>
  BY DEF Given
<1>8. Hooks(x)' = Hooks(x) /\ Hooks(x) \subseteq PortIndex
  <2>1. want[x] \in Seq(Descriptors) /\ Len(want[x]) \in Nat
    BY LenProperties DEF TypeOK
  <2>2. Slots(want[x]) \subseteq PortIndex
    BY <2>1, SlotsOf
  <2>3. SubSeq(want[x], 1, Len(want[x]) - 1) \in Seq(Descriptors)
    BY <2>1, FirstSlots
  <2>4. Slots(SubSeq(want[x], 1, Len(want[x]) - 1)) \subseteq PortIndex
    BY <2>3, SlotsOf
  <2> QED
    BY <1>5, <2>2, <2>4, HooksSpared DEF Hooks
<1>9. OnTx(x)'
  BY <1>1, <1>2, <1>7 DEF Own, OnTx
<1>10. OnRx(x)'
  <2>1. \A q \in PortIndex : In(RxId[q], x) => q # p /\ rc'[x][q] = "waiting"
    BY <1>1, <1>2, <1>6 DEF Own, OnRx
  <2> QED
    BY <1>1, <1>2, <1>5, <1>7, <2>1 DEF Own, OnRx, Here, Wants
<1>11. OnHigh(x)'
  BY <1>1, <1>2, <1>5, <1>7 DEF Own, OnHigh
<1>12. Got(x)' <=> call[x] = "multi"
  <2>1. CASE call[x] = "multi"
    BY <1>2, <1>4, <1>6, <1>8, <2>1 DEF Got
  <2>2. CASE call[x] = "multicopy"
    <3>1. ~Got(x)
      BY <1>1, <2>2 DEF Own, Multi
    <3> QED
      BY <1>6, <1>8, <2>2, <3>1 DEF Got
  <2> QED
    BY <1>2, <2>1, <2>2
<1>13. call[x] = "multi" => ~Failed(x, Hooks(x))'
  <2>1. call[x] = "multi" => \A q \in Hooks(x) : rc[x][q] = "waiting"
    BY <1>1, <1>3 DEF Own, Multi
  <2> QED
    BY <1>6, <1>8, <2>1 DEF Failed
<1>14. Multi(x)'
  <2>1. \A q \in PortIndex : rc'[x][q] = "waiting" => q \in Hooks(x)'
    BY <1>1, <1>2, <1>6, <1>8 DEF Own, Multi
  <2> QED
    BY <1>2, <1>5, <1>12, <1>13, <2>1 DEF Multi
<1>15. Lengths(x)'
  BY <1>1, <1>5 DEF Own, Lengths
<1>16. held'[x] > 0
  <2>1. held[x] \in Nat
    BY DEF TypeOK
  <2> QED
    BY <1>5, <2>1
<1>17. Linked(x)'
  <2>1. ASSUME NEW q \in PortIndex, q # p, SentTo(x, q)
        PROVE  SentTo(x, q)'
    <3>1. PICK u \in Threads : peer[u] = x /\ call[u] = "putcopy" /\ Aim(u).ix = q
      BY <2>1 DEF SentTo, Sent
    <3>2. u # t
      BY <2>1, <3>1 DEF Given
    <3>3. Kept(u)
      BY <3>2 DEF Given
    <3> QED
      BY <3>1, <3>3 DEF SentTo, Sent, Kept, Aim
  <2>2. ASSUME NEW q \in PortIndex, rc'[x][q] = "waiting"
        PROVE  In(RxId'[q], x) \/ SentTo(x, q)' \/ (call'[x] = "multicopy" /\ held'[x] > 0)
    <3>1. CASE call[x] = "multicopy"
      BY <1>5, <1>16, <3>1
    <3>2. CASE call[x] = "multi"
      BY <1>1, <1>6, <1>7, <2>1, <2>2, <3>2 DEF Linked
    <3> QED
      BY <1>2, <3>1, <3>2
  <2> QED
    BY <1>2, <1>5, <2>2 DEF Linked
<1>18. Holds(x)'
  <2>1. call[x] = "multi" => held'[x] = 1
    <3>1. call[x] = "multi" => ~Got(x)
      BY <1>1, NoneOnHigh DEF Own, Multi, Given
    <3> QED
      BY <1>1, <1>5, <3>1 DEF Holds
  <2>2. call[x] = "multicopy" => Crossed(x)'
    BY <1>2, <1>5, <1>6, <1>7 DEF Crossed
  <2> QED
    BY <1>2, <1>5, <1>12, <2>1, <2>2 DEF Holds
<1>19. ASSUME NEW u \in Threads \ {t}, peer[u] = x
       PROVE  Copier(u)'
  <2>1. Aim(u).ix # p /\ Aim(u).ix \in PortIndex /\ peer[u] # None /\ Copier(u) /\ call[u] = "putcopy"
    BY <1>19, OtherSlot DEF Given
  <2>2. peer'[u] = x /\ call'[u] = "putcopy" /\ Aim(u)' = Aim(u)
    BY <1>19, <2>1 DEF Given, Kept, Aim
  <2>3. Receiver(x, Aim(u).ix) /\ Wants(x, Aim(u))
    BY <1>19, <2>1 DEF Copier
  <2>4. Receiver(x, Aim(u).ix)'
    BY <1>2, <1>5, <1>6, <1>7, <2>1, <2>2, <2>3 DEF Receiver
  <2>5. Wants(x, Aim(u))'
    BY <1>5, <2>2, <2>3 DEF Wants
  <2> QED
    BY <2>2, <2>4, <2>5 DEF Copier
<1> QED
  BY <1>9, <1>10, <1>11, <1>14, <1>15, <1>17, <1>18, <1>19 DEF Own

(* ... and of that in PutMsg(), whose receiver may be a MultiWait() that   *)
(* has been resumed meanwhile.                                             *)
LEMMA PutCopyEndKeeps ==
  ASSUME TypeOK, PInv, NeverAstray, NEW t \in Threads, PutCopyEnd(t)
  PROVE  TypeOK' /\ PInv'
<1>1. Idle(t) /\ call[t] = "putcopy" /\ high = <<>>
  BY OutsideIdle DEF PutCopyEnd
<1> DEFINE p == Aim(t).ix
<1>2. PICK x \in Threads : /\ peer[t] = x /\ t # x /\ Wants(x, Aim(t)) /\ p \in PortIndex
                           /\ Receiver(x, p) /\ want[t][1].ix = p
  BY <1>1, OtherSide
<1> HIDE DEF p
<1>3. /\ high' = (IF call[x] = "get" \/ state[x] THEN <<x>> ELSE <<>>)
      /\ state' = [state EXCEPT ![x] = FALSE]
      /\ call' = [call EXCEPT ![t] = "none"] /\ want' = [want EXCEPT ![t] = <<>>]
      /\ rc' = (IF state[x] THEN [rc EXCEPT ![x][p] = "null"] ELSE rc)
      /\ peer' = [peer EXCEPT ![t] = None]
      /\ held' = [held EXCEPT ![x] = @ + 1]
      /\ UNCHANGED <<Type, Cycle, Owner, PTFreeq, TxId, RxId, endtime, moved, astray>>
  BY <1>2 DEF PutCopyEnd, MarkReceived, table
<1>4. /\ high' \in Seq(Threads \cup {Clock}) /\ Once(high')
      /\ \A y : In(high', y) <=> y = x /\ (call[x] = "get" \/ state[x])
      /\ call[x] = "get" \/ state[x] => AtHead(x)'
  <2>1. CASE call[x] = "get" \/ state[x]
    <3>1. x \in Threads \cup {Clock} /\ high' = <<x>>
      BY <1>3, <2>1
    <3> QED
      BY <2>1, <3>1, OnlyOne DEF AtHead
  <2>2. CASE ~(call[x] = "get" \/ state[x])
    BY <1>3, <2>2 DEF Once, In
  <2> QED
    BY <2>1, <2>2
<1>5. /\ call' \in [Threads -> Calls] /\ call'[t] = "none" /\ \A y \in Threads \ {t} : call'[y] = call[y]
  BY <1>3 DEF TypeOK, Calls
<1>6. /\ want' \in [Threads -> Seq(Descriptors)] /\ \A y \in Threads \ {t} : want'[y] = want[y]
  BY <1>3 DEF TypeOK
<1>7. /\ rc' \in [Threads -> [PortIndex -> Results]] /\ \A y \in Threads \ {x} : rc'[y] = rc[y]
      /\ rc'[x] = IF state[x] THEN [rc[x] EXCEPT ![p] = "null"] ELSE rc[x]
  <2>1. "null" \in Results
    BY DEF Results
  <2> QED
    BY <1>2, <1>3, <2>1 DEF TypeOK
<1>8. /\ peer' \in [Threads -> Threads \cup {None}] /\ peer'[t] = None
      /\ \A y \in Threads \ {t} : peer'[y] = peer[y]
  BY <1>3 DEF TypeOK
<1>9. /\ held' \in [Threads -> Nat] /\ held'[x] = held[x] + 1
      /\ \A y \in Threads \ {x} : held'[y] = held[y]
  BY <1>3 DEF TypeOK
<1>10. /\ state' \in [Threads -> BOOLEAN] /\ ~state'[x]
       /\ \A y \in Threads \ {x} : state'[y] = state[y]
  BY <1>3 DEF TypeOK
<1>11. UNCHANGED <<Type, Cycle, Owner, PTFreeq, TxId, RxId, endtime, moved, astray>>
  BY <1>3
<1>12. TypeOK'
  BY <1>4, <1>5, <1>6, <1>7, <1>8, <1>9, <1>10, <1>11 DEF TypeOK
<1>13. \A y \in Threads : ~In(high, y) /\ ~AtHead(y)
  BY <1>1, NoneOnHigh
<1>14. \A y \in Threads \ {t, x} : Same(y)
  BY <1>4, <1>5, <1>6, <1>7, <1>8, <1>9, <1>10, <1>11, <1>13 DEF Same, SameCall, SamePlace
<1>15. \A u \in Threads \ {t} : Kept(u)
  BY <1>5, <1>6, <1>8 DEF Kept
<1>16. Queues'
  BY <1>4, <1>11 DEF PInv, Queues, Apart, FreeList
<1>17. Own(t)' /\ Linked(t)' /\ Holds(t)'
  <2>1. ~In(high', t) /\ ~state'[t] /\ t \notin moved' /\ held'[t] = 0
    BY <1>1, <1>2, <1>4, <1>9, <1>10, <1>11 DEF Idle
  <2>2. \A q \in PortIndex : ~In(TxId'[q], t) /\ ~In(RxId'[q], t)
    BY <1>1, <1>11 DEF Idle
  <2> QED
    BY <1>5, <1>8, <2>1, <2>2, BecomesQuiet
<1>18. Given(t, x, p)
  <2>1. call'[x] = call[x] /\ want'[x] = want[x] /\ peer'[x] = peer[x] /\ p = Aim(t).ix
    BY <1>2, <1>5, <1>6, <1>8 DEF p
  <2> QED
    BY <1>1, <1>2, <1>4, <1>7, <1>9, <1>10, <1>11, <1>15, <2>1 DEF Given
<1>19. Own(x)' /\ Linked(x)' /\ Holds(x)' /\ \A u \in Threads \ {t} : peer[u] = x => Copier(u)'
  <2>1. CASE call[x] = "get"
    BY <1>18, <2>1, GetterGiven
  <2>2. CASE call[x] # "get"
    BY <1>18, <2>2, WaiterGiven
  <2> QED
    BY <2>1, <2>2
<1>20. Copier(x)'
  <2>1. Kept(x) /\ Lengths(x) /\ Copier(x)
    BY <1>2, <1>15 DEF PInv, Own
  <2>2. ASSUME NEW y \in Threads, peer[x] = y
        PROVE  Less(y)
    <3>1. y # t
      BY <1>1, <2>2 DEF Idle
    <3>2. y # x
      <4>1. call[x] \in {"get", "multi", "multicopy"}
        BY <1>2 DEF Receiver
      <4>2. peer[x] # None
        BY <2>2, ThreadAssumption
      <4>3. call[x] = "multicopy" /\ call[y] = "put"
        BY <2>1, <2>2, <4>1, <4>2 DEF Lengths, Copier, Transmitter
      <4> QED
        BY <4>3
    <3> QED
      BY <1>14, <3>1, <3>2, SameLess
  <2> QED
    BY <2>1, <2>2, CopierSpared
<1>21. PInv'
  BY <1>1, <1>2, <1>8, <1>14, <1>15, <1>16, <1>17, <1>19, <1>20, EndingKeeps DEF Idle
<1> QED
  BY <1>12, <1>21

(* The lists of ports that MultiWait() is given, ...                       *)
LEMMA Listed ==
  ASSUME NEW s \in PortLists
  PROVE  s \in Seq(Descriptors) /\ Len(s) \in Nat /\ Len(s) >= 1 /\ DOMAIN s = 1 .. Len(s)
<1>1. PICK n \in 1 .. MultiPorts : s \in [1 .. n -> Descriptors]
  BY DEF PortLists
<1>2. n \in Nat /\ n >= 1
  BY <1>1
<1>3. s \in Seq(Descriptors)
  BY <1>1, <1>2, SeqDef
<1>4. Len(s) = n /\ DOMAIN s = 1 .. n
  BY <1>1, <1>2, <1>3, LenProperties
<1> QED
  BY <1>2, <1>3, <1>4

(* ... and the first i of them.                                            *)
LEMMA ScannedTo ==
  ASSUME NEW t, NEW s \in Seq(Descriptors), NEW i \in 1 .. Len(s),
         want'[t] = SubSeq(s, 1, i), call'[t] = "multicopy"
  PROVE  /\ Len(want'[t]) = i /\ Aim(t)' = s[i]
         /\ \A j \in 1 .. i : Wants(t, s[j])'
         /\ \A q : q \in Hooks(t)' <=> \E j \in 1 .. i - 1 : s[j].ix = q
         /\ \A q : q \in Slots(SubSeq(s, 1, i - 1)) <=> \E j \in 1 .. i - 1 : s[j].ix = q
<1>1. Len(s) \in Nat /\ i \in Nat /\ 1 <= i /\ i <= Len(s)
  BY LenProperties
<1> DEFINE r == SubSeq(s, 1, i)
           k == i - 1
<1>2. k \in Int /\ k <= Len(s) /\ i \in Int /\ k <= i
  BY <1>1
<1>3. r \in Seq(Descriptors) /\ Len(r) = i /\ \A j \in 1 .. i : r[j] = s[j]
  <2>1. /\ r \in Seq(Descriptors) /\ Len(r) = IF 1 <= i THEN i ELSE 0
        /\ \A j \in 1 .. i : r[j] = s[j]
    BY <1>1, <1>2, FirstSlots
  <2> QED
    BY <1>1, <2>1
<1> HIDE DEF r, k
<1>4. \A q : q \in Slots(SubSeq(r, 1, k)) <=> \E j \in 1 .. k : r[j].ix = q
  BY <1>2, <1>3, FirstSlots
<1>5. \A q : q \in Slots(SubSeq(s, 1, k)) <=> \E j \in 1 .. k : s[j].ix = q
  BY <1>2, FirstSlots
<1>6. want'[t] = r
  BY DEF r
<1>7. \A j \in 1 .. k : r[j] = s[j]
  BY <1>1, <1>3 DEF k
<1>8. \A q : q \in Hooks(t)' <=> \E j \in 1 .. k : s[j].ix = q
  <2>1. Hooks(t)' = Slots(SubSeq(r, 1, k))
    BY <1>3, <1>6 DEF Hooks, Slots, k
  <2> QED
    BY <1>4, <1>7, <2>1
<1>9. Aim(t)' = s[i] /\ \A j \in 1 .. i : Wants(t, s[j])'
  BY <1>1, <1>3, <1>6 DEF Aim, Wants
<1> QED
  BY <1>3, <1>5, <1>6, <1>8, <1>9 DEF k

(* A MultiWait() that finds no message.                                    *)
Hooking(t, s, w) ==
  /\ Runs(t) /\ Stops(s) = {}
  /\ Hook(t, Slots(s))
  /\ state' = [state EXCEPT ![t] = TRUE]
  /\ Begin(t, "multi", s, w, Slots(s))
  /\ UNCHANGED <<TxId, peer>>
  /\ UNCHANGED <<table, high, history>>

(* A MultiWait() that has hooked an Id on every port keeps the invariant,  *)
(* ...                                                                     *)
LEMMA HookingKeeps ==
  ASSUME TypeOK, PInv, NeverAstray, NEW t \in Threads, NEW s \in PortLists, NEW w \in Timeouts,
         Hooking(t, s, w)
  PROVE  TypeOK' /\ PInv'
<1>1. Idle(t) /\ call[t] = "none" /\ high = <<>>
  BY OutsideIdle DEF Hooking, Runs
<1>2. s \in Seq(Descriptors) /\ Len(s) \in Nat /\ Len(s) >= 1 /\ DOMAIN s = 1 .. Len(s)
  BY Listed
<1>3. \A i \in 1 .. Len(s) : s[i] \in Descriptors /\ Local(s[i]) /\ TxId[s[i].ix] = <<>>
  <2>1. \A i \in 1 .. Len(s) : s[i] \in Descriptors
    BY <1>2, ElementOfSeq
  <2> QED
    BY <1>2, <2>1 DEF Hooking, Stops
<1> DEFINE P == Slots(s)
<1>4. UNCHANGED <<Type, Cycle, Owner, PTFreeq, TxId, high, peer, held, moved, astray>>
  BY DEF Hooking, table, history
<1>5. /\ CallTypes' /\ Alone(t) /\ call'[t] = "multi" /\ want'[t] = s
      /\ \A q \in PortIndex : rc'[t][q] = IF q \notin P THEN "unused" ELSE "waiting"
  <2>1. "multi" \in Calls
    BY DEF Calls
  <2>2. Begin(t, "multi", s, w, P)
    BY DEF Hooking
  <2> HIDE DEF P
  <2>3. /\ CallTypes' /\ Alone(t) /\ call'[t] = "multi" /\ want'[t] = s
        /\ \A q \in PortIndex : rc'[t][q] = IF q \notin P THEN "unused"
                                            ELSE IF "multi" \in {"put", "get"} THEN "null" ELSE "waiting"
    BY <1>2, <2>1, <2>2, Begins
  <2> QED
    BY <2>3
<1>6. /\ P \subseteq PortIndex /\ Hooks(t)' = P
      /\ \A q : q \in P <=> \E i \in 1 .. Len(s) : s[i].ix = q
  BY <1>2, <1>5, SlotsOf DEF Hooks, Slots
<1>7. \A q \in P : Here(t, q)' /\ \A x \in Threads : ~In(TxId[q], x)
  <2>1. ASSUME NEW q \in P
        PROVE  Here(t, q)' /\ \A x \in Threads : ~In(TxId[q], x)
    <3>1. PICK i \in 1 .. Len(s) : s[i].ix = q
      BY <1>6
    <3>2. /\ s[i].ix \in PortIndex /\ s[i] = [ix |-> s[i].ix, cy |-> Cycle[s[i].ix]]
          /\ Type[s[i].ix] = "local"
      BY <1>3, ValidHere
    <3>3. Wants(t, s[i])'
      BY <1>5 DEF Wants
    <3>4. Here(t, q)'
      BY <1>4, <3>1, <3>2, <3>3 DEF Here
    <3>5. \A x : ~In(TxId[q], x)
      BY <1>3, <3>1 DEF In
    <3> QED
      BY <3>4, <3>5
  <2> QED
    BY <2>1
<1>8. RxId' = Hooked(RxId, P, t)
  BY DEF Hooking, Hook, Hooked
<1> HIDE DEF P
<1>9. TxId \in Queued /\ RxId \in Queued /\ AllOnce(TxId) /\ AllOnce(RxId) /\ Apart
  BY QueuesTyped DEF PInv, Queues
<1>10. /\ RxId' \in Queued /\ AllOnce(RxId')
       /\ \A r \in PortIndex : \A x : In(RxId'[r], x) <=> In(RxId[r], x) \/ (r \in P /\ x = t)
  <2> DEFINE Q == Hooked(RxId, P, t)
  <2>1. \A r \in PortIndex : ~In(RxId[r], t)
    BY <1>1 DEF Idle
  <2>2. /\ Q \in Queued /\ AllOnce(Q)
        /\ \A r \in PortIndex : \A x : In(Q[r], x) <=> In(RxId[r], x) \/ (r \in P /\ x = t)
    BY <1>9, <2>1, HookQueues
  <2> QED
    BY <1>8, <2>2
<1>11. state' \in [Threads -> BOOLEAN] /\ state'[t] /\ \A x \in Threads \ {t} : state'[x] = state[x]
  BY DEF Hooking, TypeOK
<1>12. TypeOK'
  BY <1>4, <1>5, <1>9, <1>10, <1>11 DEF TypeOK, CallTypes, Queued
<1>13. \A x \in Threads \ {t} : Same(x)
  BY <1>4, <1>5, <1>10, <1>11 DEF Same, SameCall, SamePlace, Alone, AtHead
<1>14. Queues'
  <2>1. Apart'
    BY <1>4, <1>7, <1>9, <1>10 DEF Apart
  <2> QED
    BY <1>4, <1>9, <1>10, <2>1, QueuesSpared DEF PInv, Queues
<1>15. peer[t] = None /\ peer'[t] = None
  BY <1>1, <1>4 DEF PInv, Own, Lengths
<1>16. /\ ~In(high', t) /\ t \notin moved' /\ held'[t] = 0
       /\ \A q \in PortIndex : ~In(TxId'[q], t)
       /\ \A q \in PortIndex : In(RxId'[q], t) <=> q \in P
       /\ \A q \in PortIndex : rc'[t][q] = "waiting" <=> q \in P
       /\ \A u \in Threads : peer[u] # t
  BY <1>1, <1>4, <1>5, <1>10 DEF Idle
<1>17. ~Got(t)'
  BY <1>6, <1>16 DEF Got
<1>18. Own(t)'
  <2>1. OnTx(t)' /\ OnHigh(t)'
    BY <1>5, <1>16 DEF OnTx, OnHigh
  <2>2. OnRx(t)'
    BY <1>5, <1>7, <1>16 DEF OnRx
  <2>3. Multi(t)'
    BY <1>5, <1>6, <1>11, <1>16, <1>17 DEF Multi
  <2>4. Lengths(t)'
    BY <1>2, <1>5, <1>15 DEF Lengths
  <2> QED
    BY <2>1, <2>2, <2>3, <2>4 DEF Own
<1>19. Linked(t)' /\ Holds(t)'
  BY <1>5, <1>16, <1>17 DEF Linked, Holds
<1>20. PInv'
  BY <1>13, <1>14, <1>15, <1>16, <1>18, <1>19, ActorKeeps
<1> QED
  BY <1>12, <1>20

(* A MultiWait() that finds a message at its port i.                       *)
Scanning(t, s, w, i, B) ==
  /\ Runs(t) /\ i \in Stops(s) /\ Local(s[i]) /\ \A j \in Stops(s) : i <= j
  /\ B = {} \/ B = Slots(SubSeq(s, 1, i - 1))
  /\ Hook(t, B)
  /\ TakeTransmitter(s[i].ix)
  /\ peer' = [peer EXCEPT ![t] = Head(TxId[s[i].ix])]
  /\ Begin(t, "multicopy", SubSeq(s, 1, i), w, B)
  /\ UNCHANGED state
  /\ UNCHANGED <<table, high, history>>

(* ... one that has stopped at its i-th port, ...                          *)
LEMMA ScanningKeeps ==
  ASSUME TypeOK, PInv, NeverAstray, NEW t \in Threads, NEW s \in PortLists, NEW w \in Timeouts,
         NEW i, NEW B, Scanning(t, s, w, i, B)
  PROVE  TypeOK' /\ PInv'
<1> DEFINE p == s[i].ix
           d == s[i]
<1>1. Idle(t) /\ call[t] = "none" /\ high = <<>>
  BY OutsideIdle DEF Scanning, Runs
<1>2. s \in Seq(Descriptors) /\ Len(s) \in Nat /\ Len(s) >= 1 /\ DOMAIN s = 1 .. Len(s)
  BY Listed
<1>3. i \in 1 .. Len(s) /\ i \in Nat /\ i >= 1
  BY <1>2 DEF Scanning, Stops
<1>4. \A j \in 1 .. Len(s) : s[j] \in Descriptors
  BY <1>2, ElementOfSeq
<1>5. d \in Descriptors /\ Local(d) /\ p \in PortIndex /\ TxId[p] # <<>>
  BY <1>3, <1>4 DEF Scanning, Stops, Descriptors
<1>6. \A j \in 1 .. i - 1 : j \in 1 .. Len(s) /\ Local(s[j]) /\ TxId[s[j].ix] = <<>>
  <2>1. ASSUME NEW j \in 1 .. i - 1
        PROVE  j \in 1 .. Len(s) /\ j \notin Stops(s)
    <3>1. j \in 1 .. Len(s) /\ ~(i <= j)
      BY <1>2, <1>3
    <3> QED
      BY <3>1 DEF Scanning
  <2> QED
    BY <1>2, <2>1 DEF Stops
<1>7. UNCHANGED <<Type, Cycle, Owner, PTFreeq, high, state, held, moved, astray>>
  BY DEF Scanning, table, history
<1>8. /\ RxId' = Hooked(RxId, B, t) /\ TxId' = Shifted(TxId, p) /\ peer' = [peer EXCEPT ![t] = Head(TxId[p])]
  BY DEF Scanning, Hook, TakeTransmitter, Hooked, Shifted
<1>9. /\ CallTypes' /\ Alone(t) /\ call'[t] = "multicopy" /\ want'[t] = SubSeq(s, 1, i)
      /\ \A q \in PortIndex : rc'[t][q] = IF q \notin B THEN "unused" ELSE "waiting"
  <2> DEFINE r == SubSeq(s, 1, i)
  <2>1. "multicopy" \in Calls
    BY DEF Calls
  <2>2. Begin(t, "multicopy", r, w, B)
    BY DEF Scanning
  <2>3. r \in Seq(Descriptors)
    BY <1>2, <1>3, FirstSlots
  <2> HIDE DEF r
  <2>4. /\ CallTypes' /\ Alone(t) /\ call'[t] = "multicopy" /\ want'[t] = r
        /\ \A q \in PortIndex : rc'[t][q] = IF q \notin B THEN "unused"
                                  ELSE IF "multicopy" \in {"put", "get"} THEN "null" ELSE "waiting"
    BY <2>1, <2>2, <2>3, Begins
  <2> QED
    BY <2>4 DEF r
<1>10. /\ Len(want'[t]) = i /\ Aim(t)' = d
       /\ \A j \in 1 .. i : Wants(t, s[j])'
       /\ \A q : q \in Hooks(t)' <=> \E j \in 1 .. i - 1 : s[j].ix = q
       /\ \A q : q \in Slots(SubSeq(s, 1, i - 1)) <=> \E j \in 1 .. i - 1 : s[j].ix = q
  BY <1>2, <1>3, <1>9, ScannedTo
<1>11. \A q \in B : \E j \in 1 .. i - 1 : s[j].ix = q
  BY <1>10 DEF Scanning
<1>12. \A q \in B : /\ q \in PortIndex /\ q \in Hooks(t)' /\ Here(t, q)'
                    /\ \A x \in Threads : ~In(TxId[q], x)
  <2>1. ASSUME NEW q \in B
        PROVE  q \in PortIndex /\ q \in Hooks(t)' /\ Here(t, q)' /\ \A x \in Threads : ~In(TxId[q], x)
    <3>1. PICK j \in 1 .. i - 1 : s[j].ix = q
      BY <1>11
    <3>2. /\ q \in PortIndex /\ s[j] = [ix |-> q, cy |-> Cycle[q]] /\ Type[q] = "local"
      BY <1>4, <1>6, <3>1, ValidHere
    <3>3. Wants(t, s[j])'
      BY <1>3, <1>10
    <3>4. Here(t, q)'
      BY <1>7, <3>2, <3>3 DEF Here
    <3>5. \A x : ~In(TxId[q], x)
      BY <1>6, <3>1 DEF In
    <3> QED
      BY <1>10, <3>1, <3>2, <3>4, <3>5
  <2> QED
    BY <2>1
<1>13. TxId \in Queued /\ RxId \in Queued /\ AllOnce(TxId) /\ AllOnce(RxId) /\ Apart
  BY QueuesTyped DEF PInv, Queues
<1> HIDE DEF p, d
<1>14. PICK x \in Threads : x = Head(TxId[p])
  BY <1>5, <1>13, ShiftQueue
<1>15. /\ TxId' \in Queued /\ AllOnce(TxId') /\ In(TxId[p], x)
       /\ \A r \in PortIndex : \A y : In(TxId'[r], y) <=> In(TxId[r], y) /\ (r = p => y # x)
  BY <1>5, <1>8, <1>13, <1>14, ShiftQueue
<1>16. /\ RxId' \in Queued /\ AllOnce(RxId')
       /\ \A r \in PortIndex : \A y : In(RxId'[r], y) <=> In(RxId[r], y) \/ (r \in B /\ y = t)
  <2> DEFINE Q == Hooked(RxId, B, t)
  <2>1. \A r \in PortIndex : ~In(RxId[r], t)
    BY <1>1 DEF Idle
  <2>2. /\ Q \in Queued /\ AllOnce(Q)
        /\ \A r \in PortIndex : \A y : In(Q[r], y) <=> In(RxId[r], y) \/ (r \in B /\ y = t)
    BY <1>13, <2>1, HookQueues
  <2> QED
    BY <1>8, <2>2
<1>17. peer' \in [Threads -> Threads \cup {None}] /\ peer'[t] = x /\ \A y \in Threads \ {t} : peer'[y] = peer[y]
  BY <1>8, <1>14 DEF TypeOK
<1>18. TypeOK'
  BY <1>7, <1>9, <1>15, <1>16, <1>17 DEF TypeOK, CallTypes, Queued
<1>19. /\ ~In(high', t) /\ ~state'[t] /\ t \notin moved' /\ held'[t] = 0
       /\ \A q \in PortIndex : ~In(TxId'[q], t)
       /\ \A q \in PortIndex : In(RxId'[q], t) <=> q \in B
       /\ \A q \in PortIndex : rc'[t][q] = "waiting" <=> q \in B
       /\ \A q \in PortIndex : rc'[t][q] # "null"
       /\ \A u \in Threads : peer[u] # t
       /\ \A q \in PortIndex : ~In(TxId[q], t)
  BY <1>1, <1>7, <1>9, <1>15, <1>16 DEF Idle
<1>20. t # x /\ peer[t] = None
  BY <1>1, <1>5, <1>15, <1>19 DEF PInv, Own, Lengths
<1>21. \A y \in Threads \ {t} : SameCall(y)
  BY <1>7, <1>9, <1>17 DEF SameCall, Alone
<1>22. \A y \in Threads \ {t, x} : Same(y)
  BY <1>7, <1>15, <1>16, <1>21 DEF Same, SamePlace, AtHead
<1>23. Less(x)
  BY <1>7, <1>15, <1>16, <1>20, <1>21 DEF Less, AtHead
<1>24. Queues'
  <2>1. Apart'
    BY <1>12, <1>13, <1>15, <1>16 DEF Apart
  <2> QED
    BY <1>7, <1>13, <1>15, <1>16, <2>1, QueuesSpared DEF PInv, Queues
<1>25. ~Got(t)'
  <2>1. \A q \in Hooks(t)' : q \in PortIndex
    <3>1. \A j \in 1 .. i - 1 : s[j].ix \in PortIndex
      BY <1>4, <1>6 DEF Descriptors
    <3> QED
      BY <1>10, <3>1
  <2> QED
    BY <1>19, <2>1 DEF Got
<1>26. Own(t)'
  <2>1. OnTx(t)' /\ OnHigh(t)'
    BY <1>9, <1>19 DEF OnTx, OnHigh
  <2>2. OnRx(t)'
    BY <1>9, <1>12, <1>19 DEF OnRx
  <2>3. Multi(t)'
    BY <1>9, <1>12, <1>19, <1>25 DEF Multi
  <2>4. Lengths(t)'
    <3>1. peer'[t] # None
      BY <1>17, ThreadAssumption
    <3> QED
      BY <1>3, <1>9, <1>10, <3>1 DEF Lengths
  <2> QED
    BY <2>1, <2>2, <2>3, <2>4 DEF Own
<1>27. Linked(t)' /\ Holds(t)'
  BY <1>9, <1>19 DEF Linked, Holds
<1>28. Own(x) /\ call[x] = "put" /\ ~In(high, x) /\ rc[x][p] = "null" /\ Wants(x, d)
       /\ \A q \in PortIndex : In(TxId[q], x) => q = p
  <2>1. Own(x) /\ call[x] = "put" /\ ~In(high, x) /\ rc[x][p] = "null" /\ Here(x, p)
    BY <1>5, <1>15 DEF PInv, Own, OnTx
  <2>2. \A y : Here(y, p) <=> Wants(y, d)
    BY <1>5, ValidHere DEF p, d
  <2>3. ASSUME NEW q \in PortIndex, In(TxId[q], x)
        PROVE  q = p
    <3>1. Here(x, q) /\ Len(want[x]) = 1
      BY <2>1, <2>3 DEF Own, OnTx, Lengths
    <3>2. [ix |-> q, cy |-> Cycle[q]] = [ix |-> p, cy |-> Cycle[p]]
      BY <2>1, <3>1, Only DEF Here
    <3>3. [ix |-> q, cy |-> Cycle[q]].ix = q /\ [ix |-> p, cy |-> Cycle[p]].ix = p
      OBVIOUS
    <3> QED
      BY <3>2, <3>3
  <2> QED
    BY <2>1, <2>2, <2>3
<1>29. Copier(t)'
  <2>1. call'[x] = "put" /\ rc'[x][p] = "null" /\ ~In(high', x) /\ \A q \in PortIndex : ~In(TxId'[q], x)
    BY <1>7, <1>9, <1>15, <1>20, <1>28 DEF Alone
  <2>2. Transmitter(x, p)'
    BY <2>1 DEF Transmitter
  <2>3. Wants(x, d)'
    BY <1>9, <1>20, <1>28 DEF Wants, Alone
  <2>4. Aim(t)' = d /\ Aim(t)'.ix = p
    BY <1>10 DEF p, d
  <2> QED
    BY <1>9, <1>17, <2>2, <2>3, <2>4 DEF Copier
<1>30. Linked(x)'
  <2>1. TakenFrom(x)'
    BY <1>9, <1>17 DEF TakenFrom, Taken
  <2>2. call'[x] = "put"
    BY <1>9, <1>20, <1>28 DEF Alone
  <2> QED
    BY <2>1, <2>2 DEF Linked
<1>31. ASSUME NEW u \in Threads, peer[u] = x
       PROVE  Aim(u).ix # Aim(t)'.ix
  <2>1. Copier(u) /\ peer[u] # None /\ Aim(t)'.ix = p
    BY <1>10, <1>31, ThreadAssumption DEF PInv, p, d
  <2> QED
    BY <1>5, <1>15, <1>28, <1>31, <2>1 DEF Copier, Receiver, Transmitter
<1>32. PInv'
  BY <1>17, <1>19, <1>20, <1>22, <1>23, <1>24, <1>26, <1>27, <1>29, <1>30, <1>31, TakingKeeps
<1> QED
  BY <1>18, <1>32

(* ... and so every MultiWait().                                           *)
LEMMA MultiWaitKeeps ==
  ASSUME TypeOK, PInv, NeverAstray, NEW t \in Threads, NEW s \in PortLists, NEW w \in MultiTimeouts,
         MultiWait(t, s, w)
  PROVE  TypeOK' /\ PInv'
<1>1. w \in Timeouts
  BY MultiAssumption
<1>2. CASE Hooking(t, s, w)
  BY <1>1, <1>2, HookingKeeps
<1>3. CASE \E i, B : Scanning(t, s, w, i, B)
  BY <1>1, <1>3, ScanningKeeps
<1>4. Hooking(t, s, w) \/ \E i, B : Scanning(t, s, w, i, B)
  <2>1. ASSUME NEW i \in Stops(s), \A j \in Stops(s) : i <= j, Local(s[i]),
               Hook(t, IF w = "poll" THEN {} ELSE Slots(SubSeq(s, 1, i - 1))),
               TakeTransmitter(s[i].ix), peer' = [peer EXCEPT ![t] = Head(TxId[s[i].ix])],
               Begin(t, "multicopy", SubSeq(s, 1, i), w, IF w = "poll" THEN {} ELSE Slots(SubSeq(s, 1, i - 1))),
               UNCHANGED state, Runs(t), UNCHANGED <<table, high, history>>
        PROVE  \E B : Scanning(t, s, w, i, B)
    <3>1. PICK B : B = IF w = "poll" THEN {} ELSE Slots(SubSeq(s, 1, i - 1))
      OBVIOUS
    <3>2. Scanning(t, s, w, i, B)
      BY <2>1, <3>1 DEF Scanning
    <3> QED
      BY <3>2
  <2> QED
    BY <2>1 DEF MultiWait, Hooking
<1> QED
  BY <1>2, <1>3, <1>4

(* The end of a copy in MultiWait(), with its cleanup, keeps the           *)
(* invariant.                                                              *)
LEMMA MultiCopyEndKeeps ==
  ASSUME TypeOK, PInv, NeverAstray, NEW t \in Threads, MultiCopyEnd(t)
  PROVE  TypeOK' /\ PInv'
<1> DEFINE hooked == {p \in Hooks(t) : rc[t][p] = "waiting"}
<1>1. call[t] = "multicopy" /\ high = <<>>
  BY DEF MultiCopyEnd, Copied
<1>2. PICK x \in Threads : peer[t] = x /\ t # x
  BY <1>1, OtherSide
<1>3. Hooks(t) = Slots(SubSeq(want[t], 1, Len(want[t]) - 1))
  BY <1>1 DEF Hooks
<1>4. /\ high' = <<x>> /\ moved' = moved \cup {x} /\ peer' = [peer EXCEPT ![t] = None]
      /\ RxId' = Unhooked(RxId, hooked, {t}) /\ Finish(t)
      /\ UNCHANGED <<Type, Cycle, Owner, PTFreeq, TxId, state, held>>
  BY <1>2, <1>3 DEF MultiCopyEnd, Copied, CleanUp, Unhooked, table
<1>5. /\ astray' \in {"no", "queue", "message"}
      /\ NeverAstray' => \A p \in hooked : In(RxId[p], t)
  BY <1>3 DEF MultiCopyEnd, CleanUp, NeverAstray, TypeOK
<1>6. CallTypes' /\ Alone(t) /\ call'[t] = "none"
  BY <1>4, Finishes
<1>7. Own(t) /\ Holds(t)
  BY DEF PInv
<1>8. \A p \in PortIndex : ~In(TxId[p], t) /\ (In(RxId[p], t) => p \in hooked)
  BY <1>1, <1>7 DEF Own, OnTx, OnRx, Multi
<1>9. NeverAstray' => held[t] = 0 /\ \A u \in Threads : peer[u] # t
  <2>1. ASSUME NeverAstray'
        PROVE  ~Crossed(t) /\ \A u \in Threads : peer[u] # t
    <3>1. \A p \in PortIndex : p \in Hooks(t) /\ rc[t][p] = "waiting" => In(RxId[p], t)
      BY <1>5, <2>1
    <3> QED
      BY <1>1, <3>1, NoCopier
  <2>2. held[t] > 0 => Crossed(t)
    BY <1>1, <1>7 DEF Holds
  <2>3. held[t] \in Nat
    BY DEF TypeOK
  <2> QED
    BY <2>1, <2>2, <2>3
<1> HIDE DEF hooked
<1>10. TxId \in Queued /\ RxId \in Queued /\ AllOnce(TxId) /\ AllOnce(RxId)
  BY QueuesTyped
<1>11. /\ RxId' \in Queued /\ AllOnce(RxId')
       /\ \A r \in PortIndex : \A y : In(RxId'[r], y) <=> In(RxId[r], y) /\ ~(r \in hooked /\ y \in {t})
  <2> DEFINE R == Unhooked(RxId, hooked, {t})
  <2>1. /\ R \in Queued /\ AllOnce(R)
        /\ \A r \in PortIndex : \A y : In(R[r], y) <=> In(RxId[r], y) /\ ~(r \in hooked /\ y \in {t})
    BY <1>10, UnhookQueues
  <2> QED
    BY <1>4, <2>1
<1>12. peer' \in [Threads -> Threads \cup {None}] /\ peer'[t] = None /\ \A y \in Threads \ {t} : peer'[y] = peer[y]
  BY <1>4 DEF TypeOK
<1>13. high' \in Seq(Threads \cup {Clock}) /\ Once(high') /\ \A y : In(high', y) <=> y = x
  <2>1. x \in Threads \cup {Clock}
    OBVIOUS
  <2> QED
    BY <1>4, <2>1, OnlyOne
<1>14. TypeOK'
  BY <1>4, <1>5, <1>6, <1>11, <1>12, <1>13 DEF TypeOK, CallTypes, Queued
<1>15. \A y \in Threads : ~In(high, y) /\ ~AtHead(y)
  BY <1>1, NoneOnHigh
<1>16. \A y \in Threads \ {t, x} : Same(y)
  BY <1>4, <1>6, <1>11, <1>12, <1>13, <1>15 DEF Same, SameCall, SamePlace, Alone
<1>17. Queues'
  <2>1. Apart'
    BY <1>4, <1>11 DEF PInv, Queues, Apart
  <2> QED
    BY <1>4, <1>10, <1>11, <1>13, <2>1, QueuesSpared DEF PInv
<1>18. Own(t)' /\ Linked(t)' /\ (held'[t] = 0 => Holds(t)')
  <2>1. ~In(high', t) /\ ~state'[t] /\ t \notin moved'
    BY <1>1, <1>2, <1>4, <1>7, <1>13 DEF Own, OnHigh, Multi
  <2>2. \A p \in PortIndex : ~In(TxId'[p], t) /\ ~In(RxId'[p], t)
    BY <1>4, <1>8, <1>11
  <2> QED
    BY <1>6, <1>12, <2>1, <2>2, BecomesQuiet
<1>19. /\ Own(x)' /\ Linked(x)' /\ Holds(x)' /\ Copier(x)'
       /\ \A u \in Threads \ {t} : peer[u] # x
  <2>1. /\ call[t] \in {"getcopy", "multicopy"} /\ x \in moved' /\ high' = <<x>> /\ peer[t] = x
        /\ UNCHANGED <<Type, Cycle, TxId>>
        /\ \A p \in PortIndex : In(RxId'[p], x) => In(RxId[p], x)
        /\ call'[x] = call[x] /\ want'[x] = want[x] /\ rc'[x] = rc[x] /\ state'[x] = state[x]
        /\ peer'[x] = peer[x] /\ held'[x] = held[x]
    BY <1>1, <1>2, <1>4, <1>6, <1>11, <1>12 DEF Alone
  <2> QED
    BY <2>1, TransmitterTold
<1>20. Kept(x)
  BY <1>2, <1>6, <1>12 DEF Kept, Alone
<1>21. NeverAstray' => Holds(t)' /\ \A u \in Threads : peer[u] # t
  BY <1>4, <1>9, <1>18
<1>22. PInv'
  BY <1>2, <1>12, <1>16, <1>17, <1>18, <1>19, <1>20, <1>21, EndingKeeps
<1> QED
  BY <1>14, <1>22

(* A step that changes none of this.                                       *)
LEMMA NoneTouched ==
  ASSUME TypeOK, PInv, NeverAstray, \A x \in Threads : Same(x), Queues'
  PROVE  PInv'
<1>1. ASSUME NEW x \in Threads
      PROVE  Own(x)' /\ Linked(x)' /\ Holds(x)' /\ Copier(x)'
  <2>1. Same(x) /\ Own(x) /\ Linked(x) /\ Holds(x) /\ Copier(x) /\ Lengths(x)
    BY DEF PInv, Own
  <2>2. \A u \in Threads : Kept(u) /\ Less(u)
    BY SameLess DEF Same, SameCall, Kept
  <2> QED
    BY <2>1, <2>2, OwnSpared, LinkedSpared, HoldsSpared, CopierSpared
<1>2. Sole'
  <2>1. \A u \in Threads : peer'[u] = peer[u] /\ Aim(u)' = Aim(u)
    BY DEF Same, SameCall, Aim
  <2> QED
    BY <2>1 DEF PInv, Sole
<1> QED
  BY <1>1, <1>2 DEF PInv

(* A time-out that comes due takes nobody off a queue yet.                 *)
LEMMA TimePassesKeeps ==
  ASSUME TypeOK, PInv, NeverAstray, NEW t \in Threads, TimePasses(t)
  PROVE  TypeOK' /\ PInv'
<1>1. /\ endtime' = [endtime EXCEPT ![t] = "past"]
      /\ UNCHANGED <<Type, Cycle, Owner, PTFreeq, TxId, RxId, high, call, want, rc, state, peer, held, moved, astray>>
  BY DEF TimePasses, table, history
<1>2. TypeOK'
  BY <1>1 DEF TypeOK
<1>3. \A x \in Threads : Same(x)
  BY <1>1 DEF Same, SameCall, SamePlace, AtHead
<1>4. Queues'
  BY <1>1 DEF PInv, Queues, Apart, FreeList
<1> QED
  BY <1>2, <1>3, <1>4, NoneTouched

(* The time-out pass becomes runnable.                                     *)
LEMMA ClockWakesKeeps ==
  ASSUME TypeOK, PInv, NeverAstray, ClockWakes
  PROVE  TypeOK' /\ PInv'
<1>1. /\ ~In(high, Clock) /\ high' = Append(high, Clock)
      /\ UNCHANGED <<Type, Cycle, Owner, PTFreeq, TxId, RxId, call, want, rc, endtime, state, peer, held, moved, astray>>
  BY DEF ClockWakes, table, waits, history
<1>2. high \in Seq(Threads \cup {Clock}) /\ Once(high) /\ Clock \in Threads \cup {Clock}
  BY DEF TypeOK, PInv, Queues
<1>3. /\ high' \in Seq(Threads \cup {Clock}) /\ Once(high')
      /\ \A x : In(high', x) <=> In(high, x) \/ x = Clock
  BY <1>1, <1>2, AppendList
<1>4. high # <<>> => Head(high') = Head(high) /\ high' # <<>>
  BY <1>1, <1>2, AppendHead
<1>5. TypeOK'
  BY <1>1, <1>3 DEF TypeOK
<1>6. \A x \in Threads : Same(x)
  BY <1>1, <1>3, <1>4, ThreadAssumption DEF Same, SameCall, SamePlace, AtHead
<1>7. Queues'
  BY <1>1, <1>3 DEF PInv, Queues, Apart, FreeList
<1> QED
  BY <1>5, <1>6, <1>7, NoneTouched

----------------------------------------------------------------------------
(* The types and the invariant hold at first, ...                          *)
LEMMA InitSound ==
  ASSUME Init
  PROVE  TypeOK /\ PInv
<1>1. PTFreeq \in Seq(PortIndex) /\ Once(PTFreeq) /\ \A x : In(PTFreeq, x) <=> x \in PortIndex
  BY FiniteAssumption, OrderList DEF Init
<1>2. <<>> \in Seq(Threads) /\ <<>> \in Seq(Threads \cup {Clock}) /\ <<>> \in Seq(Descriptors)
      /\ Once(<<>>) /\ \A x : ~In(<<>>, x)
  BY DEF Once, In
<1>3. TypeOK
  <2>1. 1 \in 1 .. LastCycle + 1
    BY CycleAssumption
  <2> QED
    BY <1>1, <1>2, <2>1 DEF Init, TypeOK, Calls, Results
<1>4. Queues
  BY <1>1, <1>2 DEF Init, Queues, Apart, FreeList
<1>5. ASSUME NEW x \in Threads
      PROVE  Own(x) /\ Linked(x) /\ Copier(x) /\ Holds(x)
  <2>1. /\ call[x] = "none" /\ peer[x] = None /\ held[x] = 0 /\ ~state[x] /\ x \notin moved /\ ~In(high, x)
        /\ \A p \in PortIndex : ~In(TxId[p], x) /\ ~In(RxId[p], x)
    BY <1>2 DEF Init
  <2>2. OnTx(x) /\ OnRx(x) /\ OnHigh(x)
    BY <2>1 DEF OnTx, OnRx, OnHigh
  <2>3. Multi(x) /\ Lengths(x)
    BY <2>1 DEF Multi, Lengths
  <2> QED
    BY <2>1, <2>2, <2>3 DEF Own, Linked, Copier, Holds
<1>6. Sole
  BY DEF Init, Sole
<1> QED
  BY <1>3, <1>4, <1>5, <1>6 DEF PInv

(* ... and every step keeps them.                                          *)
LEMMA NextKeeps ==
  ASSUME TypeOK, PInv, [Next]_vars
  PROVE  TypeOK' /\ PInv'
<1>1. CASE UNCHANGED vars
  <2>1. UNCHANGED <<Type, Cycle, Owner, PTFreeq, TxId, RxId, high, call, want, rc, endtime, state, peer, held, moved, astray>>
    BY <1>1 DEF vars, table, waits, history
  <2>2. TypeOK'
    BY <2>1 DEF TypeOK
  <2>3. Queues'
    BY <2>1 DEF PInv, Queues, Apart, FreeList
  <2>4. \A x \in Threads : Same(x)
    BY <2>1 DEF Same, SameCall, SamePlace, AtHead
  <2>5. CASE NeverAstray
    BY <2>2, <2>3, <2>4, <2>5, NoneTouched
  <2>6. CASE ~NeverAstray
    <3>1. ~NeverAstray'
      BY <2>1, <2>6 DEF NeverAstray
    <3>2. ASSUME NEW x \in Threads
          PROVE  Own(x)' /\ Linked(x)'
      <4>1. Same(x) /\ Own(x) /\ Linked(x) /\ \A u \in Threads : Kept(u)
        BY <2>4 DEF PInv, Same, SameCall, Kept
      <4> QED
        BY <4>1, SameLess, OwnSpared, LinkedSpared
    <3> QED
      BY <2>2, <2>3, <3>1, <3>2 DEF PInv
  <2> QED
    BY <2>5, <2>6
<1>2. CASE Next
  <2>1. NeverAstray
    BY <1>2 DEF Next, NeverAstray
  <2>2. CASE ClockWakes
    BY <2>1, <2>2, ClockWakesKeeps
  <2>3. CASE TimeoutHandler
    BY <2>1, <2>3, TimeoutHandlerKeeps
  <2>4. ASSUME NEW t \in Threads, Program(t)
        PROVE  TypeOK' /\ PInv'
    <3>1. CASE NewPort(t)
      BY <2>1, <3>1, NewPortKeeps
    <3>2. ASSUME NEW d \in Descriptors, Issued(d), FreePort(t, d) \/ AbortPort(t, d)
          PROVE  TypeOK' /\ PInv'
      BY <2>1, <3>2, FreePortKeeps, AbortPortKeeps
    <3>3. ASSUME NEW d \in Descriptors, Issued(d), NEW w \in Timeouts, PutMsg(t, d, w) \/ GetMsg(t, d, w)
          PROVE  TypeOK' /\ PInv'
      BY <2>1, <3>3, PutMsgKeeps, GetMsgKeeps
    <3>4. ASSUME NEW s \in PortLists, NEW w \in MultiTimeouts, MultiWait(t, s, w)
          PROVE  TypeOK' /\ PInv'
      BY <2>1, <3>4, MultiWaitKeeps
    <3> QED
      BY <2>4, <3>1, <3>2, <3>3, <3>4 DEF Program
  <2>5. ASSUME NEW t \in Threads, NewPortReturns(t) \/ Returns(t)
        PROVE  TypeOK' /\ PInv'
    BY <2>1, <2>5, NewPortReturnsKeeps, PutMsgReturnsKeeps, GetMsgReturnsKeeps, MultiWaitReturnsKeeps DEF Returns
  <2>6. ASSUME NEW t \in Threads, CopyEnd(t) \/ TimePasses(t)
        PROVE  TypeOK' /\ PInv'
    BY <2>1, <2>6, PutCopyEndKeeps, GetCopyEndKeeps, MultiCopyEndKeeps, TimePassesKeeps DEF CopyEnd
  <2> QED
    BY <1>2, <2>2, <2>3, <2>4, <2>5, <2>6 DEF Next
<1> QED
  BY <1>1, <1>2

----------------------------------------------------------------------------
(* What follows from the invariant.                                        *)
LEMMA EitherQueue ==
  ASSUME TypeOK, NEW p \in PortIndex
  PROVE  \A x : In(TxId[p] \o RxId[p], x) <=> In(TxId[p], x) \/ In(RxId[p], x)
<1>1. TxId[p] \in Seq(Threads) /\ RxId[p] \in Seq(Threads)
  BY DEF TypeOK
<1> QED
  BY <1>1, ConcatList

(* By the invariant every thread that waits can be reached, ...            *)
LEMMA WaitersReachable ==
  ASSUME TypeOK, PInv
  PROVE  Reachable
<1> SUFFICES ASSUME NEW t \in Threads, call[t] \in {"put", "get", "multi"}, ~In(high, t)
             PROVE  Copying(t) \/ \E p \in PortIndex : In(TxId[p] \o RxId[p], t)
  BY DEF Reachable
<1>1. Own(t) /\ Linked(t)
  BY DEF PInv
<1>2. \A p : SentTo(t, p) => Copying(t)
  BY DEF SentTo, Sent, Copying
<1>3. TakenFrom(t) => Copying(t)
  BY DEF TakenFrom, Taken, Copying
<1>4. \A p \in PortIndex : In(TxId[p], t) \/ In(RxId[p], t) => In(TxId[p] \o RxId[p], t)
  BY EitherQueue
<1>5. CASE call[t] = "put"
  BY <1>1, <1>3, <1>4, <1>5 DEF Linked
<1>6. CASE call[t] = "get"
  BY <1>1, <1>2, <1>4, <1>6 DEF Linked
<1>7. CASE call[t] = "multi"
  <2>1. want[t] \in Seq(Descriptors) /\ Len(want[t]) \in Nat /\ Len(want[t]) >= 1
    BY <1>1, <1>7, LenProperties DEF TypeOK, Own, Lengths
  <2>2. 1 \in 1 .. Len(want[t]) /\ want[t][1] \in Descriptors
    BY <2>1, ElementOfSeq
  <2>3. want[t][1].ix \in PortIndex /\ want[t][1].ix \in Hooks(t)
    BY <1>7, <2>1, <2>2, SlotsOf DEF Hooks, Descriptors
  <2>4. rc[t][want[t][1].ix] = "waiting"
    BY <1>1, <1>7, <2>3 DEF Own, Multi
  <2>5. In(RxId[want[t][1].ix], t) \/ SentTo(t, want[t][1].ix)
    BY <1>1, <1>7, <2>3, <2>4 DEF Linked
  <2> QED
    BY <1>2, <1>4, <2>3, <2>5
<1> QED
  BY <1>5, <1>6, <1>7

(* ... Ids on queues are of calls that wait, ...                           *)
LEMMA IdsOfCallers ==
  ASSUME TypeOK, PInv
  PROVE  IdLive
<1>1. ASSUME NEW p \in PortIndex
      PROVE  Once(TxId[p]) /\ Once(RxId[p])
  BY DEF PInv, Queues
<1>2. ASSUME NEW p \in PortIndex, NEW t \in Threads
      PROVE  /\ In(TxId[p], t) => call[t] = "put" /\ ~In(high, t)
             /\ In(RxId[p], t) => \/ call[t] = "get" /\ ~In(high, t)
                                  \/ call[t] \in {"multi", "multicopy"} /\ rc[t][p] = "waiting"
  BY DEF PInv, Own, OnTx, OnRx
<1> QED
  BY <1>1, <1>2 DEF IdLive

(* ... each message in a buffer is accounted for, ...                      *)
LEMMA MessagesAccounted ==
  ASSUME TypeOK, PInv
  PROVE  Accounted
<1> SUFFICES ASSUME NEW t \in Threads, held[t] > 0, astray = "no"
             PROVE  \/ held[t] = 1 /\ In(high, t) /\ call[t] = "get" /\ rc[t][want[t][1].ix] = "null"
                    \/ held[t] = 1 /\ In(high, t) /\ call[t] = "multi" /\ ~Failed(t, Slots(want[t]))
                    \/ Crossed(t)
  BY DEF Accounted
<1>1. Holds(t) /\ Own(t)
  BY DEF PInv, NeverAstray
<1>2. CASE call[t] = "get"
  BY <1>1, <1>2 DEF Holds
<1>3. CASE call[t] = "multi"
  <2>1. held[t] = 1 /\ Got(t) /\ Hooks(t) = Slots(want[t])
    BY <1>1, <1>3 DEF Holds, Hooks
  <2>2. AtHead(t) /\ ~Failed(t, Hooks(t))
    BY <1>1, <1>3, <2>1 DEF Own, Multi
  <2>3. In(high, t)
    <3>1. high \in Seq(Threads \cup {Clock}) /\ high # <<>> /\ Head(high) = t
      BY <2>2 DEF TypeOK, AtHead
    <3> QED
      BY <3>1, TailList
  <2> QED
    BY <1>3, <2>1, <2>2, <2>3
<1>4. CASE call[t] = "multicopy"
  BY <1>1, <1>4 DEF Holds
<1>5. CASE call[t] \notin {"get", "multi", "multicopy"}
  BY <1>1, <1>5 DEF Holds
<1> QED
  BY <1>2, <1>3, <1>4, <1>5

(* ... senders are told the truth, ...                                     *)
LEMMA SendersTold ==
  ASSUME TypeOK, PInv
  PROVE  Truthful
BY DEF PInv, Own, OnHigh, Truthful

(* ... and nobody meets another incarnation of a port.                     *)
LEMMA OneIncarnation ==
  ASSUME TypeOK, PInv
  PROVE  SameIncarnation
<1>1. ASSUME NEW p \in PortIndex, NEW t \in Threads, In(TxId[p] \o RxId[p], t)
      PROVE  Type[p] = "local" /\ Wants(t, [ix |-> p, cy |-> Cycle[p]])
  <2>1. In(TxId[p], t) \/ In(RxId[p], t)
    BY <1>1, EitherQueue
  <2> QED
    BY <2>1 DEF PInv, Own, OnTx, OnRx, Here
<1>2. ASSUME NeverAstray, NEW t \in Threads, peer[t] # None
      PROVE  Wants(peer[t], want[t][Len(want[t])])
  <2>1. Copier(t)
    BY <1>2 DEF PInv
  <2> QED
    BY <1>2, <2>1 DEF Copier, Aim
<1> QED
  BY <1>1, <1>2 DEF SameIncarnation

----------------------------------------------------------------------------
(* What a step can do to a thread's call and to its buffer.                *)
LEMMA Begun ==
  ASSUME TypeOK, NEW t \in Threads, NEW c, NEW ds, NEW d, NEW P, Begin(t, c, ds, d, P)
  PROVE  call'[t] = c /\ \A x \in Threads \ {t} : call'[x] = call[x]
BY DEF Begin, TypeOK

(* A step goes on with one call of a thread, begins one or ends it.        *)
LEMMA CallsBeginAndEnd ==
  ASSUME TypeOK, Next, NEW x \in Threads
  PROVE  call'[x] = call[x] \/ call[x] = "none" \/ call'[x] = "none"
<1>1. CASE ClockWakes \/ TimeoutHandler
  BY <1>1 DEF ClockWakes, TimeoutHandler, waits
<1>2. ASSUME NEW t \in Threads, Program(t)
      PROVE  call'[x] = call[x] \/ call[x] = "none" \/ call'[x] = "none"
  <2>1. CASE NewPort(t)
    <3>1. call[t] = "none" /\ \E c, ds, d, P : Begin(t, c, ds, d, P)
      BY <2>1 DEF NewPort, Runs
    <3> QED
      BY <3>1, Begun
  <2>2. ASSUME NEW d, FreePort(t, d) \/ AbortPort(t, d)
        PROVE  call' = call
    BY <2>2 DEF FreePort, AbortPort
  <2>3. ASSUME NEW d, NEW w, PutMsg(t, d, w)
        PROVE  call[t] = "none" /\ \E c, ds, f, P : Begin(t, c, ds, f, P)
    <3>1. call[t] = "none" /\ (Begin(t, "putcopy", <<d>>, "forever", {}) \/ Begin(t, "put", <<d>>, w, {d.ix}))
      BY <2>3 DEF PutMsg, Runs
    <3> QED
      BY <3>1
  <2>4. ASSUME NEW d, NEW w, GetMsg(t, d, w)
        PROVE  call[t] = "none" /\ \E c, ds, f, P : Begin(t, c, ds, f, P)
    <3>1. call[t] = "none" /\ (Begin(t, "getcopy", <<d>>, "forever", {}) \/ Begin(t, "get", <<d>>, w, {d.ix}))
      BY <2>4 DEF GetMsg, Runs
    <3> QED
      BY <3>1
  <2>5. ASSUME NEW s, NEW w, MultiWait(t, s, w)
        PROVE  call[t] = "none" /\ \E c, ds, f, P : Begin(t, c, ds, f, P)
    BY <2>5 DEF MultiWait, Runs
  <2>6. (\E c, ds, f, P : Begin(t, c, ds, f, P)) => call'[x] = call[x] \/ x = t
    BY Begun
  <2> QED
    BY <1>2, <2>1, <2>2, <2>3, <2>4, <2>5, <2>6 DEF Program
<1>3. ASSUME NEW t \in Threads, Finish(t)
      PROVE  call'[x] = call[x] \/ call'[x] = "none"
  <2>1. Begin(t, "none", <<>>, "forever", {})
    BY <1>3 DEF Finish
  <2> QED
    BY <2>1, Begun
<1>4. ASSUME NEW t \in Threads, NewPortReturns(t) \/ Returns(t)
      PROVE  Finish(t)
  BY <1>4 DEF NewPortReturns, Returns, PutMsgReturns, GetMsgReturns, MultiWaitReturns, CleanUp
<1>5. ASSUME NEW t \in Threads, CopyEnd(t) \/ TimePasses(t)
      PROVE  Finish(t) \/ PutCopyEnd(t) \/ call' = call
  BY <1>5 DEF CopyEnd, GetCopyEnd, MultiCopyEnd, CleanUp, TimePasses
<1>6. ASSUME NEW t \in Threads, PutCopyEnd(t)
      PROVE  call'[x] = call[x] \/ call'[x] = "none"
  BY <1>6 DEF PutCopyEnd, TypeOK
<1> QED
  BY <1>1, <1>2, <1>3, <1>4, <1>5, <1>6 DEF Next

(* Messages get into a buffer by copies and out by returns.                *)
LEMMA MessagesAreCopied ==
  ASSUME TypeOK, PInv, Next, NEW x \in Threads
  PROVE  held'[x] = held[x] \/ call'[x] = "none" \/ \E t \in Threads : PutCopyEnd(t) /\ peer[t] = x
<1>1. CASE ClockWakes \/ TimeoutHandler
  BY <1>1 DEF ClockWakes, TimeoutHandler, history
<1>2. ASSUME NEW t \in Threads, Program(t)
      PROVE  held' = held
  BY <1>2 DEF Program, NewPort, FreePort, AbortPort, PutMsg, GetMsg, MultiWait, history
<1>3. ASSUME NEW t \in Threads, NewPortReturns(t) \/ PutMsgReturns(t) \/ TimePasses(t) \/ GetCopyEnd(t) \/ MultiCopyEnd(t)
      PROVE  held' = held
  BY <1>3 DEF NewPortReturns, PutMsgReturns, TimePasses, GetCopyEnd, MultiCopyEnd, history
<1>4. ASSUME NEW t \in Threads, GetMsgReturns(t) \/ MultiWaitReturns(t)
      PROVE  held'[x] = held[x] \/ call'[x] = "none"
  <2>1. call'[t] = "none"
    <3>1. Begin(t, "none", <<>>, "forever", {})
      BY <1>4 DEF GetMsgReturns, MultiWaitReturns, CleanUp, Finish
    <3> QED
      BY <3>1, Begun
  <2>2. held' = held \/ held' = [held EXCEPT ![t] = @ - 1]
    BY <1>4 DEF GetMsgReturns, MultiWaitReturns
  <2> QED
    BY <2>1, <2>2 DEF TypeOK
<1>5. ASSUME NEW t \in Threads, PutCopyEnd(t), peer[t] # x
      PROVE  held'[x] = held[x]
  BY <1>5 DEF PutCopyEnd, TypeOK
<1> QED
  BY <1>1, <1>2, <1>3, <1>4, <1>5 DEF Next, Returns, CopyEnd

(* Only the cleanup of MultiWait() goes astray, ...                        *)
LEMMA GoesAstray ==
  ASSUME Next
  PROVE  astray' = astray \/ \E t \in Threads : MultiCopyEnd(t) \/ MultiWaitReturns(t)
<1>1. CASE ClockWakes \/ TimeoutHandler
  BY <1>1 DEF ClockWakes, TimeoutHandler, history
<1>2. ASSUME NEW t \in Threads, Program(t)
      PROVE  astray' = astray
  BY <1>2 DEF Program, NewPort, FreePort, AbortPort, PutMsg, GetMsg, MultiWait, history
<1>3. ASSUME NEW t \in Threads, NewPortReturns(t) \/ PutMsgReturns(t) \/ GetMsgReturns(t) \/ TimePasses(t)
                                \/ GetCopyEnd(t) \/ PutCopyEnd(t)
      PROVE  astray' = astray
  BY <1>3 DEF NewPortReturns, PutMsgReturns, GetMsgReturns, TimePasses, GetCopyEnd, PutCopyEnd, history
<1> QED
  BY <1>1, <1>2, <1>3 DEF Next, Returns, CopyEnd

(* The three parts of MultiWaitHolds, for a step.                          *)
LEMMA CrossedByCopy ==
  ASSUME TypeOK, PInv, TypeOK', PInv', Next, NEW t \in Threads, Crossed(t)', ~Crossed(t)
  PROVE  Copying(t)'
<1>1. Linked(t)'
  BY DEF PInv
<1>2. PICK p \in PortIndex : /\ call'[t] \in {"multi", "multicopy"}
                             /\ rc'[t][p] = "waiting" /\ ~In(RxId'[p], t)
  BY DEF Crossed
<1>3. SentTo(t, p)' \/ (call'[t] = "multicopy" /\ held'[t] > 0)
  BY <1>1, <1>2 DEF Linked
<1>4. SentTo(t, p)' => Copying(t)'
  BY DEF SentTo, Sent, Copying
<1>5. ASSUME call'[t] = "multicopy", held'[t] > 0
      PROVE  FALSE
  <2>1. NeverAstray /\ Holds(t)
    BY DEF Next, NeverAstray, PInv
  <2>2. call[t] \in {"none", "multicopy"}
    BY <1>5, CallsBeginAndEnd
  <2>3. held[t] \in Nat
    BY DEF TypeOK
  <2>4. held[t] = 0
    BY <2>1, <2>2, <2>3 DEF Holds
  <2>5. PICK u \in Threads : PutCopyEnd(u) /\ peer[u] = t
    BY <1>5, <2>4, MessagesAreCopied
  <2>6. call[u] = "putcopy" /\ call'[u] = "none"
    BY <2>5 DEF PutCopyEnd, TypeOK
  <2>7. Receiver(t, Aim(u).ix) /\ Aim(u).ix \in PortIndex
    BY <2>1, <2>5, <2>6, OtherSide
  <2>8. call[t] = "multicopy" /\ ~state[t]
    BY <2>2, <2>7 DEF Receiver, PInv, Own, Multi
  <2>9. Crossed(t)
    BY <2>7, <2>8 DEF Receiver, Crossed
  <2> QED
    BY <2>9
<1> QED
  BY <1>3, <1>4, <1>5

(* ... off a queue only in a crossed call, ...                             *)
LEMMA LostOnQueue ==
  ASSUME TypeOK, PInv, Next, astray' = "queue"
  PROVE  \E t \in Threads : Crossed(t)
<1>1. PICK t \in Threads : MultiCopyEnd(t) \/ MultiWaitReturns(t)
  BY GoesAstray DEF Next
<1>2. call[t] \in {"multi", "multicopy"}
  BY <1>1 DEF MultiCopyEnd, MultiWaitReturns
<1>3. ~state[t]
  <2>1. Own(t)
    BY DEF PInv
  <2>2. call[t] = "multi" => In(high, t)
    BY <1>1, FirstLeaves DEF MultiCopyEnd, MultiWaitReturns
  <2> QED
    BY <1>2, <2>1, <2>2 DEF Own, Multi, OnHigh
<1>4. \E P, taken : CleanUp(t, P, taken) /\ P \subseteq PortIndex
  <2>1. want[t] \in Seq(Descriptors) /\ Len(want[t]) \in Nat
    BY LenProperties DEF TypeOK
  <2>2. Slots(want[t]) \subseteq PortIndex
    BY <2>1, SlotsOf
  <2>3. SubSeq(want[t], 1, Len(want[t]) - 1) \in Seq(Descriptors)
    BY <2>1, FirstSlots
  <2>4. Slots(SubSeq(want[t], 1, Len(want[t]) - 1)) \subseteq PortIndex
    BY <2>3, SlotsOf
  <2> QED
    BY <1>1, <2>2, <2>4 DEF MultiCopyEnd, MultiWaitReturns
<1>5. PICK P, taken : CleanUp(t, P, taken) /\ P \subseteq PortIndex
  BY <1>4
<1>6. \E p \in P : rc[t][p] = "waiting" /\ ~In(RxId[p], t)
  BY <1>5 DEF CleanUp, Next
<1> QED
  BY <1>2, <1>3, <1>5, <1>6 DEF Crossed

(* ... and with a message only if another port of its list has failed.     *)
LEMMA LostMessage ==
  ASSUME TypeOK, PInv, Next, astray' = "message"
  PROVE  \E t \in Threads : call[t] = "multicopy" /\ Failed(t, Slots(want[t]))
<1>1. PICK t \in Threads : MultiCopyEnd(t) \/ MultiWaitReturns(t)
  BY GoesAstray DEF Next
<1>2. CASE MultiCopyEnd(t)
  <2> DEFINE P == Slots(SubSeq(want[t], 1, Len(want[t]) - 1))
  <2>1. call[t] = "multicopy" /\ CleanUp(t, P, TRUE)
    BY <1>2 DEF MultiCopyEnd
  <2>2. P \subseteq Slots(want[t])
    <3>1. want[t] \in Seq(Descriptors) /\ Len(want[t]) \in Nat
      BY LenProperties DEF TypeOK
    <3>2. \A q : q \in P <=> \E i \in 1 .. Len(want[t]) - 1 : want[t][i].ix = q
      BY <3>1, FirstSlots
    <3> HIDE DEF P
    <3>3. \A i \in 1 .. Len(want[t]) - 1 : i \in 1 .. Len(want[t])
      BY <3>1
    <3>4. \A q : q \in Slots(want[t]) <=> \E i \in 1 .. Len(want[t]) : want[t][i].ix = q
      BY <3>1, SlotsOf
    <3> QED
      BY <3>2, <3>3, <3>4
  <2> HIDE DEF P
  <2>3. Failed(t, P)
    BY <2>1 DEF CleanUp, Next
  <2> QED
    BY <2>1, <2>2, <2>3 DEF Failed
<1>3. CASE MultiWaitReturns(t)
  <2> DEFINE P == Slots(want[t])
             got == \E p \in P : rc[t][p] = "null"
  <2>1. call[t] = "multi" /\ CleanUp(t, P, got)
    BY <1>3 DEF MultiWaitReturns
  <2> HIDE DEF P
  <2>2. got /\ Failed(t, P)
    BY <2>1 DEF CleanUp, Next
  <2>3. Hooks(t) = P /\ Own(t)
    BY <2>1 DEF Hooks, PInv, P
  <2>4. FALSE
    BY <2>1, <2>2, <2>3 DEF Own, Multi, Got
  <2> QED
    BY <2>4
<1> QED
  BY <1>1, <1>2, <1>3

----------------------------------------------------------------------------
(* The theorems.                                                           *)
LEMMA Invariant == Spec => [](TypeOK /\ PInv)
<1>1. Init => TypeOK /\ PInv
  BY InitSound
<1>2. (TypeOK /\ PInv) /\ [Next]_vars => (TypeOK /\ PInv)'
  BY NextKeeps
<1> QED
  BY <1>1, <1>2, PTL DEF Spec

(* Every variable of the ports has its type; no call is given a negative   *)
(* number of messages.                                                     *)
THEOREM PortTypesCorrect == Spec => []TypeOK
BY Invariant, PTL

(* A waiting thread is always on a queue, in a copy or on its way back, a  *)
(* port has one kind of waiter, and an Id on a queue belongs to a waiter.  *)
THEOREM NobodyIsLost == Spec => []NobodyLost
<1>1. TypeOK /\ PInv => NobodyLost
  BY Sides, IdsOfCallers, WaitersReachable DEF NobodyLost
<1> QED
  BY <1>1, Invariant, PTL

(* The results of PutMsg(), GetMsg() and MultiWait() agree with the copies *)
(* that were made, through every time-out and abort.                       *)
THEOREM ResultsAreTrue == Spec => []ResultsTrue
<1>1. TypeOK /\ PInv => ResultsTrue
  BY MessagesAccounted, SendersTold DEF ResultsTrue
<1> QED
  BY <1>1, Invariant, PTL

(* No Id and no copy outlives the port it was meant for.                   *)
THEOREM IncarnationsKeptApart == Spec => []SameIncarnation
<1>1. TypeOK /\ PInv => SameIncarnation
  BY OneIncarnation
<1> QED
  BY <1>1, Invariant, PTL

(* The free list of the port table holds the free slots, each once.        *)
THEOREM FreeListCorrect == Spec => []FreeList
<1>1. TypeOK /\ PInv => FreeList
  BY DEF PInv, Queues
<1> QED
  BY <1>1, Invariant, PTL

(* MultiWait() goes astray only when a PutMsg() crosses it, and loses a    *)
(* message only when a port of its list fails during its own copy.         *)
THEOREM MultiWaitFaults == Spec => MultiWaitHolds
<1> DEFINE A == /\ \A t \in Threads : Crossed(t)' /\ ~Crossed(t) => Copying(t)'
                /\ astray' = "queue" => \E t \in Threads : Crossed(t)
                /\ astray' = "message" => \E t \in Threads : call[t] = "multicopy" /\ Failed(t, Slots(want[t]))
<1>1. (TypeOK /\ PInv) /\ (TypeOK /\ PInv)' /\ [Next]_vars => [A]_vars
  <2> SUFFICES ASSUME TypeOK, PInv, TypeOK', PInv', Next
               PROVE  A
    OBVIOUS
  <2>1. \A t \in Threads : Crossed(t)' /\ ~Crossed(t) => Copying(t)'
    BY CrossedByCopy
  <2>2. astray' = "queue" => \E t \in Threads : Crossed(t)
    BY LostOnQueue
  <2>3. astray' = "message" => \E t \in Threads : call[t] = "multicopy" /\ Failed(t, Slots(want[t]))
    BY LostMessage
  <2> QED
    BY <2>1, <2>2, <2>3
<1>2. MultiWaitHolds <=> [][A]_vars
  BY PTL DEF MultiWaitHolds
<1> HIDE DEF A
<1> QED
  BY <1>1, <1>2, Invariant, PTL DEF Spec
=============================================================================
