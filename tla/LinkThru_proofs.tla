-------------------------- MODULE LinkThru_proofs --------------------------
(***************************************************************************)
(* Direct transfers between links, for any number of source links and any  *)
(* sizes of the messages: where the guardian and DoubleBufferProcess() of a*)
(* transfer are at any time, that they meet again after every failure both *)
(* have seen, and that the two are the relay of Relay.tla.                 *)
(***************************************************************************)
EXTENDS LinkThru, Lists_proofs

----------------------------------------------------------------------------
(* The inductive invariant: where each thread of a transfer is.            *)

(* t is running or on the run queue.                                       *)
Ready(t) == cpu = t \/ In(high, t)

(* t waits in LinkTx() or LinkRx(), or is about to see the result.         *)
InLinkTx(t) ==
  \/ txThread = t /\ ~Ready(t)
  \/ txThread = None /\ Ready(t)

InLinkRx(t, s) ==
  \/ rxThread[s] = t /\ ~Ready(t)
  \/ rxThread[s] = None /\ Ready(t)

(* t waits in DBRendezvous(), to go on at p.                               *)
Meets(t, p) == pc[t] = p /\ bi.sync = t /\ ~Ready(t)

(* A guardian that forwards nothing.                                       *)
Resting(s) ==
  /\ \/ pc[s] = "idle" /\ ~Ready(s)
     \/ pc[s] = "message" /\ Ready(s)
  /\ rxThread[s] = None /\ Rx(s) \notin late /\ buf[s] = 0

OthersRest(c) == \A s \in Sources : s # c => Resting(s)

(* The program.                                                            *)
ProgramOK ==
  /\ \/ pc[Local] = "idle"  /\ ~Ready(Local)   /\ ~waiting /\ txUser # Local
     \/ pc[Local] = "queue" /\ ~Ready(Local)   /\ waiting  /\ txUser \notin {None, Local}
     \/ pc[Local] = "queue" /\ Ready(Local)    /\ ~waiting /\ txUser = Local /\ txThread = None
     \/ pc[Local] = "local" /\ InLinkTx(Local) /\ ~waiting /\ txUser = Local
  /\ buf[Local] = 0

(* The process between two long messages.                                  *)
ProcessHome ==
  /\ \/ pc[Process] = "home" /\ Ready(Process) /\ bi.sync = None
     \/ Meets(Process, "enter") /\ bi.status = {} /\ Tx(Process) \notin late
  /\ buf[Process] = 0

(* Nothing is forwarded.                                                   *)
Idle ==
  /\ txUser \in {None, Local}
  /\ txUser = None => txThread = None
  /\ n = 0 /\ got = 0 /\ out = <<>> /\ fault = "none"
  /\ ProcessHome

(* All has gone out, or a transfer failed.                                 *)
Complete == fault = "seen" \/ Len(out) = n + 2

(* SingleBuffer() of s.                                                    *)
ShortOK(s) ==
  /\ txUser = s /\ ProcessHome /\ n \in Short
  /\ fault = "seen" => pc[s] = "done"
  /\ fault # "missed"
  /\ rxThread[s] # None => pc[s] = "forward"
  /\ txThread # None => pc[s] \in {"single", "next"}
  /\ \/ /\ pc[s] = "single" /\ InLinkTx(s)
        /\ Rx(s) \notin late /\ (Tx(s) \in late => Ready(s))
        /\ got = 0 /\ buf[s] = 0
        /\ Len(out) = IF Ready(s) /\ Tx(s) \notin late THEN 1 ELSE 0
     \/ /\ pc[s] = "next" /\ InLinkTx(s)
        /\ Rx(s) \notin late /\ (Tx(s) \in late => Ready(s))
        /\ IF Ready(s) /\ Tx(s) \notin late THEN Len(out) = got + 2 /\ buf[s] = 0
                                            ELSE Len(out) = got + 1 /\ buf[s] = got
     \/ /\ pc[s] = "forward" /\ InLinkRx(s, s)
        /\ Tx(s) \notin late /\ (Rx(s) \in late => Ready(s))
        /\ IF Ready(s) /\ Rx(s) \notin late
             THEN Len(out) = got + 1 /\ buf[s] = got /\ got > 0
             ELSE Len(out) = got + 2 /\ buf[s] = 0 /\ got < n
     \/ pc[s] = "done" /\ Ready(s) /\ Complete

(* A long message of s: the guardian and the process meet at the start.    *)
MeetingOK(s) ==
  /\ txThread = None /\ rxThread[s] = None /\ Rx(s) \notin late
  /\ got = 0 /\ out = <<>> /\ buf[s] = 0 /\ buf[Process] = 0
  /\ bi.size = n /\ bi.send = n /\ fault = "none"
  /\ \/ Meets(s, "go") /\ pc[Process] = "home" /\ Ready(Process)
     \/ /\ bi.status = {} /\ Tx(Process) \notin late
        /\ \/ /\ pc[s] = "go" /\ Ready(s) /\ bi.sync = None
              /\ pc[Process] = "enter" /\ Ready(Process)
           \/ pc[s] = "go" /\ Ready(s) /\ Meets(Process, "read")
           \/ Meets(s, "proto") /\ pc[Process] = "enter" /\ Ready(Process)

(* t has left the loop, and waits for the other if it has come first.      *)
Leaving(t) == pc[t] = "final" /\ cpu = t
Over(t)    == Meets(t, IF t = Process THEN "home" ELSE "done") /\ buf[t] = 0
Ended(t)   == Leaving(t) \/ Over(t)

(* The pieces that have gone out and those still to go are the message.    *)
Counted == bi.send + Len(out) = n + 2

(* w has the turn to send.                                                 *)
Writing(w) ==
  /\ txThread # None => pc[w] \in {"header", "body", "sent"}
  /\ "tx" \in bi.status => Ended(w)
  /\ Tx(Process) \in late =>
       "tx" \in bi.status \/ (Ready(w) /\ pc[w] \in {"header", "body", "sent"})
  /\ \/ /\ pc[w] = "proto" /\ w # Process /\ Ready(w)
        /\ buf[w] = 0 /\ out = <<>> /\ bi.send = n
     \/ /\ pc[w] \in {"header", "body"} /\ w # Process /\ InLinkTx(w)
        /\ buf[w] = 0 /\ bi.send = n
        /\ Len(out) = IF Ready(w) /\ Tx(Process) \notin late
                        THEN (IF pc[w] = "header" THEN 1 ELSE 2)
                        ELSE (IF pc[w] = "header" THEN 0 ELSE 1)
     \/ /\ (pc[w] = "enter" /\ cpu = w) \/ Meets(w, "read")
        /\ buf[w] = 0 /\ bi.status = {} /\ bi.send > 0 /\ Counted
     \/ /\ pc[w] = "write" /\ Ready(w)
        /\ buf[w] > 0 /\ buf[w] + 1 = Len(out) /\ bi.send > 0 /\ Counted
     \/ /\ pc[w] = "sent" /\ InLinkTx(w) /\ bi.send > 0
        /\ IF Ready(w) /\ Tx(Process) \notin late
             THEN buf[w] = 0 /\ Len(out) + bi.send = n + 3
             ELSE buf[w] > 0 /\ buf[w] + 1 = Len(out) /\ Counted
     \/ /\ Ended(w) /\ buf[w] <= Len(out)
        /\ bi.status = {} => buf[w] = 0 /\ bi.send = 0 /\ Len(out) = n + 2

(* r has the turn to receive from s.                                       *)
Reading(r, s) ==
  /\ rxThread[s] # None => pc[r] = "got"
  /\ "rx" \in bi.status => Ended(r)
  /\ Rx(s) \in late => "rx" \in bi.status \/ (Ready(r) /\ pc[r] = "got")
  /\ \/ pc[r] = "read" /\ Ready(r) /\ buf[r] = 0 /\ got + bi.size = n
     \/ /\ pc[r] = "got" /\ InLinkRx(r, s) /\ bi.size > 0
        /\ IF Ready(r) /\ Rx(s) \notin late THEN buf[r] = got /\ got > 0 /\ got + bi.size = n + 1
                                            ELSE buf[r] = 0 /\ got + bi.size = n
     \/ Meets(r, "write") /\ bi.status = {} /\ buf[r] = got /\ got > 0 /\ got + bi.size = n
     \/ /\ Ended(r) /\ buf[r] \in {0, got}
        /\ bi.status = {} => buf[r] = 0 /\ bi.size = 0 /\ got = n

(* They are one piece apart.  Ahead is what is left after the piece that w *)
(* sends or has sent last.                                                 *)
Ahead(w) == IF pc[w] \in {"write", "sent"} THEN bi.send - 1 ELSE bi.send

InTurn(w, r) ==
  /\ pc[r] \in {"read", "got"} /\ "tx" \notin bi.status => bi.size = Ahead(w)
  /\ Meets(r, "write") => bi.size = Ahead(w) - 1
  /\ Ended(r) /\ bi.status = {} => Ahead(w) = 0
  /\ buf[w] # 0 /\ buf[r] # 0 => buf[w] < buf[r]
  /\ buf[r] # 0 => Len(out) < buf[r] + 2
  /\ Len(out) <= got + 2

TurnOK(w, r, s) ==
  /\ Writing(w) /\ Reading(r, s) /\ InTurn(w, r)
  /\ bi.sync \in {None, w, r}
  /\ bi.sync = w => Meets(w, "read") \/ Over(w)
  /\ bi.sync = r => Meets(r, "write") \/ Over(r)
  /\ fault = "none" <=> bi.status = {}

(* Both have left the loop: the guardian is about to end the transfer.     *)
EndOK(s) ==
  /\ pc[s] = "done" /\ Ready(s) /\ buf[s] = 0 /\ ProcessHome
  /\ txThread = None /\ rxThread[s] = None /\ Complete

LongOK(s) ==
  /\ txUser = Process /\ bi.source = s /\ n \in Long /\ fault # "missed"
  /\ \/ MeetingOK(s)
     \/ TurnOK(s, Process, s) \/ TurnOK(Process, s, s)
     \/ EndOK(s)

OneOnly == cpu # None => ~In(high, cpu)

InPhase ==
  \/ Idle /\ OthersRest(None)
  \/ \E s \in Sources : (ShortOK(s) \/ LongOK(s)) /\ OthersRest(s)

Deep == OneOnly /\ ProgramOK /\ InPhase

----------------------------------------------------------------------------
(* What the lemmas on the actions share.                                   *)

Inv == TypeOK /\ (InStep => Deep) /\ (InStep \/ OwnsLink)

(* No transfer begins on a link while another is in progress there.        *)
Apart ==
  /\ txThread' # txThread => None \in {txThread, txThread'}
  /\ \A s \in Sources : rxThread'[s] # rxThread[s] => None \in {rxThread[s], rxThread'[s]}

(* The step is one of the relay's, or changes nothing that it has.         *)
Carries == Through!Next \/ UNCHANGED Through!vars

Correct ==
  /\ TypeOK' /\ (InStep' => Deep') /\ (InStep' \/ OwnsLink')
  /\ Apart /\ Carries

(* The running thread suspends.                                            *)
LEMMA Stops ==
  ASSUME TypeOK, OneOnly, NEW t \in Threads, cpu = t, cpu' = None, high' = high
  PROVE  OneOnly' /\ \A x \in Threads : Ready(x)' <=> Ready(x) /\ x # t
  BY NameAssumption DEF TypeOK, OneOnly, Ready, Threads, Pair

(* A thread that waited is resumed.                                        *)
LEMMA Resumes ==
  ASSUME TypeOK, OneOnly, NEW t \in Threads, ~Ready(t), cpu' = cpu, high' = Append(high, t)
  PROVE  /\ high' \in Seq(Threads) /\ Once(high')
         /\ OneOnly' /\ \A x \in Threads : Ready(x)' <=> Ready(x) \/ x = t
<1>1. /\ Append(high, t) \in Seq(Threads)
      /\ \A x : In(Append(high, t), x) <=> In(high, x) \/ x = t
      /\ Once(high) /\ ~In(high, t) => Once(Append(high, t))
  BY AppendList DEF TypeOK
<1> QED
  BY <1>1 DEF TypeOK, OneOnly, Ready

(* The step resumes t and suspends the running thread u.                   *)
LEMMA Hands ==
  ASSUME TypeOK, OneOnly, NEW t \in Threads, NEW u \in Threads, cpu = u, ~Ready(t), cpu' = None, high' = Append(high, t)
  PROVE  /\ high' \in Seq(Threads) /\ Once(high')
         /\ OneOnly' /\ \A x \in Threads : Ready(x)' <=> (Ready(x) /\ x # u) \/ x = t
<1>1. /\ Append(high, t) \in Seq(Threads)
      /\ \A x : In(Append(high, t), x) <=> In(high, x) \/ x = t
      /\ Once(high) /\ ~In(high, t) => Once(Append(high, t))
  BY AppendList DEF TypeOK
<1> QED
  BY <1>1, NameAssumption DEF TypeOK, OneOnly, Ready, Threads, Pair

(* A step that changes nothing the relay has.                              *)
LEMMA Stutters ==
  ASSUME UNCHANGED <<txUser, n, buf, got, out, fault>>,
         bi'.source = bi.source \/ txUser # Process
  PROVE  Carries
  BY NameAssumption DEF Carries, Through!vars, Carrier, Inside

(* A failure.                                                              *)
LEMMA Fails ==
  ASSUME txUser \in Pair, txUser = Process => bi.source \in Sources,
         UNCHANGED <<txUser, n, buf, got, out, bi.source>>, fault' # "none"
  PROVE  Carries
<1>1. Carrier # None /\ UNCHANGED <<Carrier, Inside>>
  BY NameAssumption DEF Carrier, Inside, Pair
<1>2. Through!Fail
  BY <1>1 DEF Through!Fail
<1> QED
  BY <1>2 DEF Carries, Through!Next

(* Every deadline is that of an Id.                                        *)
LEMMA IdsMade ==
  /\ \A s \in Sources : Rx(s) \in Ids
  /\ \A o \in Threads : Tx(o) \in Ids
  BY DEF Ids

(* No two Ids are the same.                                                *)
LEMMA IdsDiffer ==
  ASSUME NEW s, NEW t
  PROVE  /\ Rx(s) # Tx(t)
         /\ Rx(s) = Rx(t) <=> s = t
         /\ Tx(s) = Tx(t) <=> s = t
  BY DEF Rx, Tx

(* The numbers.                                                            *)
LEMMA Numbers ==
  ASSUME TypeOK
  PROVE  /\ Len(out) \in Nat /\ n \in Nat /\ got \in Nat /\ got <= n
         /\ bi.size \in Nat /\ bi.send \in Nat
         /\ \A x \in Threads : buf[x] \in Nat /\ buf[x] <= got
<1>1. n \in Nat
  BY SizeAssumption DEF TypeOK
<1> QED
  BY <1>1 DEF TypeOK

(* A guardian with a message is not one of those that rest.                *)
LEMMA CarrierBusy ==
  ASSUME NEW s \in Sources, ShortOK(s) \/ LongOK(s)
  PROVE  pc[s] \notin {"idle", "message"}
  BY NameAssumption
  DEF ShortOK, LongOK, MeetingOK, TurnOK, EndOK, Writing, Reading, Ended, Leaving, Over, Meets

(* In the loop `final' is a point nobody waits at.                         *)
LEMMA FinalRuns ==
  ASSUME NEW s \in Sources, NEW w \in Pair, NEW r \in Pair, TurnOK(w, r, s)
  PROVE  \A x \in {w, r} : pc[x] \in {"final", "enter"} => cpu = x
  BY NameAssumption
  DEF TurnOK, Writing, Reading, Ended, Leaving, Over, Meets, Pair

(* A step that changes no one's part in the transfer, but for guardians    *)
(* that rest and go on resting: the phase is the same.                     *)
LEMMA PhaseKept ==
  ASSUME InPhase,
         UNCHANGED <<txUser, txThread, bi, n, got, out, fault>>,
         NEW A \in SUBSET Sources,
         \A a \in A : pc[a] \in {"idle", "message"} /\ Resting(a)',
         \A x \in Pair \ A : /\ pc'[x] = pc[x] /\ buf'[x] = buf[x]
                             /\ Ready(x)' <=> Ready(x)
                             /\ cpu = x => cpu' = x,
         \A s \in Sources \ A : rxThread'[s] = rxThread[s] /\ (Rx(s) \in late' <=> Rx(s) \in late),
         \A x \in Pair \ A : Tx(x) \in late' <=> Tx(x) \in late
  PROVE  InPhase'
<1> USE NameAssumption DEF Pair
<1>1. ASSUME NEW c, OthersRest(c) PROVE OthersRest(c)'
  BY <1>1 DEF OthersRest, Resting
<1>2. ProcessHome => ProcessHome'
  BY DEF ProcessHome, Meets
<1>3. ASSUME Idle PROVE Idle'
  BY <1>3, <1>2 DEF Idle
<1>4. ASSUME NEW s \in Sources, ShortOK(s) PROVE ShortOK(s)'
  <2>1. s \notin A
    BY <1>4, CarrierBusy
  <2> QED
    BY <1>4, <1>2, <2>1 DEF ShortOK, InLinkTx, InLinkRx, Complete
<1>5. ASSUME NEW s \in Sources, LongOK(s) PROVE LongOK(s)'
  <2>1. s \notin A /\ Process \notin A
    BY <1>5, CarrierBusy
  <2>2. ASSUME MeetingOK(s) PROVE MeetingOK(s)'
    BY <2>1, <2>2 DEF MeetingOK, Meets
  <2>3. ASSUME NEW w \in {s, Process}, NEW r \in {s, Process}, TurnOK(w, r, s)
        PROVE  TurnOK(w, r, s)'
    <3>1. \A x \in {w, r}, p \in Points : Meets(x, p)' <=> Meets(x, p)
      BY <2>1 DEF Meets
    <3>2. \A x \in {w, r} : pc[x] \in {"final", "enter"} => cpu = x /\ cpu' = x
      BY <2>1, <2>3, FinalRuns
    <3>3. \A x \in {w, r} : Ended(x)' <=> Ended(x)
      BY <2>1, <3>1, <3>2 DEF Ended, Over, Leaving, Points
    <3>4. Writing(w)'
      BY <2>1, <2>3, <3>1, <3>2, <3>3 DEF TurnOK, Writing, InLinkTx, Counted, Points
    <3>5. Reading(r, s)'
      BY <2>1, <2>3, <3>1, <3>3 DEF TurnOK, Reading, InLinkRx, Points
    <3>6. InTurn(w, r)'
      BY <2>1, <2>3, <3>1, <3>3 DEF TurnOK, InTurn, Ahead, Points
    <3> QED
      BY <2>1, <2>3, <3>1, <3>3, <3>4, <3>5, <3>6 DEF TurnOK, Meets, Over
  <2>4. ASSUME EndOK(s) PROVE EndOK(s)'
    BY <1>2, <2>1, <2>4 DEF EndOK, Complete
  <2> QED
    BY <1>5, <2>2, <2>3, <2>4 DEF LongOK
<1> QED
  BY <1>1, <1>3, <1>4, <1>5, CarrierBusy DEF InPhase

(* The pieces inside, of which there are two at most.                      *)
LEMMA AscendingOf ==
  /\ Ascending({}) = <<>>
  /\ \A p \in Nat : Ascending({p}) = <<p>>
  /\ \A p, q \in Nat : p < q => Ascending({p, q}) = <<p, q>>
<1>1. Ascending({}) = <<>>
  <2>1. Cardinality({}) = 0
    BY FS_EmptySet
  <2> QED
    BY <2>1 DEF Ascending
<1>2. ASSUME NEW p \in Nat PROVE Ascending({p}) = <<p>>
  <2>1. Cardinality({p}) = 1
    BY FS_Singleton
  <2>2. PICK T : T = {p}
    OBVIOUS
  <2>3. <<p>> \in [1 .. 1 -> T] /\ \A f \in [1 .. 1 -> T] : f = <<p>>
    BY <2>2
  <2>4. \A i, j \in 1 .. 1 : ~(i < j)
    OBVIOUS
  <2>5. Ascending(T) = CHOOSE f \in [1 .. 1 -> T] : \A i, j \in 1 .. 1 : i < j => f[i] < f[j]
    BY <2>1, <2>2 DEF Ascending
  <2> QED
    BY <2>2, <2>3, <2>4, <2>5
<1>3. ASSUME NEW p \in Nat, NEW q \in Nat, p < q PROVE Ascending({p, q}) = <<p, q>>
  <2>1. Cardinality({p, q}) = 2
    <3>1. IsFiniteSet({p}) /\ Cardinality({p}) = 1
      BY FS_Singleton
    <3>2. {p} \cup {q} = {p, q} /\ q \notin {p}
      BY <1>3
    <3> QED
      BY <3>1, <3>2, FS_AddElement
  <2>2. PICK T : T = {p, q}
    OBVIOUS
  <2>3. \A f \in [1 .. 2 -> T] : (\A i, j \in 1 .. 2 : i < j => f[i] < f[j]) <=> f = <<p, q>>
    <3> SUFFICES ASSUME NEW f \in [1 .. 2 -> T]
                 PROVE  (\A i, j \in 1 .. 2 : i < j => f[i] < f[j]) <=> f = <<p, q>>
      OBVIOUS
    <3>1. (\A i, j \in 1 .. 2 : i < j => f[i] < f[j]) <=> f[1] < f[2]
      BY <2>2
    <3>2. f[1] \in {p, q} /\ f[2] \in {p, q}
      BY <2>2
    <3>3. f[1] < f[2] <=> f[1] = p /\ f[2] = q
      BY <3>2, <1>3
    <3>4. f = <<p, q>> <=> f[1] = p /\ f[2] = q
      OBVIOUS
    <3> QED
      BY <3>1, <3>3, <3>4
  <2>4. <<p, q>> \in [1 .. 2 -> T]
    BY <2>2
  <2>5. Ascending(T) = CHOOSE f \in [1 .. 2 -> T] : \A i, j \in 1 .. 2 : i < j => f[i] < f[j]
    BY <2>1, <2>2 DEF Ascending
  <2> QED
    BY <2>2, <2>3, <2>4, <2>5
<1> QED
  BY <1>1, <1>2, <1>3

Contents(b) == Ascending({b[t] : t \in Pair} \ {0})

(* What two threads hold, the earlier piece first.                         *)
LEMMA ContentsAre ==
  ASSUME NEW b \in [Threads -> Nat], NEW c \in Pair, NEW d \in Pair,
         \A x \in Pair \ {c, d} : b[x] = 0
  PROVE  /\ b[c] = 0 /\ b[d] = 0 => Contents(b) = <<>>
         /\ b[c] = 0 /\ b[d] # 0 => Contents(b) = <<b[d]>>
         /\ b[c] # 0 /\ b[d] = 0 => Contents(b) = <<b[c]>>
         /\ b[c] # 0 /\ b[c] < b[d] => Contents(b) = <<b[c], b[d]>>
         /\ c = d /\ b[c] # 0 => Contents(b) = <<b[c]>>
<1>1. PICK T : T = {b[t] : t \in Pair} \ {0}
  OBVIOUS
<1>2. \A p : p \in T <=> p # 0 /\ (p = b[c] \/ p = b[d])
  BY <1>1
<1>3. b[c] \in Nat /\ b[d] \in Nat
  BY DEF Threads
<1>4. /\ b[c] = 0 /\ b[d] = 0 => T = {}
      /\ b[c] = 0 /\ b[d] # 0 => T = {b[d]}
      /\ b[c] # 0 /\ b[d] = 0 => T = {b[c]}
      /\ b[c] # 0 /\ b[c] < b[d] => T = {b[c], b[d]}
      /\ c = d /\ b[c] # 0 => T = {b[c]}
  BY <1>2, <1>3
<1>5. Contents(b) = Ascending(T)
  BY <1>1 DEF Contents
<1> QED
  BY <1>3, <1>4, <1>5, AscendingOf

(* The first piece, and the second.                                        *)
LEMMA AppendsAre ==
  ASSUME NEW p \in Nat, NEW g \in Nat
  PROVE  /\ Append(<<>>, g) = <<g>> /\ Len(<<>>) = 0
         /\ Append(<<p>>, g) = <<p, g>> /\ Len(<<p>>) = 1
<1>1. Append(<<>>, g) = <<g>>
  OBVIOUS
<1>2. Append(<<p>>, g) = <<p, g>>
  <2>0. PICK q : q = <<p>>
    OBVIOUS
  <2>1. q \in Seq(Nat)
    BY <2>0
  <2>2. PICK a : a = Append(q, g)
    OBVIOUS
  <2>3. a \in Seq(Nat) /\ Len(a) = 2 /\ a[1] = p /\ a[2] = g
    <3>1. /\ Append(q, g) \in Seq(Nat) /\ Len(Append(q, g)) = Len(q) + 1
          /\ \A i \in 1 .. Len(q) : Append(q, g)[i] = q[i]
          /\ Append(q, g)[Len(q) + 1] = g
      BY <2>1, AppendProperties
    <3>2. Len(q) = 1 /\ q[1] = p
      BY <2>0
    <3> QED
      BY <2>2, <3>1, <3>2
  <2>4. PICK b : b = <<p, g>>
    OBVIOUS
  <2>5. b \in Seq(Nat) /\ Len(b) = 2 /\ b[1] = p /\ b[2] = g
    BY <2>4
  <2>6. a = b
    <3>1. \A i \in 1 .. Len(a) : i = 1 \/ i = 2
      BY <2>3
    <3> QED
      BY <2>3, <2>5, <3>1, SeqEqual
  <2> QED
    BY <2>0, <2>2, <2>4, <2>6
<1>3. Len(<<>>) = 0
  OBVIOUS
<1>4. Len(<<p>>) = 1
  OBVIOUS
<1> QED BY <1>1, <1>2, <1>3, <1>4

(* The guardians that forward nothing go on doing so.                      *)
LEMMA RestKept ==
  ASSUME NEW c, OthersRest(c),
         \A x \in Sources \ {c} : /\ pc'[x] = pc[x] /\ buf'[x] = buf[x]
                                  /\ Ready(x)' <=> Ready(x)
                                  /\ rxThread'[x] = rxThread[x]
                                  /\ Rx(x) \in late' <=> Rx(x) \in late
  PROVE  OthersRest(c)'
  BY DEF OthersRest, Resting

(* The program while a guardian or nobody has the link.                    *)
LEMMA ProgramKept ==
  ASSUME ProgramOK, txUser # Local, txUser' # Local,
         txUser' # None \/ ~waiting,
         UNCHANGED <<waiting, buf[Local], pc[Local]>>, Ready(Local)' <=> Ready(Local)
  PROVE  ProgramOK'
  BY DEF ProgramOK, InLinkTx

(* Whoever runs in the loop is one of the two that carry a message.        *)
LEMMA InLoop ==
  ASSUME TypeOK, InPhase, NEW t \in Pair, cpu = t,
         pc[t] \in {"proto", "header", "body", "read", "got", "write", "sent", "final"}
  PROVE  \E s \in Sources : \E w \in {s, Process}, r \in {s, Process} :
           /\ w # r /\ t \in {w, r} /\ TurnOK(w, r, s) /\ OthersRest(s)
           /\ txUser = Process /\ bi.source = s /\ n \in Long /\ fault # "missed"
           /\ pc[t] \in {"proto", "header", "body", "write", "sent"} => t = w
           /\ pc[t] \in {"read", "got"} => t = r
           /\ bi.sync # t
<1> USE NameAssumption DEF Threads, Pair
<1>1. ASSUME Idle, OthersRest(None) PROVE FALSE
  BY <1>1 DEF Idle, ProcessHome, Meets, Ready, OthersRest, Resting
<1>2. ASSUME NEW s \in Sources, ShortOK(s), OthersRest(s) PROVE FALSE
  BY <1>2 DEF ShortOK, ProcessHome, Meets, Ready, OthersRest, Resting
<1>3. PICK s \in Sources : LongOK(s) /\ OthersRest(s)
  BY <1>1, <1>2 DEF InPhase
<1>4. t \in {s, Process}
  BY <1>3 DEF OthersRest, Resting, Ready
<1>5. PICK w \in {s, Process}, r \in {s, Process} : w # r /\ TurnOK(w, r, s)
  BY <1>3, <1>4 DEF LongOK, MeetingOK, EndOK, ProcessHome, Meets, Ready
<1>6. t \in {w, r}
  BY <1>4, <1>5
<1>7. /\ pc[t] \in {"proto", "header", "body", "write", "sent"} => t = w
      /\ pc[t] \in {"read", "got"} => t = r
      /\ bi.sync # t
  BY <1>5, <1>6 DEF TurnOK, Writing, Reading, Ended, Leaving, Over, Meets, Ready
<1> QED
  BY <1>3, <1>5, <1>6, <1>7 DEF LongOK

(* The part of the one that receives is as it was.                         *)
LEMMA ReaderKept ==
  ASSUME NEW s \in Sources, NEW r \in Pair, Reading(r, s),
         cpu # r, cpu' # r, pc'[r] = pc[r], buf'[r] = buf[r], rxThread'[s] = rxThread[s],
         Ready(r)' <=> Ready(r), Rx(s) \in late' <=> Rx(s) \in late,
         got' = got, n' = n, bi'.size = bi.size,
         bi'.sync = r <=> bi.sync = r, "rx" \in bi'.status <=> "rx" \in bi.status,
         bi'.status = {} => bi.status = {}, Meets(r, "write") => bi'.status = {}
  PROVE  Reading(r, s)' /\ (Ended(r)' <=> Ended(r)) /\ (Meets(r, "write")' <=> Meets(r, "write"))
<1>1. /\ Ended(r)' <=> Ended(r)
      /\ Meets(r, "write")' <=> Meets(r, "write")
  BY DEF Ended, Leaving, Over, Meets
<1> QED
  BY <1>1 DEF Reading, InLinkRx

(* The part of the one that sends is as it was.                            *)
LEMMA WriterKept ==
  ASSUME NEW w \in Pair, Writing(w),
         cpu # w, cpu' # w, pc'[w] = pc[w], buf'[w] = buf[w], txThread' = txThread,
         Ready(w)' <=> Ready(w), Tx(Process) \in late' <=> Tx(Process) \in late,
         out' = out, n' = n, bi'.send = bi.send,
         bi'.sync = w <=> bi.sync = w, "tx" \in bi'.status <=> "tx" \in bi.status,
         bi'.status = {} => bi.status = {}, Meets(w, "read") => bi'.status = {}
  PROVE  Writing(w)' /\ (Ended(w)' <=> Ended(w)) /\ (Meets(w, "read")' <=> Meets(w, "read"))
<1>1. /\ Ended(w)' <=> Ended(w)
      /\ Meets(w, "read")' <=> Meets(w, "read")
  BY DEF Ended, Leaving, Over, Meets
<1> QED
  BY <1>1 DEF Writing, InLinkTx, Counted

(* What is left of a step once the parts of the two are known.             *)
LEMMA LongCorrect ==
  ASSUME NEW s \in Sources, OthersRest(s)', TypeOK', OneOnly', ProgramOK', Apart, Carries,
         txUser' = Process, bi'.source = s, n' \in Long, fault' # "missed",
         \/ MeetingOK(s)' \/ EndOK(s)'
         \/ \E w, r \in {s, Process} : w # r /\ TurnOK(w, r, s)'
  PROVE  Correct
  BY DEF Correct, Deep, InPhase, InStep, LongOK

----------------------------------------------------------------------------
(* The executive, the interrupts and the time-outs.                        *)

(* The executive chooses who runs, and nothing else changes.               *)
LEMMA DispatchCorrect ==
  ASSUME Inv, InStep, Dispatch
  PROVE  Correct
<1> USE NameAssumption DEF Threads, Pair
<1>1. /\ cpu = None /\ high # <<>> /\ cpu' = Head(high) /\ high' = Tail(high)
      /\ UNCHANGED <<pc, txUser, waiting, txThread, rxThread, bi, armed, late, buf, n, got, out, fault>>
  BY DEF Dispatch, links, data
<1>2. TypeOK /\ OneOnly /\ ProgramOK /\ InPhase
  BY DEF Inv, Deep
<1>3. /\ cpu' \in Threads /\ cpu' # None /\ high' \in Seq(Threads) /\ Once(high') /\ OneOnly'
      /\ \A x \in Threads : Ready(x)' <=> Ready(x)
  <2>1. /\ Head(high) \in Threads /\ Tail(high) \in Seq(Threads)
        /\ In(high, Head(high)) /\ Once(Tail(high))
        /\ \A x : In(Tail(high), x) <=> In(high, x) /\ x # Head(high)
    BY <1>1, <1>2, TailList DEF TypeOK
  <2> QED
    BY <2>1, <1>1, <1>2 DEF OneOnly, Ready
<1>4. TypeOK'
  BY <1>1, <1>2, <1>3 DEF TypeOK
<1>5. ProgramOK'
  BY <1>1, <1>2, <1>3 DEF ProgramOK, InLinkTx
<1>6. InPhase'
  BY <1>1, <1>2, <1>3, PhaseKept, {} \in SUBSET Sources
<1>7. Apart /\ Carries
  BY <1>1, Stutters DEF Apart
<1> QED
  BY <1>1, <1>3, <1>4, <1>5, <1>6, <1>7 DEF Correct, Deep, InStep

(* A guardian that rests is resumed with a message.                        *)
LEMMA MessageArrivesCorrect ==
  ASSUME Inv, InStep, NEW s \in Sources, MessageArrives(s)
  PROVE  Correct
<1> USE NameAssumption DEF Threads, Pair
<1>1. /\ pc[s] = "idle" /\ pc' = [pc EXCEPT ![s] = "message"]
      /\ high' = Append(high, s) /\ armed' = armed \cup {Rx(s)}
      /\ UNCHANGED <<cpu, txUser, waiting, txThread, rxThread, bi, late, buf, n, got, out, fault>>
  BY DEF MessageArrives, links, data
<1>2. TypeOK /\ OneOnly /\ ProgramOK /\ InPhase
  BY DEF Inv, Deep
<1>3. Resting(s)
  <2>1. ASSUME NEW t \in Sources, ShortOK(t) \/ LongOK(t) PROVE t # s
    BY <1>1, <2>1, CarrierBusy
  <2> QED
    BY <1>2, <2>1 DEF InPhase, OthersRest
<1>4. /\ high' \in Seq(Threads) /\ Once(high') /\ OneOnly'
      /\ \A x \in Threads : Ready(x)' <=> Ready(x) \/ x = s
  BY <1>1, <1>2, <1>3, Resumes DEF Resting
<1>5. TypeOK'
  BY <1>1, <1>2, <1>4, IdsMade DEF TypeOK, Points
<1>6. ProgramOK'
  BY <1>1, <1>2, <1>4 DEF ProgramOK, InLinkTx, TypeOK
<1>7. InPhase'
  <2>1. Resting(s)'
    BY <1>1, <1>2, <1>3, <1>4 DEF Resting, TypeOK
  <2>2. \A x \in Pair \ {s} : pc'[x] = pc[x] /\ (Ready(x)' <=> Ready(x))
    BY <1>1, <1>2, <1>4 DEF TypeOK
  <2> QED
    BY <1>1, <1>2, <2>1, <2>2, PhaseKept, {s} \in SUBSET Sources
<1>8. Apart /\ Carries
  BY <1>1, Stutters DEF Apart
<1> QED
  BY <1>1, <1>4, <1>5, <1>6, <1>7, <1>8 DEF Correct, Deep, InStep

(* While nobody runs, the phases hold no one who is ready.                 *)
LEMMA LocalSendsCorrect ==
  ASSUME Inv, InStep, LocalSends
  PROVE  Correct
<1> USE NameAssumption DEF Threads, Pair
<1>1. /\ cpu = None /\ high = <<>> /\ pc[Local] = "idle"
      /\ UNCHANGED <<cpu, high, rxThread, bi, late, buf, n, got, out, fault>>
  BY DEF LocalSends, data
<1>2. TypeOK /\ OneOnly /\ ProgramOK /\ InPhase
  BY DEF Inv, Deep
<1>3. OneOnly' /\ (\A x \in Threads : Ready(x)' <=> Ready(x)) /\ ~Ready(Local) /\ ~waiting /\ txUser # Local
  BY <1>1, <1>2 DEF OneOnly, Ready, ProgramOK
<1>4. Carries
  <2>1. UNCHANGED <<Carrier, Inside>>
    BY <1>1, <1>2 DEF LocalSends, Carrier, Inside, TypeOK
  <2> QED
    BY <2>1, <1>1 DEF Carries, Through!vars
<1>5. CASE /\ txUser # None /\ waiting' = TRUE
           /\ pc' = [pc EXCEPT ![Local] = "queue"]
           /\ UNCHANGED <<txUser, txThread, armed>>
  <2>1. TypeOK'
    BY <1>1, <1>2, <1>5 DEF TypeOK, Points
  <2>2. ProgramOK'
    BY <1>1, <1>2, <1>3, <1>5 DEF ProgramOK, TypeOK
  <2>3. \A x \in Pair : pc'[x] = pc[x]
    BY <1>2, <1>5 DEF TypeOK
  <2>4. InPhase'
    BY <1>1, <1>2, <1>3, <1>5, <2>3, PhaseKept, {} \in SUBSET Sources
  <2> QED
    BY <1>1, <1>3, <1>4, <1>5, <2>1, <2>2, <2>4 DEF Correct, Deep, Apart, InStep
<1>6. CASE /\ txUser = None /\ txUser' = Local /\ txThread' = Local
           /\ pc' = [pc EXCEPT ![Local] = "local"]
           /\ armed' = armed \cup {Tx(Local)}
           /\ UNCHANGED waiting
  <2>1. Idle /\ OthersRest(None)
    BY <1>2, <1>6 DEF InPhase, ShortOK, LongOK
  <2>2. TypeOK'
    BY <1>1, <1>2, <1>6, IdsMade DEF TypeOK, Points
  <2>3. ProgramOK'
    BY <1>1, <1>2, <1>3, <1>6 DEF ProgramOK, InLinkTx, TypeOK
  <2>4. \A x \in Pair : pc'[x] = pc[x]
    BY <1>2, <1>6 DEF TypeOK
  <2>5. Idle' /\ OthersRest(None)'
    BY <1>1, <1>3, <1>6, <2>1, <2>4 DEF Idle, OthersRest, Resting, ProcessHome, Meets
  <2>6. Apart
    BY <1>1, <1>6, <2>1 DEF Apart, Idle
  <2> QED
    BY <1>1, <1>3, <1>4, <2>2, <2>3, <2>5, <2>6 DEF Correct, Deep, InPhase, InStep
<1> QED
  BY <1>5, <1>6 DEF LocalSends

(* The program has the link to itself, and gives it up.                    *)
LEMMA LocalGoesCorrect ==
  ASSUME Inv, InStep, LocalGoes
  PROVE  Correct
<1> USE NameAssumption DEF Threads, Pair
<1>1. TypeOK /\ OneOnly /\ ProgramOK /\ InPhase
  BY DEF Inv, Deep
<1>2. /\ cpu = Local /\ cpu' = None
      /\ pc[Local] \in {"queue", "local"}
      /\ UNCHANGED <<rxThread, bi, buf, n, got, out, fault>>
  BY DEF LocalGoes, Runs, LinkTx, Suspend, SignalLink, data
<1>3. txUser = Local /\ ~waiting /\ txThread = None /\ Idle /\ OthersRest(None)
  BY <1>1, <1>2 DEF ProgramOK, InLinkTx, Ready, InPhase, ShortOK, LongOK
<1>4. CASE pc[Local] = "queue"
  <2>1. /\ txThread' = Local /\ high' = high /\ pc' = [pc EXCEPT ![Local] = "local"]
        /\ armed' = armed \cup {Tx(Local)} /\ UNCHANGED <<txUser, waiting, late>>
    BY <1>4 DEF LocalGoes, Runs, LinkTx, Suspend
  <2>2. OneOnly' /\ \A x \in Threads : Ready(x)' <=> Ready(x) /\ x # Local
    BY <1>1, <1>2, <2>1, Stops
  <2>3. TypeOK'
    BY <1>1, <1>2, <2>1, IdsMade DEF TypeOK, Points
  <2>4. ProgramOK'
    BY <1>1, <1>2, <1>3, <2>1, <2>2 DEF ProgramOK, InLinkTx, TypeOK
  <2>5. Idle' /\ OthersRest(None)'
    BY <1>1, <1>2, <1>3, <2>1, <2>2 DEF Idle, OthersRest, Resting, ProcessHome, Meets, TypeOK
  <2>6. Apart /\ Carries
    BY <1>2, <1>3, <2>1, Stutters DEF Apart
  <2> QED
    BY <1>2, <2>2, <2>3, <2>4, <2>5, <2>6 DEF Correct, Deep, InPhase, InStep
<1>5. CASE pc[Local] = "local"
  <2>1. /\ txUser' = None /\ waiting' = FALSE /\ high' = high /\ UNCHANGED txThread
        /\ pc' = [pc EXCEPT ![Local] = "idle"]
        /\ armed' = armed \ {Tx(Local)} /\ late' = late \ {Tx(Local)}
    BY <1>3, <1>5 DEF LocalGoes, Runs, SignalLink
  <2>2. OneOnly' /\ \A x \in Threads : Ready(x)' <=> Ready(x) /\ x # Local
    BY <1>1, <1>2, <2>1, Stops
  <2>3. TypeOK'
    BY <1>1, <1>2, <2>1 DEF TypeOK, Points
  <2>4. ProgramOK'
    BY <1>1, <1>2, <1>3, <2>1, <2>2 DEF ProgramOK, TypeOK
  <2>5. Idle' /\ OthersRest(None)'
    BY <1>1, <1>2, <1>3, <2>1, <2>2 DEF Idle, OthersRest, Resting, ProcessHome, Meets, TypeOK
  <2>6. UNCHANGED <<Carrier, Inside>>
    BY <1>2, <1>3, <2>1 DEF Carrier, Inside
  <2>7. Apart /\ Carries
    BY <1>2, <2>1, <2>6 DEF Apart, Carries, Through!vars
  <2> QED
    BY <1>2, <2>2, <2>3, <2>4, <2>5, <2>7 DEF Correct, Deep, InPhase, InStep
<1> QED
  BY <1>2, <1>4, <1>5

(* What is sent next is the next thing in order.                           *)
LEMMA TxEndsCorrect ==
  ASSUME Inv, InStep, TxEnds
  PROVE  Correct
<1> USE NameAssumption DEF Threads, Pair
<1>1. TypeOK /\ OneOnly /\ ProgramOK /\ InPhase
  BY DEF Inv, Deep
<1>2. /\ txThread \in Threads /\ txThread' = None
      /\ high' = Append(high, txThread)
      /\ out' = IF txThread = Local THEN out ELSE Append(out, Sends(txThread))
      /\ buf' = [buf EXCEPT ![txThread] = 0]
      /\ UNCHANGED <<cpu, pc, txUser, waiting, rxThread, bi, armed, late, n, got, fault>>
  BY <1>1 DEF TxEnds, TypeOK
<1>3. Sends(txThread) \in Nat
  BY <1>1, <1>2 DEF Sends, TypeOK
<1>4. ~Ready(txThread) /\ (txThread = Local <=> txUser = Local)
  <2>1. ASSUME Idle PROVE ~Ready(txThread) /\ txThread = Local /\ txUser = Local
    BY <2>1, <1>1, <1>2 DEF Idle, ProgramOK, InLinkTx
  <2>2. ASSUME NEW s \in Sources, ShortOK(s) PROVE ~Ready(txThread) /\ txThread = s /\ txUser = s
    BY <2>2, <1>2 DEF ShortOK, InLinkTx
  <2>3. ASSUME NEW s \in Sources, LongOK(s)
        PROVE  ~Ready(txThread) /\ txThread \in Pair /\ txUser = Process
    BY <2>3, <1>2 DEF LongOK, MeetingOK, TurnOK, EndOK, Writing, InLinkTx, Ended, Leaving, Over, Meets
  <2> QED
    BY <1>1, <2>1, <2>2, <2>3 DEF InPhase
<1>5. /\ high' \in Seq(Threads) /\ Once(high') /\ OneOnly'
      /\ \A x \in Threads : Ready(x)' <=> Ready(x) \/ x = txThread
  BY <1>1, <1>2, <1>4, Resumes
<1>6. TypeOK'
  BY <1>1, <1>2, <1>3, <1>5 DEF TypeOK
<1>7. ProgramOK'
  BY <1>1, <1>2, <1>4, <1>5 DEF ProgramOK, InLinkTx, TypeOK
<1>u. /\ txThread \in Threads /\ txThread' = None
      /\ txThread = Local => out' = out
      /\ UNCHANGED <<cpu, pc, txUser, waiting, rxThread, bi, late, n, got, fault>>
  BY <1>2
<1>10. \A x \in Threads : buf'[x] = IF x = txThread THEN 0 ELSE buf[x]
  BY <1>1, <1>2 DEF TypeOK
<1>8. ASSUME NEW c, OthersRest(c), txThread \in {c, Process, Local} PROVE OthersRest(c)'
  BY <1>8, <1>u, <1>5, <1>10 DEF OthersRest, Resting
<1>9. Apart
  BY <1>u DEF Apart
<1>11. Carrier' = Carrier /\ Inside = Contents(buf) /\ Inside' = Contents(buf')
       /\ buf \in [Threads -> Nat] /\ buf' \in [Threads -> Nat]
  BY <1>1, <1>u, <1>6 DEF Carrier, Inside, Contents, TypeOK
<1>12. CASE Idle /\ OthersRest(None)
  <2>1. txThread = Local
    BY <1>1, <1>u, <1>12 DEF Idle, ProgramOK, InLinkTx
  <2>2. Idle'
    BY <2>1, <1>u, <1>5, <1>10, <1>12 DEF Idle, ProcessHome, Meets
  <2>3. Inside' = Inside
    <3>1. \A t \in Pair : buf'[t] = buf[t]
      BY <2>1, <1>10
    <3> QED
      BY <3>1 DEF Inside
  <2>4. Carries
    BY <2>1, <2>3, <1>u, <1>11 DEF Carries, Through!vars
  <2> QED
    BY <2>1, <2>2, <2>4, <1>u, <1>5, <1>6, <1>7, <1>8, <1>9, <1>12 DEF Correct, Deep, InPhase, InStep
<1>13. ASSUME NEW s \in Sources, ShortOK(s), OthersRest(s) PROVE Correct
  <2>1. /\ txThread = s /\ pc[s] \in {"single", "next"} /\ txUser = s /\ Tx(s) \notin late
        /\ Sends(s) = Len(out) + 1
    <3>1. /\ txThread = s /\ pc[s] \in {"single", "next"} /\ txUser = s /\ Tx(s) \notin late
          /\ pc[s] = "single" => Len(out) = 0
          /\ pc[s] = "next" => Len(out) = buf[s] + 1
      BY <1>u, <1>13 DEF ShortOK, InLinkTx
    <3>2. Len(out) \in Nat /\ buf[s] \in Nat
      BY <1>1 DEF TypeOK
    <3>3. /\ pc[s] = "single" => Sends(s) = 1
          /\ pc[s] = "next" /\ Len(out) = 1 => Sends(s) = 2
          /\ pc[s] = "next" /\ Len(out) # 1 => Sends(s) = buf[s] + 2
      BY DEF Sends
    <3>4. Sends(s) = Len(out) + 1
      <4>1. PICK l, b, x, p : l = Len(out) /\ b = buf[s] /\ x = Sends(s) /\ p = pc[s]
        OBVIOUS
      <4>2. x = l + 1
        BY <3>1, <3>2, <3>3, <4>1
      <4> QED
        BY <4>1, <4>2
    <3> QED
      BY <3>1, <3>2, <3>4
  <2>2. out' = Append(out, Len(out) + 1) /\ out \in Seq(Nat) /\ Len(out) \in Nat /\ Len(out') = Len(out) + 1
    BY <2>1, <1>1, <1>2 DEF TypeOK
  <2>3. ShortOK(s)'
    BY <2>1, <2>2, <1>1, <1>u, <1>5, <1>10, <1>13 DEF ShortOK, InLinkTx, ProcessHome, Meets, TypeOK
  <2>4. Carries
    <3>1. Carrier # None
      BY <2>1 DEF Carrier
    <3>2. /\ pc[s] = "single" \/ buf[s] = 0 => Len(out) < 2 /\ buf[s] = 0
          /\ buf[s] # 0 => Len(out) = buf[s] + 1
      BY <2>1, <1>1, <1>13 DEF ShortOK, InLinkTx, TypeOK
    <3>3. \A x \in Pair \ {s, s} : buf[x] = 0 /\ buf'[x] = 0
      BY <1>10, <1>13 DEF ShortOK, ProcessHome, OthersRest, Resting
    <3>4. Inside' = <<>> /\ Inside = IF buf[s] = 0 THEN <<>> ELSE <<buf[s]>>
      BY <2>1, <3>3, <1>10, <1>11, ContentsAre
    <3>5. CASE buf[s] = 0
      <4>1. Through!Head2
        BY <2>2, <3>1, <3>2, <3>4, <3>5, <1>u, <1>11 DEF Through!Head2
      <4> QED
        BY <4>1 DEF Carries, Through!Next
    <3>6. CASE buf[s] # 0
      <4>1. Through!Give
        BY <2>2, <3>1, <3>2, <3>4, <3>6, <1>1, <1>u, <1>11 DEF Through!Give, TypeOK
      <4> QED
        BY <4>1 DEF Carries, Through!Next
    <3> QED
      BY <3>5, <3>6
  <2> QED
    BY <2>1, <2>3, <2>4, <1>u, <1>5, <1>6, <1>7, <1>8, <1>9, <1>13 DEF Correct, Deep, InPhase, InStep
<1>14. ASSUME NEW s \in Sources, LongOK(s), OthersRest(s) PROVE Correct
  <2>1. PICK w \in {s, Process}, r \in {s, Process} : w # r /\ TurnOK(w, r, s) /\ txThread = w
    <3>1. TurnOK(s, Process, s) \/ TurnOK(Process, s, s)
      BY <1>u, <1>14 DEF LongOK, MeetingOK, EndOK
    <3>2. ASSUME NEW w \in {s, Process}, NEW r \in {s, Process}, TurnOK(w, r, s) PROVE txThread = w
      BY <3>2, <1>u DEF TurnOK, Writing, InLinkTx, Ended, Leaving, Over, Meets
    <3> QED
      BY <3>1, <3>2
  <2>2. /\ pc[w] \in {"header", "body", "sent"} /\ Tx(Process) \notin late /\ ~Ready(w)
        /\ Sends(w) = Len(out) + 1
        /\ pc[w] \in {"header", "body"} => Len(out) < 2 /\ buf[w] = 0 /\ w # Process /\ bi.send = n
        /\ pc[w] = "header" => Len(out) = 0
        /\ pc[w] = "body" => Len(out) = 1
        /\ pc[w] = "sent" => buf[w] # 0 /\ Len(out) = buf[w] + 1 /\ bi.send > 0 /\ bi.send + Len(out) = n + 2
        /\ "tx" \notin bi.status
    <3>1. /\ pc[w] \in {"header", "body", "sent"} /\ Tx(Process) \notin late /\ ~Ready(w)
          /\ pc[w] \in {"header", "body"} => buf[w] = 0 /\ w # Process /\ bi.send = n
          /\ pc[w] = "header" => Len(out) = 0
          /\ pc[w] = "body" => Len(out) = 1
          /\ pc[w] = "sent" => Len(out) = buf[w] + 1 /\ buf[w] > 0 /\ bi.send > 0 /\ Counted
          /\ "tx" \notin bi.status
      BY <2>1, <1>u DEF TurnOK, Writing, InLinkTx, Ended, Leaving, Over, Meets
    <3>2. Len(out) \in Nat /\ buf[w] \in Nat
      BY <1>1, Numbers
    <3>3. /\ pc[w] = "header" => Sends(w) = 1
          /\ pc[w] = "body" => Sends(w) = 2
          /\ pc[w] = "sent" => Sends(w) = buf[w] + 2
      BY DEF Sends
    <3>4. /\ Sends(w) = Len(out) + 1
          /\ pc[w] \in {"header", "body"} => Len(out) < 2
          /\ pc[w] = "sent" => buf[w] # 0
      <4>1. PICK l, b, x, p : l = Len(out) /\ b = buf[w] /\ x = Sends(w) /\ p = pc[w]
        OBVIOUS
      <4>2. x = l + 1 /\ (p \in {"header", "body"} => l < 2) /\ (p = "sent" => b # 0)
        BY <3>1, <3>2, <3>3, <4>1
      <4> QED
        BY <4>1, <4>2
    <3> QED
      BY <3>1, <3>4 DEF Counted
  <2>3. out' = Append(out, Len(out) + 1) /\ out \in Seq(Nat) /\ Len(out) \in Nat /\ Len(out') = Len(out) + 1
    <3>1. Sends(w) = Len(out) + 1 /\ txThread = w /\ w # Local
      BY <2>1, <2>2
    <3>2. out \in Seq(Nat)
      BY <1>1 DEF TypeOK
    <3> QED
      BY <3>1, <3>2, <1>2
  <2>4. TurnOK(w, r, s)'
    <3>1. \A x \in {w, r} : \A p : Meets(x, p)' <=> (Meets(x, p) /\ x # w)
      BY <2>1, <1>u, <1>5 DEF Meets
    <3>2. (Ended(r)' <=> Ended(r)) /\ ~Ended(w) /\ ~Ended(w)'
      BY <2>1, <2>2, <1>u, <1>5, <1>10 DEF Ended, Over, Leaving, Meets
    <3>n. n \in Nat /\ bi.send \in Nat /\ bi.size \in Nat /\ buf[w] \in Nat /\ buf[r] \in Nat
      BY <1>1, Numbers
    <3>3. Writing(w)'
      <4>1. /\ pc'[w] = pc[w] /\ buf'[w] = 0 /\ Ready(w)' /\ bi' = bi /\ n' = n
            /\ txThread' = None /\ late' = late
        BY <2>1, <1>u, <1>5, <1>10
      <4>2. pc[w] = "sent" => Len(out') + bi.send = n + 3
        <5>1. PICK l, t : l = Len(out) /\ t = bi.send
          OBVIOUS
        <5>2. pc[w] = "sent" => t + l = n + 2
          BY <5>1, <2>2
        <5>3. l \in Nat /\ t \in Nat /\ n \in Nat /\ Len(out') = l + 1
          BY <5>1, <2>3, <3>n
        <5> QED
          BY <5>1, <5>2, <5>3
      <4> QED
        BY <4>1, <4>2, <2>2, <2>3 DEF Writing, InLinkTx
    <3>4. Reading(r, s)'
      BY <2>1, <2>2, <3>1, <3>2, <1>1, <1>u, <1>5, <1>10 DEF TurnOK, Reading, InLinkRx, Points, TypeOK
    <3>5. InTurn(w, r)'
      <4>1. /\ pc'[w] = pc[w] /\ pc'[r] = pc[r] /\ buf'[w] = 0 /\ buf'[r] = buf[r] /\ bi' = bi
        BY <2>1, <1>u, <1>10
      <4>2. buf[r] # 0 => Len(out') < buf[r] + 2
        <5>1. buf[r] # 0 /\ buf[w] # 0 => buf[w] < buf[r]
          BY <2>1 DEF TurnOK, InTurn
        <5>2. buf[w] = 0 => Len(out) < 2
          BY <2>2
        <5>3. buf[w] # 0 => Len(out) = buf[w] + 1
          BY <2>2
        <5> QED
          BY <5>1, <5>2, <5>3, <2>3, <3>n
      <4>3. Len(out') <= got' + 2
        <5>1. PICK l, b : l = Len(out) /\ b = buf[w]
          OBVIOUS
        <5>2. l \in Nat /\ b \in Nat /\ b <= got /\ got \in Nat /\ (l < 2 \/ l = b + 1)
          BY <5>1, <2>1, <2>2, <1>1, Numbers
        <5>3. l + 1 <= got + 2
          BY <5>2
        <5> QED
          BY <5>1, <5>3, <2>3, <1>u
      <4> QED
        BY <4>1, <4>2, <4>3, <2>1, <3>1, <3>2 DEF TurnOK, InTurn, Ahead
    <3> QED
      BY <2>1, <2>2, <3>1, <3>2, <3>3, <3>4, <3>5, <1>u, <1>5, <1>10 DEF TurnOK, Meets, Over
  <2>5. LongOK(s)'
    BY <2>1, <2>4, <1>u, <1>14 DEF LongOK
  <2>6. Carries
    <3>1. Carrier # None
      BY <1>14 DEF Carrier, LongOK
    <3>2. buf[w] # 0 /\ buf[r] # 0 => buf[w] < buf[r]
      BY <2>1 DEF TurnOK, InTurn
    <3>n. buf[w] \in Nat /\ Len(out) \in Nat
      BY <1>1, Numbers
    <3>3. \A x \in Pair \ {w, r} : buf[x] = 0 /\ buf'[x] = 0
      BY <2>1, <1>10, <1>14 DEF OthersRest, Resting
    <3>4. /\ buf[w] = 0 => Inside' = Inside
          /\ buf[w] # 0 => Inside # <<>> /\ Head(Inside) = buf[w] /\ Tail(Inside) = Inside'
      <4>1. /\ buf[w] = 0 /\ buf[r] = 0 => Contents(buf) = <<>>
            /\ buf[w] = 0 /\ buf[r] # 0 => Contents(buf) = <<buf[r]>>
            /\ buf[w] # 0 /\ buf[r] = 0 => Contents(buf) = <<buf[w]>>
            /\ buf[w] # 0 /\ buf[w] < buf[r] => Contents(buf) = <<buf[w], buf[r]>>
        BY <2>1, <3>3, <1>11, ContentsAre
      <4>2. /\ buf'[r] = 0 => Contents(buf') = <<>>
            /\ buf'[r] # 0 => Contents(buf') = <<buf'[r]>>
        BY <2>1, <3>3, <1>10, <1>11, ContentsAre
      <4>3. buf'[r] = buf[r] /\ buf[w] \in Nat /\ buf[r] \in Nat
        BY <2>1, <1>10, <1>11
      <4>4. PICK p, q : p = buf[w] /\ q = buf[r]
        OBVIOUS
      <4>5. <<p>> # <<>> /\ Head(<<p>>) = p /\ Tail(<<p>>) = <<>>
            /\ <<p, q>> # <<>> /\ Head(<<p, q>>) = p /\ Tail(<<p, q>>) = <<q>>
        OBVIOUS
      <4>6. Contents(buf') = IF q = 0 THEN <<>> ELSE <<q>>
        BY <4>2, <4>3, <4>4
      <4>7. /\ p = 0 => Contents(buf) = Contents(buf')
            /\ p # 0 => Contents(buf) = IF q = 0 THEN <<p>> ELSE <<p, q>>
        BY <3>2, <4>1, <4>3, <4>4, <4>6
      <4> QED
        BY <4>4, <4>5, <4>6, <4>7, <1>11
    <3>5. CASE buf[w] = 0
      <4>1. Through!Head2
        BY <2>2, <2>3, <3>1, <3>4, <3>5, <1>u, <1>11 DEF Through!Head2
      <4> QED
        BY <4>1 DEF Carries, Through!Next
    <3>6. CASE buf[w] # 0
      <4>1. Through!Give
        <5>1. Head(Inside) + 2 = Len(out) + 1
          BY <2>2, <3>4, <3>6, <3>n
        <5> QED
          BY <2>3, <3>4, <3>6, <5>1, <1>u, <1>11 DEF Through!Give
      <4> QED
        BY <4>1 DEF Carries, Through!Next
    <3> QED
      BY <3>5, <3>6
  <2> QED
    BY <2>1, <2>5, <2>6, <1>u, <1>5, <1>6, <1>7, <1>8, <1>9, <1>14 DEF Correct, Deep, InPhase, InStep
<1> QED
  BY <1>1, <1>12, <1>13, <1>14 DEF InPhase

(* What comes in is the next piece, and there is room for it.              *)
LEMMA RxEndsCorrect ==
  ASSUME Inv, InStep, NEW s \in Sources, RxEnds(s)
  PROVE  Correct
<1> USE NameAssumption DEF Threads, Pair
<1>1. TypeOK /\ OneOnly /\ ProgramOK /\ InPhase
  BY DEF Inv, Deep
<1> PICK r : r = rxThread[s]
  OBVIOUS
<1>2. /\ r \in Pair /\ rxThread[s] = r /\ r # None
      /\ rxThread' = [rxThread EXCEPT ![s] = None]
      /\ high' = Append(high, r)
      /\ got' = got + 1 /\ buf' = [buf EXCEPT ![r] = got']
      /\ UNCHANGED <<cpu, pc, txUser, waiting, txThread, bi, armed, late, n, out, fault>>
  BY <1>1 DEF RxEnds, TypeOK
<1>3. OthersRest(s) /\ (ShortOK(s) \/ LongOK(s))
  BY <1>1, <1>2 DEF InPhase, OthersRest, Resting
<1>4. /\ ~Ready(r) /\ Rx(s) \notin late /\ got < n /\ buf[r] = 0
      /\ ShortOK(s) => r = s /\ pc[s] = "forward" /\ Len(out) = got + 2 /\ Tx(s) \notin late
  <2>n. got \in Nat /\ n \in Nat /\ bi.size \in Nat
    BY <1>1, Numbers
  <2>1. CASE ShortOK(s)
    BY <2>1, <1>2 DEF ShortOK, InLinkRx
  <2>2. CASE LongOK(s)
    <3>1. /\ ~Ready(r) /\ Rx(s) \notin late /\ buf[r] = 0
          /\ bi.size > 0 /\ got + bi.size = n /\ txUser = Process
      BY <2>2, <1>2 DEF LongOK, MeetingOK, EndOK, TurnOK, Reading, InLinkRx, Ended, Leaving, Over, Meets
    <3> QED
      BY <3>1, <2>n DEF ShortOK
  <2> QED
    BY <1>3, <2>1, <2>2
<1>5. /\ high' \in Seq(Threads) /\ Once(high') /\ OneOnly'
      /\ \A x \in Threads : Ready(x)' <=> Ready(x) \/ x = r
  BY <1>1, <1>2, <1>4, Resumes
<1>6. /\ \A x \in Threads : buf'[x] = IF x = r THEN got + 1 ELSE buf[x]
      /\ \A x \in Sources : rxThread'[x] = IF x = s THEN None ELSE rxThread[x]
  BY <1>1, <1>2 DEF TypeOK
<1>n. /\ got \in Nat /\ n \in Nat /\ Len(out) \in Nat /\ bi.size \in Nat /\ bi.send \in Nat
      /\ \A x \in Threads : buf[x] \in Nat /\ buf[x] <= got
  BY <1>1, Numbers
<1>7. TypeOK'
  <2>1. got' \in 0 .. n'
    BY <1>2, <1>4, <1>n
  <2>2. buf' \in [Threads -> 0 .. got']
    BY <1>1, <1>2, <1>n DEF TypeOK
  <2> QED
    BY <2>1, <2>2, <1>1, <1>2, <1>5 DEF TypeOK
<1>8. ProgramOK'
  BY <1>1, <1>2, <1>5, <1>6 DEF ProgramOK, InLinkTx
<1>9. OthersRest(s)'
  <2>1. r \in {s, Process}
    BY <1>2, <1>3, <1>4 DEF LongOK, MeetingOK, EndOK, TurnOK, Reading, InLinkRx, Ended, Leaving, Over, Meets
  <2> QED
    BY <2>1, <1>2, <1>3, <1>5, <1>6 DEF OthersRest, Resting
<1>10. Apart
  BY <1>2, <1>6 DEF Apart
<1>11. /\ Carrier' = Carrier /\ Carrier # None
       /\ Inside = Contents(buf) /\ Inside' = Contents(buf')
       /\ buf \in [Threads -> Nat] /\ buf' \in [Threads -> Nat]
  BY <1>1, <1>2, <1>3, <1>7 DEF Carrier, Inside, Contents, TypeOK, ShortOK, LongOK
<1>u. UNCHANGED <<cpu, pc, txUser, waiting, txThread, bi, late, n, out, fault>> /\ got' = got + 1
  BY <1>2
<1>12. CASE ShortOK(s)
  <2>1. ShortOK(s)'
    <3>1. ProcessHome'
      BY <1>u, <1>2, <1>4, <1>5, <1>6, <1>12 DEF ShortOK, ProcessHome, Meets
    <3>2. /\ InLinkRx(s, s)' /\ Ready(s)' /\ rxThread'[s] = None
          /\ buf'[s] = got' /\ Len(out') = got' + 1 /\ got' > 0
      BY <1>u, <1>2, <1>4, <1>5, <1>6, <1>12, <1>n DEF InLinkRx
    <3> QED
      BY <3>1, <3>2, <1>u, <1>4, <1>12 DEF ShortOK
  <2>2. Through!Take
    <3>1. \A x \in Pair \ {s, s} : buf[x] = 0 /\ buf'[x] = 0
      BY <1>3, <1>4, <1>6, <1>12 DEF ShortOK, ProcessHome, OthersRest, Resting
    <3>2. buf[s] = 0 /\ buf'[s] = got + 1 /\ got + 1 # 0
      BY <1>4, <1>6, <1>12, <1>n
    <3>3. Inside = <<>> /\ Inside' = <<got + 1>>
      BY <3>1, <3>2, <1>11, ContentsAre
    <3> QED
      BY <3>3, <1>u, <1>4, <1>11 DEF Through!Take
  <2> QED
    BY <2>1, <2>2, <1>u, <1>5, <1>7, <1>8, <1>9, <1>10
    DEF Correct, Deep, InPhase, InStep, Carries, Through!Next
<1>13. CASE LongOK(s)
  <2>1. PICK w \in {s, Process} : w # r /\ r \in {s, Process} /\ TurnOK(w, r, s)
    <3>1. TurnOK(s, Process, s) \/ TurnOK(Process, s, s)
      BY <1>2, <1>13 DEF LongOK, MeetingOK, EndOK
    <3>2. ASSUME NEW v \in {s, Process}, NEW q \in {s, Process}, TurnOK(v, q, s) PROVE r = q
      BY <3>2, <1>2 DEF TurnOK, Reading, InLinkRx, Ended, Leaving, Over, Meets
    <3> QED
      BY <3>1, <3>2
  <2>2. /\ pc[r] = "got" /\ bi.size > 0 /\ got + bi.size = n /\ "rx" \notin bi.status
    BY <2>1, <1>2 DEF TurnOK, Reading, InLinkRx, Ended, Leaving, Over, Meets
  <2>3. TurnOK(w, r, s)'
    <3>1. (Ended(w)' <=> Ended(w)) /\ ~Ended(r) /\ ~Ended(r)'
      BY <2>1, <2>2, <1>u, <1>5, <1>6 DEF Ended, Over, Leaving, Meets
    <3>2. Writing(w)'
      BY <2>1, <3>1, <1>u, <1>5, <1>6 DEF TurnOK, Writing, InLinkTx, Counted, Meets
    <3>3. Reading(r, s)'
      <4>1. got' + bi.size = n + 1 /\ buf'[r] = got' /\ got' > 0
        <5>1. PICK g, z : g = got /\ z = bi.size
          OBVIOUS
        <5>2. (g + 1) + z = n + 1 /\ g + 1 > 0
          BY <5>1, <2>2, <1>n
        <5> QED
          BY <5>1, <5>2, <2>1, <1>u, <1>6
      <4>2. pc'[r] = "got" /\ rxThread'[s] = None /\ Ready(r)'
        BY <2>2, <1>u, <1>2, <1>5, <1>6
      <4> QED
        BY <4>1, <4>2, <2>2, <3>1, <1>4, <1>u DEF Reading, InLinkRx
    <3>4. InTurn(w, r)'
      <4>1. pc'[w] = pc[w] /\ pc'[r] = "got" /\ buf'[w] = buf[w] /\ buf'[r] = got + 1 /\ bi' = bi /\ out' = out
        BY <2>1, <2>2, <1>u, <1>6
      <4>2. buf[w] < got + 1
        BY <2>1, <1>n
      <4>3. Len(out) < got + 1 + 2 /\ Len(out) <= got + 1 + 2
        BY <2>1, <1>n DEF TurnOK, InTurn
      <4> QED
        BY <4>1, <4>2, <4>3, <2>1, <2>2, <3>1, <1>u DEF TurnOK, InTurn, Ahead, Meets
    <3> QED
      BY <2>1, <2>2, <3>1, <3>2, <3>3, <3>4, <1>u, <1>5, <1>6, <1>4 DEF TurnOK, Meets, Over
  <2>4. LongOK(s)'
    BY <2>1, <2>3, <1>u, <1>13 DEF LongOK
  <2>5. Through!Take
    <3>1. \A x \in Pair \ {w, r} : buf[x] = 0 /\ buf'[x] = 0
      BY <2>1, <1>3, <1>6 DEF OthersRest, Resting
    <3>2. buf[w] \in Nat /\ buf[w] < got + 1 /\ got + 1 # 0 /\ buf[r] = 0 /\ buf'[w] = buf[w] /\ buf'[r] = got + 1
      BY <2>1, <1>4, <1>6, <1>n
    <3>3. /\ buf[w] = 0 => Contents(buf) = <<>>
          /\ buf[w] # 0 => Contents(buf) = <<buf[w]>>
      BY <2>1, <3>1, <3>2, <1>11, ContentsAre
    <3>4. /\ buf[w] = 0 => Contents(buf') = <<got + 1>>
          /\ buf[w] # 0 => Contents(buf') = <<buf[w], got + 1>>
      <4>1. /\ buf'[w] = 0 /\ buf'[r] # 0 => Contents(buf') = <<buf'[r]>>
            /\ buf'[w] # 0 /\ buf'[w] < buf'[r] => Contents(buf') = <<buf'[w], buf'[r]>>
        BY <2>1, <3>1, <1>11, ContentsAre
      <4> QED
        BY <3>2, <4>1
    <3>5. PICK p \in Nat, g \in Nat : p = buf[w] /\ g = got + 1
      BY <3>2, <1>n
    <3>6. /\ Append(<<>>, g) = <<g>> /\ Append(<<p>>, g) = <<p, g>>
          /\ Len(<<>>) < 2 /\ Len(<<p>>) < 2
      BY AppendsAre
    <3>7. Inside' = Append(Inside, got + 1) /\ Len(Inside) < 2
      BY <3>3, <3>4, <3>5, <3>6, <1>11
    <3> QED
      BY <3>7, <1>u, <1>4, <1>11 DEF Through!Take
  <2> QED
    BY <2>4, <2>5, <1>u, <1>5, <1>7, <1>8, <1>9, <1>10
    DEF Correct, Deep, InPhase, InStep, Carries, Through!Next
<1> QED
  BY <1>3, <1>12, <1>13
(* The thread that sends is resumed; it finds its Id in late.              *)
LEMMA TimeoutTxCorrect ==
  ASSUME Inv, InStep, NEW o \in Threads, TimeoutTx(o)
  PROVE  Correct
<1> USE NameAssumption DEF Threads, Pair
<1>1. TypeOK /\ OneOnly /\ ProgramOK /\ InPhase
  BY DEF Inv, Deep
<1>2. /\ txUser = o /\ txThread' = None /\ armed' = armed \ {Tx(o)}
      /\ UNCHANGED <<cpu, pc, txUser, waiting, rxThread, bi, buf, n, got, out, fault>>
  BY DEF TimeoutTx, data
<1>3. Apart /\ Carries
  BY <1>2, Stutters DEF Apart
<1>4. CASE txThread = None
  <2>1. late' = late /\ high' = high /\ txThread' = txThread
    BY <1>2, <1>4 DEF TimeoutTx
  <2>2. OneOnly' /\ \A x \in Threads : Ready(x)' <=> Ready(x)
    BY <1>1, <1>2, <2>1 DEF OneOnly, Ready
  <2>3. TypeOK'
    BY <1>1, <1>2, <2>1 DEF TypeOK
  <2>4. ProgramOK'
    BY <1>1, <1>2, <2>1, <2>2 DEF ProgramOK, InLinkTx
  <2>5. InPhase'
    BY <1>1, <1>2, <2>1, <2>2, PhaseKept, {} \in SUBSET Sources
  <2> QED
    BY <1>2, <1>3, <2>2, <2>3, <2>4, <2>5 DEF Correct, Deep, InStep
<1>5. CASE txThread # None
  <2>1. /\ late' = late \cup {Tx(o)} /\ high' = Append(high, txThread) /\ txThread \in Threads
    BY <1>1, <1>5 DEF TimeoutTx, TypeOK
  <2>2. /\ ~Ready(txThread)
        /\ Idle => txThread = Local /\ txUser = Local
        /\ \A s \in Sources : ShortOK(s) => txThread = s /\ txUser = s
        /\ \A s \in Sources : LongOK(s) => txThread \in {s, Process} /\ txUser = Process
    <3>1. ASSUME Idle PROVE ~Ready(txThread) /\ txThread = Local /\ txUser = Local
      BY <3>1, <1>1, <1>5 DEF Idle, ProgramOK, InLinkTx
    <3>2. ASSUME NEW s \in Sources, ShortOK(s) PROVE ~Ready(txThread) /\ txThread = s /\ txUser = s
      BY <3>2, <1>5 DEF ShortOK, InLinkTx
    <3>3. ASSUME NEW s \in Sources, LongOK(s)
          PROVE  ~Ready(txThread) /\ txThread \in {s, Process} /\ txUser = Process
      BY <3>3, <1>5 DEF LongOK, MeetingOK, TurnOK, EndOK, Writing, InLinkTx, Ended, Leaving, Over, Meets
    <3> QED
      BY <1>1, <3>1, <3>2, <3>3 DEF InPhase
  <2>3. /\ high' \in Seq(Threads) /\ Once(high') /\ OneOnly'
        /\ \A x \in Threads : Ready(x)' <=> Ready(x) \/ x = txThread
    BY <1>1, <1>2, <2>1, <2>2, Resumes
  <2>4. TypeOK'
    BY <1>1, <1>2, <2>1, <2>3, IdsMade DEF TypeOK
  <2>5. ProgramOK'
    BY <1>1, <1>2, <2>1, <2>2, <2>3, <1>5 DEF ProgramOK, InLinkTx, InPhase
  <2>6. \A x \in Sources : Rx(x) \in late' <=> Rx(x) \in late
    BY <2>1, IdsDiffer
  <2>7. \A x \in Threads : Tx(x) \in late' <=> Tx(x) \in late \/ x = o
    BY <2>1, IdsDiffer
  <2>8. ASSUME NEW c, OthersRest(c), txThread \in {c, Process, Local} PROVE OthersRest(c)'
    BY <2>8, <1>2, <2>3, <2>6, RestKept
  <2>9. CASE Idle /\ OthersRest(None)
    <3>1. Idle'
      BY <2>9, <1>2, <2>2, <2>3, <2>7 DEF Idle, ProcessHome, Meets
    <3> QED
      BY <3>1, <2>9, <2>2, <2>3, <2>4, <2>5, <2>8, <1>2, <1>3 DEF Correct, Deep, InPhase, InStep
  <2>10. ASSUME NEW s \in Sources, ShortOK(s), OthersRest(s) PROVE Correct
    <3>1. ShortOK(s)'
      BY <2>10, <1>2, <1>5, <2>2, <2>3, <2>6, <2>7 DEF ShortOK, InLinkTx, ProcessHome, Meets
    <3> QED
      BY <3>1, <2>10, <2>2, <2>3, <2>4, <2>5, <2>8, <1>2, <1>3 DEF Correct, Deep, InPhase, InStep
  <2>11. ASSUME NEW s \in Sources, LongOK(s), OthersRest(s) PROVE Correct
    <3>1. PICK w \in {s, Process}, r \in {s, Process} : w # r /\ TurnOK(w, r, s) /\ txThread = w
      <4>1. TurnOK(s, Process, s) \/ TurnOK(Process, s, s)
        BY <1>5, <2>11 DEF LongOK, MeetingOK, EndOK
      <4>2. ASSUME NEW w \in {s, Process}, NEW r \in {s, Process}, TurnOK(w, r, s) PROVE txThread = w
        BY <4>2, <1>5 DEF TurnOK, Writing, InLinkTx, Ended, Leaving, Over, Meets
      <4> QED
        BY <4>1, <4>2
    <3>2. /\ pc[w] \in {"header", "body", "sent"} /\ ~Ready(w)
          /\ "tx" \notin bi.status /\ Tx(Process) \notin late
      BY <3>1, <1>5 DEF TurnOK, Writing, InLinkTx, Ended, Leaving, Over, Meets
    <3>3. Tx(Process) \in late' /\ Ready(w)' /\ (Ready(r)' <=> Ready(r))
      BY <3>1, <2>2, <2>3, <2>7, <2>11, <1>2
    <3>4. (Ended(r)' <=> Ended(r)) /\ ~Ended(w) /\ ~Ended(w)'
      BY <3>1, <3>2, <3>3, <1>2 DEF Ended, Over, Leaving, Meets
    <3>5. Writing(w)'
      BY <3>1, <3>2, <3>3, <1>2, <1>5 DEF TurnOK, Writing, InLinkTx, Counted, Ended, Leaving, Over, Meets
    <3>6. Reading(r, s)'
      BY <3>1, <3>2, <3>3, <3>4, <1>2, <2>6 DEF TurnOK, Reading, InLinkRx, Meets
    <3>7. InTurn(w, r)'
      BY <3>1, <3>2, <3>3, <3>4, <1>2 DEF TurnOK, InTurn, Ahead, Meets
    <3>8. TurnOK(w, r, s)'
      BY <3>1, <3>2, <3>3, <3>4, <3>5, <3>6, <3>7, <1>2 DEF TurnOK, Meets, Over
    <3>9. LongOK(s)'
      BY <3>1, <3>8, <1>2, <2>11 DEF LongOK
    <3> QED
      BY <3>1, <3>9, <2>11, <2>2, <2>3, <2>4, <2>5, <2>8, <1>2, <1>3 DEF Correct, Deep, InPhase, InStep
  <2> QED
    BY <1>1, <2>9, <2>10, <2>11 DEF InPhase
<1> QED
  BY <1>4, <1>5

(* The thread that receives is resumed; it finds the Id in late.           *)
LEMMA TimeoutRxCorrect ==
  ASSUME Inv, InStep, NEW s \in Sources, TimeoutRx(s)
  PROVE  Correct
<1> USE NameAssumption DEF Threads, Pair
<1>1. TypeOK /\ OneOnly /\ ProgramOK /\ InPhase
  BY DEF Inv, Deep
<1>2. /\ rxThread' = [rxThread EXCEPT ![s] = None] /\ armed' = armed \ {Rx(s)}
      /\ UNCHANGED <<cpu, pc, txUser, waiting, txThread, bi, buf, n, got, out, fault>>
  BY DEF TimeoutRx, data
<1>3. \A x \in Sources : rxThread'[x] = IF x = s THEN None ELSE rxThread[x]
  BY <1>1, <1>2 DEF TypeOK
<1>4. Apart /\ Carries
  BY <1>2, <1>3, Stutters DEF Apart
<1>5. CASE rxThread[s] = None
  <2>1. late' = late /\ high' = high
    BY <1>2, <1>5 DEF TimeoutRx
  <2>2. OneOnly' /\ \A x \in Threads : Ready(x)' <=> Ready(x)
    BY <1>1, <1>2, <2>1 DEF OneOnly, Ready
  <2>3. TypeOK'
    BY <1>1, <1>2, <2>1 DEF TypeOK
  <2>4. ProgramOK'
    BY <1>1, <1>2, <2>1, <2>2 DEF ProgramOK, InLinkTx
  <2>5. \A x \in Sources : rxThread'[x] = rxThread[x]
    BY <1>3, <1>5
  <2>6. InPhase'
    BY <1>1, <1>2, <2>1, <2>2, <2>5, PhaseKept, {} \in SUBSET Sources
  <2> QED
    BY <1>2, <1>4, <2>2, <2>3, <2>4, <2>6 DEF Correct, Deep, InStep
<1>6. CASE rxThread[s] # None
  <2> PICK r : r = rxThread[s]
    OBVIOUS
  <2>1. /\ late' = late \cup {Rx(s)} /\ high' = Append(high, r) /\ r \in Pair /\ rxThread[s] = r
    BY <1>1, <1>6 DEF TimeoutRx, TypeOK
  <2>2. OthersRest(s) /\ (ShortOK(s) \/ LongOK(s))
    BY <1>1, <1>6 DEF InPhase, OthersRest, Resting
  <2>3. ~Ready(r) /\ r \in {s, Process} /\ (ShortOK(s) => r = s /\ pc[s] = "forward")
        /\ txUser \in {s, Process} /\ (ShortOK(s) => ~LongOK(s))
    <3>1. CASE ShortOK(s)
      BY <3>1, <2>1 DEF ShortOK, LongOK, InLinkRx
    <3>2. CASE LongOK(s)
      BY <3>2, <2>1 DEF ShortOK, LongOK, MeetingOK, EndOK, TurnOK, Reading, InLinkRx, Ended, Leaving, Over, Meets
    <3> QED
      BY <2>2, <3>1, <3>2
  <2>4. /\ high' \in Seq(Threads) /\ Once(high') /\ OneOnly'
        /\ \A x \in Threads : Ready(x)' <=> Ready(x) \/ x = r
    BY <1>1, <1>2, <2>1, <2>3, Resumes
  <2>5. TypeOK'
    BY <1>1, <1>2, <2>1, <2>4, IdsMade DEF TypeOK
  <2>6. ProgramOK'
    BY <1>1, <1>2, <2>1, <2>3, <2>4, ProgramKept
  <2>7. \A x \in Sources : Rx(x) \in late' <=> Rx(x) \in late \/ x = s
    BY <2>1, IdsDiffer
  <2>8. \A x \in Threads : Tx(x) \in late' <=> Tx(x) \in late
    BY <2>1, IdsDiffer
  <2>9. OthersRest(s)'
    BY <1>2, <1>3, <2>2, <2>3, <2>4, <2>7, RestKept
  <2>10. CASE ShortOK(s)
    <3>1. ShortOK(s)'
      BY <2>1, <2>3, <2>4, <2>7, <2>8, <2>10, <1>2, <1>3 DEF ShortOK, InLinkRx, ProcessHome, Meets
    <3> QED
      BY <3>1, <2>4, <2>5, <2>6, <2>9, <1>2, <1>4 DEF Correct, Deep, InPhase, InStep
  <2>11. CASE LongOK(s)
    <3>1. PICK w \in {s, Process} : w # r /\ TurnOK(w, r, s)
      <4>1. TurnOK(s, Process, s) \/ TurnOK(Process, s, s)
        BY <1>6, <2>11 DEF LongOK, MeetingOK, EndOK
      <4>2. ASSUME NEW v \in {s, Process}, NEW q \in {s, Process}, TurnOK(v, q, s) PROVE r = q
        BY <4>2, <2>1, <1>6 DEF TurnOK, Reading, InLinkRx, Ended, Leaving, Over, Meets
      <4> QED
        BY <4>1, <4>2
    <3>2. pc[r] = "got" /\ "rx" \notin bi.status /\ Rx(s) \notin late
      BY <3>1, <2>1, <1>6 DEF TurnOK, Reading, InLinkRx, Ended, Leaving, Over, Meets
    <3>3. Rx(s) \in late' /\ Ready(r)' /\ (Ready(w)' <=> Ready(w)) /\ rxThread'[s] = None
      BY <3>1, <2>3, <2>4, <2>7, <1>3
    <3>4. (Ended(w)' <=> Ended(w)) /\ ~Ended(r) /\ ~Ended(r)'
      BY <3>1, <3>2, <3>3, <1>2, <2>3 DEF Ended, Over, Leaving, Meets
    <3>5. Writing(w)'
      BY <3>1, <3>2, <3>3, <3>4, <1>2, <2>8 DEF TurnOK, Writing, InLinkTx, Counted, Meets
    <3>6. Reading(r, s)'
      BY <3>1, <3>2, <3>3, <3>4, <1>2, <1>6, <2>1 DEF TurnOK, Reading, InLinkRx, Meets, Ended, Leaving, Over
    <3>7. InTurn(w, r)'
      BY <3>1, <3>2, <3>3, <3>4, <1>2 DEF TurnOK, InTurn, Ahead, Meets
    <3>8. TurnOK(w, r, s)'
      BY <3>1, <3>2, <3>3, <3>4, <3>5, <3>6, <3>7, <2>3, <1>2 DEF TurnOK, Meets, Over
    <3>9. LongOK(s)'
      BY <2>3, <3>1, <3>8, <1>2, <2>11 DEF LongOK
    <3> QED
      BY <3>9, <2>4, <2>5, <2>6, <2>9, <1>2, <1>4 DEF Correct, Deep, InPhase, InStep
  <2> QED
    BY <2>2, <2>10, <2>11
<1> QED
  BY <1>5, <1>6
----------------------------------------------------------------------------
(* A guardian with a message.                                              *)

(* A guardian that is not to forward its message rests again.              *)
LEMMA BufferedCorrect ==
  ASSUME Inv, InStep, NEW s \in Sources, Runs(s, "message"), Buffered(s)
  PROVE  Correct
<1> USE NameAssumption DEF Threads, Pair
<1>1. TypeOK /\ OneOnly /\ ProgramOK /\ InPhase
  BY DEF Inv, Deep
<1>2. /\ cpu = s /\ pc[s] = "message" /\ cpu' = None /\ pc' = [pc EXCEPT ![s] = "idle"]
      /\ armed' = armed \ {Rx(s)} /\ late' = late \ {Rx(s)}
      /\ UNCHANGED <<high, txUser, waiting, txThread, rxThread, bi, buf, n, got, out, fault>>
  BY DEF Runs, Buffered, links, data
<1>3. Resting(s)
  <2>1. ASSUME NEW t \in Sources, ShortOK(t) \/ LongOK(t) PROVE t # s
    BY <1>2, <2>1, CarrierBusy
  <2> QED
    BY <1>1, <2>1 DEF InPhase, OthersRest
<1>4. OneOnly' /\ \A x \in Threads : Ready(x)' <=> Ready(x) /\ x # s
  BY <1>1, <1>2, Stops
<1>5. TypeOK'
  BY <1>1, <1>2 DEF TypeOK, Points
<1>6. ProgramOK'
  BY <1>1, <1>2, <1>4 DEF ProgramOK, InLinkTx, TypeOK
<1>7. /\ \A x \in Sources : Rx(x) \in late' <=> Rx(x) \in late /\ x # s
      /\ \A x \in Threads : Tx(x) \in late' <=> Tx(x) \in late
  BY <1>2, IdsDiffer
<1>8. InPhase'
  <2>1. Resting(s)'
    BY <1>1, <1>2, <1>3, <1>4, <1>7 DEF Resting, TypeOK
  <2>2. \A x \in Pair \ {s} : pc'[x] = pc[x] /\ (Ready(x)' <=> Ready(x))
    BY <1>1, <1>2, <1>4 DEF TypeOK
  <2> QED
    BY <1>1, <1>2, <1>7, <2>1, <2>2, PhaseKept, {s} \in SUBSET Sources
<1>9. Apart /\ Carries
  BY <1>2, Stutters DEF Apart
<1> QED
  BY <1>2, <1>4, <1>5, <1>6, <1>8, <1>9 DEF Correct, Deep, InStep

(* A destination that is not in use.                                       *)
LEMMA NotBusy ==
  ASSUME ProgramOK, InPhase, ~Busy
  PROVE  /\ Idle /\ OthersRest(None) /\ txUser = None /\ txThread = None /\ ~waiting
         /\ pc[Local] = "idle" /\ ~Ready(Local) /\ buf[Local] = 0
<1>1. txUser = None /\ ~waiting
  BY DEF Busy
<1>2. Idle /\ OthersRest(None)
  BY <1>1, NameAssumption DEF InPhase, ShortOK, LongOK
<1> QED
  BY <1>1, <1>2, NameAssumption DEF ProgramOK, Idle

(* A short message begins while the process stays at home.                 *)
LEMMA SingleCorrect ==
  ASSUME Inv, InStep, NEW s \in Sources, Runs(s, "message"), Single(s)
  PROVE  Correct
<1> USE NameAssumption DEF Threads, Pair
<1>1. TypeOK /\ OneOnly /\ ProgramOK /\ InPhase
  BY DEF Inv, Deep
<1>2. /\ cpu = s /\ cpu' = None /\ pc' = [pc EXCEPT ![s] = "single"]
      /\ n' \in Short /\ txUser' = s /\ txThread' = s
      /\ armed' = armed \cup {Tx(s), Rx(s)} /\ late' = late \ {Tx(s), Rx(s)}
      /\ UNCHANGED <<high, waiting, rxThread, bi, buf, got, out, fault>>
  BY DEF Runs, Single, Suspend
<1>3. /\ Idle /\ OthersRest(None) /\ txUser = None /\ txThread = None /\ ~waiting
      /\ pc[Local] = "idle" /\ ~Ready(Local) /\ buf[Local] = 0
  BY <1>1, NotBusy DEF Single
<1>4. OneOnly' /\ \A x \in Threads : Ready(x)' <=> Ready(x) /\ x # s
  BY <1>1, <1>2, Stops
<1>5. n' \in Nat /\ got = 0
  BY <1>2, <1>3, SizeAssumption DEF Idle
<1>6. TypeOK'
  BY <1>1, <1>2, <1>5, IdsMade DEF TypeOK, Points
<1>7. \A x \in Threads : pc'[x] = IF x = s THEN "single" ELSE pc[x]
  BY <1>1, <1>2 DEF TypeOK
<1>8. ProgramOK'
  BY <1>1, <1>2, <1>3, <1>4, <1>7 DEF ProgramOK
<1>9. /\ \A x \in Sources : Rx(x) \in late' <=> Rx(x) \in late /\ x # s
      /\ \A x \in Threads : Tx(x) \in late' <=> Tx(x) \in late /\ x # s
  BY <1>2, IdsDiffer
<1>10. ShortOK(s)' /\ OthersRest(s)'
  <2>1. Resting(s)
    BY <1>3 DEF OthersRest
  <2>2. ProcessHome'
    BY <1>2, <1>3, <1>4, <1>7, <1>9 DEF Idle, ProcessHome, Meets
  <2>3. OthersRest(s)'
    BY <1>2, <1>3, <1>4, <1>7, <1>9 DEF OthersRest, Resting
  <2>4. Len(out') = 0 /\ got' = 0 /\ buf'[s] = 0 /\ rxThread'[s] = None /\ ~Ready(s)'
    BY <1>2, <1>3, <1>4, <2>1 DEF Idle, Resting
  <2> QED
    BY <2>2, <2>3, <2>4, <1>2, <1>3, <1>7, <1>9 DEF ShortOK, InLinkTx, Idle
<1>11. Apart
  BY <1>2, <1>3 DEF Apart
<1>12. Carries
  <2>1. Carrier = None /\ Carrier' = s /\ Inside' = Inside
    BY <1>2, <1>3 DEF Carrier, Inside
  <2>2. Through!Begin(s)
    BY <2>1, <1>2 DEF Through!Begin
  <2> QED
    BY <2>2 DEF Carries, Through!Next
<1> QED
  BY <1>2, <1>4, <1>6, <1>8, <1>10, <1>11, <1>12 DEF Correct, Deep, InPhase, InStep

(* A long one begins, whether the process is at home yet or not.           *)
LEMMA DoubleCorrect ==
  ASSUME Inv, InStep, NEW s \in Sources, Runs(s, "message"), Double(s)
  PROVE  Correct
<1> USE NameAssumption DEF Threads, Pair
<1>1. TypeOK /\ OneOnly /\ ProgramOK /\ InPhase
  BY DEF Inv, Deep
<1>2. /\ cpu = s /\ pc' = [pc EXCEPT ![s] = "go"]
      /\ n' \in Long /\ txUser' = Process
      /\ UNCHANGED <<waiting, txThread, rxThread, armed, late, buf, got, out, fault>>
  BY DEF Runs, Double, Rendezvous, Suspend
<1>3. /\ Idle /\ OthersRest(None) /\ txUser = None /\ txThread = None /\ ~waiting
      /\ pc[Local] = "idle" /\ ~Ready(Local) /\ buf[Local] = 0
  BY <1>1, NotBusy DEF Double
<1>4. n' \in Nat /\ got = 0 /\ out = <<>> /\ fault = "none" /\ ProcessHome /\ Resting(s)
  BY <1>2, <1>3, SizeAssumption DEF Idle, OthersRest
<1>5. \A x \in Threads : pc'[x] = IF x = s THEN "go" ELSE pc[x]
  BY <1>1, <1>2 DEF TypeOK
<1>6. Carries
  <2>1. Carrier = None /\ Inside' = Inside
    BY <1>2, <1>3 DEF Carrier, Inside
  <2>2. Carrier' = s
    BY <1>1, <1>2 DEF Carrier, Double, Rendezvous, TypeOK
  <2>3. Through!Begin(s)
    BY <2>1, <2>2, <1>2 DEF Through!Begin
  <2> QED
    BY <2>3 DEF Carries, Through!Next
<1>7. Apart
  BY <1>2 DEF Apart
<1>8. CASE bi.sync = None
  <2>1. bi' = [bi EXCEPT !.size = n', !.send = n', !.source = s, !.sync = s] /\ cpu' = None /\ high' = high
    BY <1>1, <1>8 DEF Double, Rendezvous, Suspend, TypeOK
  <2>2. /\ bi'.size = n' /\ bi'.send = n' /\ bi'.source = s /\ bi'.sync = s /\ bi'.status = bi.status
        /\ TypeOK'
    <3>1. /\ bi'.size = n' /\ bi'.send = n' /\ bi'.source = s /\ bi'.sync = s /\ bi'.status = bi.status
          /\ bi' \in [status : SUBSET {"tx", "rx"}, size : Nat, send : Nat,
                    source : Sources \cup {None}, sync : Pair \cup {None}]
      BY <1>1, <1>4, <2>1 DEF TypeOK
    <3>2. n' \in {0} \cup Short \cup Long /\ got' \in 0 .. n' /\ pc' \in [Threads -> Points]
      BY <1>1, <1>2, <1>4 DEF TypeOK, Points
    <3> QED
      BY <3>1, <3>2, <1>1, <1>2, <2>1 DEF TypeOK
  <2>3. OneOnly' /\ \A x \in Threads : Ready(x)' <=> Ready(x) /\ x # s
    BY <1>1, <1>2, <2>1, Stops
  <2>4. ProgramOK'
    BY <1>1, <1>2, <1>3, <1>5, <2>3 DEF ProgramOK
  <2>5. pc[Process] = "home" /\ Ready(Process) /\ buf[Process] = 0
    BY <1>4, <1>8 DEF ProcessHome, Meets
  <2>6. MeetingOK(s)'
    BY <1>2, <1>3, <1>4, <1>5, <2>2, <2>3, <2>5 DEF MeetingOK, Meets, Resting
  <2>7. OthersRest(s)'
    BY <1>2, <1>3, <1>5, <2>3 DEF OthersRest, Resting
  <2> QED
    BY <1>2, <1>4, <1>6, <1>7, <2>2, <2>3, <2>4, <2>6, <2>7 DEF Correct, Deep, InPhase, InStep, LongOK
<1>9. CASE bi.sync # None
  <2>1. Meets(Process, "enter") /\ bi.status = {} /\ Tx(Process) \notin late /\ buf[Process] = 0 /\ bi.sync = Process
    BY <1>4, <1>9 DEF ProcessHome, Meets
  <2>2. /\ bi' = [bi EXCEPT !.size = n', !.send = n', !.source = s, !.sync = None]
        /\ cpu' = cpu /\ high' = Append(high, Process)
    BY <1>1, <2>1 DEF Double, Rendezvous, Suspend, TypeOK
  <2>3. /\ high' \in Seq(Threads) /\ Once(high') /\ OneOnly'
        /\ \A x \in Threads : Ready(x)' <=> Ready(x) \/ x = Process
    BY <1>1, <2>1, <2>2, Resumes DEF Meets
  <2>4. /\ bi'.size = n' /\ bi'.send = n' /\ bi'.source = s /\ bi'.sync = None /\ bi'.status = {}
        /\ TypeOK'
    <3>1. /\ bi'.size = n' /\ bi'.send = n' /\ bi'.source = s /\ bi'.sync = None /\ bi'.status = {}
          /\ bi' \in [status : SUBSET {"tx", "rx"}, size : Nat, send : Nat,
                    source : Sources \cup {None}, sync : Pair \cup {None}]
      BY <1>1, <1>4, <2>1, <2>2 DEF TypeOK
    <3>2. n' \in {0} \cup Short \cup Long /\ got' \in 0 .. n' /\ pc' \in [Threads -> Points]
      BY <1>1, <1>2, <1>4 DEF TypeOK, Points
    <3> QED
      BY <3>1, <3>2, <1>1, <1>2, <2>2, <2>3 DEF TypeOK
  <2>5. ProgramOK'
    BY <1>1, <1>2, <1>3, <1>5, <2>3 DEF ProgramOK
  <2>6. MeetingOK(s)'
    <3>1. pc[Process] = "enter" /\ Ready(s)
      BY <1>2, <2>1 DEF Meets, Ready
    <3> QED
      BY <1>2, <1>3, <1>4, <1>5, <2>1, <2>3, <2>4, <3>1 DEF MeetingOK, Meets, Resting
  <2>7. OthersRest(s)'
    BY <1>2, <1>3, <1>5, <2>3 DEF OthersRest, Resting
  <2> QED
    BY <1>2, <1>4, <1>6, <1>7, <2>3, <2>4, <2>5, <2>6, <2>7 DEF Correct, Deep, InPhase, InStep, LongOK
<1> QED
  BY <1>8, <1>9

(* Every branch of LinkMsg() that is modelled.                             *)
LEMMA LinkMsgCorrect ==
  ASSUME Inv, InStep, NEW s \in Sources, LinkMsg(s)
  PROVE  Correct
  BY BufferedCorrect, SingleCorrect, DoubleCorrect DEF LinkMsg
----------------------------------------------------------------------------
(* The guardian starts a long message.                                     *)

(* The second meeting lets the process read the first piece.               *)
LEMMA GoCorrect ==
  ASSUME Inv, InStep, NEW s \in Sources, Go(s)
  PROVE  Correct
<1> USE NameAssumption DEF Threads, Pair
<1>1. TypeOK /\ OneOnly /\ ProgramOK /\ InPhase
  BY DEF Inv, Deep
<1>2. /\ cpu = s /\ pc[s] = "go" /\ pc' = [pc EXCEPT ![s] = "proto"]
      /\ UNCHANGED <<txUser, waiting, txThread, rxThread, armed, late, buf, n, got, out, fault>>
  BY DEF Runs, Go, Rendezvous, Suspend, links, data
<1>3. LongOK(s) /\ OthersRest(s) /\ MeetingOK(s) /\ Ready(s) /\ bi.status = {} /\ Tx(Process) \notin late
  <2>1. LongOK(s) /\ OthersRest(s)
    BY <1>1, <1>2 DEF InPhase, OthersRest, Resting, Idle, ShortOK
  <2>2. MeetingOK(s)
    BY <2>1, <1>2 DEF LongOK, EndOK, TurnOK, Writing, Reading, Ended, Leaving, Over, Meets
  <2> QED
    BY <2>1, <2>2, <1>2 DEF MeetingOK, Meets, Ready
<1>4. \A x \in Threads : pc'[x] = IF x = s THEN "proto" ELSE pc[x]
  BY <1>1, <1>2 DEF TypeOK
<1>5. CASE bi.sync = None
  <2>1. bi' = [bi EXCEPT !.sync = s] /\ cpu' = None /\ high' = high
    BY <1>5 DEF Go, Rendezvous, Suspend
  <2>2. /\ bi'.sync = s /\ bi'.status = {} /\ bi'.size = bi.size /\ bi'.send = bi.send /\ bi'.source = bi.source
        /\ TypeOK'
    BY <1>1, <1>2, <1>3, <2>1 DEF TypeOK, Points
  <2>3. OneOnly' /\ \A x \in Threads : Ready(x)' <=> Ready(x) /\ x # s
    BY <1>1, <1>2, <2>1, Stops
  <2>4. ProgramOK' /\ OthersRest(s)'
    BY <1>1, <1>2, <1>3, <1>4, <2>3, ProgramKept, RestKept DEF LongOK
  <2>5. MeetingOK(s)'
    BY <1>2, <1>3, <1>4, <1>5, <2>2, <2>3 DEF MeetingOK, Meets
  <2>6. Apart /\ Carries
    BY <1>2, <2>2, Stutters DEF Apart
  <2> QED
    BY <1>2, <1>3, <2>2, <2>3, <2>4, <2>5, <2>6, LongCorrect DEF LongOK
<1>6. CASE bi.sync # None
  <2>1. Meets(Process, "read") /\ bi.sync = Process
    BY <1>2, <1>3, <1>6 DEF MeetingOK, Meets, Ready
  <2>2. bi' = [bi EXCEPT !.sync = None] /\ cpu' = cpu /\ high' = Append(high, Process)
    BY <1>6, <2>1 DEF Go, Rendezvous
  <2>3. /\ high' \in Seq(Threads) /\ Once(high') /\ OneOnly'
        /\ \A x \in Threads : Ready(x)' <=> Ready(x) \/ x = Process
    BY <1>1, <2>1, <2>2, Resumes DEF Meets
  <2>4. /\ bi'.sync = None /\ bi'.status = {} /\ bi'.size = bi.size /\ bi'.send = bi.send /\ bi'.source = bi.source
        /\ TypeOK'
    BY <1>1, <1>2, <1>3, <2>2, <2>3 DEF TypeOK, Points
  <2>5. ProgramOK' /\ OthersRest(s)'
    BY <1>1, <1>2, <1>3, <1>4, <2>3, ProgramKept, RestKept DEF LongOK
  <2>6. TurnOK(s, Process, s)'
    <3>1. /\ pc'[s] = "proto" /\ pc'[Process] = "read" /\ Ready(s)' /\ Ready(Process)'
          /\ txThread' = None /\ rxThread'[s] = None /\ Tx(Process) \notin late' /\ Rx(s) \notin late'
          /\ buf'[s] = 0 /\ buf'[Process] = 0 /\ out' = <<>> /\ got' = 0
          /\ bi'.send = n' /\ bi'.size = n' /\ fault' = "none" /\ n \in Nat
      BY <1>1, <1>2, <1>3, <1>4, <2>1, <2>3, <2>4, Numbers DEF MeetingOK, Meets
    <3>2. Writing(s)'
      BY <3>1, <2>4 DEF Writing
    <3>3. Reading(Process, s)'
      <4>1. got' + bi'.size = n'
        BY <3>1, <1>2
      <4> QED
        BY <3>1, <4>1, <2>4 DEF Reading
    <3>4. Len(out') <= got' + 2
      BY <3>1
    <3>5. InTurn(s, Process)'
      BY <3>1, <3>4, <2>4 DEF InTurn, Ahead, Meets, Ended, Leaving, Over
    <3> QED
      BY <3>1, <3>2, <3>3, <3>5, <2>4 DEF TurnOK
  <2>7. Apart /\ Carries
    BY <1>2, <2>4, Stutters DEF Apart
  <2> QED
    BY <1>2, <1>3, <2>3, <2>4, <2>5, <2>6, <2>7, LongCorrect DEF LongOK
<1> QED
  BY <1>5, <1>6

(* The guardian has the first turn to send, with nothing sent.             *)
LEMMA ProtoCorrect ==
  ASSUME Inv, InStep, NEW s \in Sources, Proto(s)
  PROVE  Correct
<1> USE NameAssumption DEF Threads, Pair
<1>1. TypeOK /\ OneOnly /\ ProgramOK /\ InPhase
  BY DEF Inv, Deep
<1>2. /\ cpu = s /\ pc[s] = "proto" /\ cpu' = None /\ pc' = [pc EXCEPT ![s] = "header"]
      /\ txThread' = s /\ armed' = armed \cup {Tx(Process)}
      /\ UNCHANGED <<high, txUser, waiting, rxThread, bi, late, buf, n, got, out, fault>>
  BY DEF Runs, Proto, LinkTx, Suspend, data
<1>3. /\ TurnOK(s, Process, s) /\ OthersRest(s) /\ txUser = Process /\ bi.source = s
      /\ n \in Long /\ fault # "missed" /\ bi.sync # s
  BY <1>1, <1>2, InLoop
<1>4. OneOnly' /\ \A x \in Threads : Ready(x)' <=> Ready(x) /\ x # s
  BY <1>1, <1>2, Stops
<1>5. TypeOK'
  BY <1>1, <1>2, IdsMade DEF TypeOK, Points
<1>6. \A x \in Threads : pc'[x] = IF x = s THEN "header" ELSE pc[x]
  BY <1>1, <1>2 DEF TypeOK
<1>7. ProgramOK' /\ OthersRest(s)'
  BY <1>1, <1>2, <1>3, <1>4, <1>6, ProgramKept, RestKept
<1>8. Reading(Process, s)' /\ (Ended(Process)' <=> Ended(Process)) /\ (Meets(Process, "write")' <=> Meets(Process, "write"))
  <2>1. Reading(Process, s) /\ (Meets(Process, "write") => bi.status = {})
    BY <1>3 DEF TurnOK, Reading, Ended, Leaving, Over, Meets
  <2> QED
    BY <1>2, <1>4, <1>6, <2>1, ReaderKept
<1>9. /\ txThread = None /\ buf[s] = 0 /\ out = <<>> /\ bi.send = n /\ Tx(Process) \notin late
      /\ "tx" \notin bi.status
  BY <1>2, <1>3 DEF TurnOK, Writing, Ended, Leaving, Over, Meets
<1>10. Len(out') = 0
  BY <1>2, <1>9
<1>11. Writing(s)'
  BY <1>2, <1>4, <1>6, <1>9, <1>10 DEF Writing, InLinkTx
<1>12. InTurn(s, Process)'
  BY <1>2, <1>3, <1>6, <1>8 DEF TurnOK, InTurn, Ahead
<1>13. TurnOK(s, Process, s)'
  BY <1>2, <1>3, <1>4, <1>6, <1>8, <1>11, <1>12 DEF TurnOK, Meets, Over
<1>14. Apart /\ Carries
  BY <1>2, <1>9, Stutters DEF Apart
<1> QED
  BY <1>2, <1>3, <1>4, <1>5, <1>7, <1>13, <1>14, LongCorrect
(* The header goes out after the protocol byte.                            *)
LEMMA HeaderCorrect ==
  ASSUME Inv, InStep, NEW s \in Sources, Header(s)
  PROVE  Correct
<1> USE NameAssumption DEF Threads, Pair
<1>1. TypeOK /\ OneOnly /\ ProgramOK /\ InPhase
  BY DEF Inv, Deep
<1>2. /\ cpu = s /\ pc[s] \in {"header", "body"}
      /\ UNCHANGED <<txUser, waiting, rxThread, armed, late, buf, n, got, out>>
  BY DEF Runs, Header, LinkTx, links, data
<1>3. /\ TurnOK(s, Process, s) /\ OthersRest(s) /\ txUser = Process /\ bi.source = s
      /\ n \in Long /\ fault # "missed" /\ bi.sync # s
  BY <1>1, <1>2, InLoop
<1>4. /\ txThread = None /\ buf[s] = 0 /\ bi.send = n
      /\ "tx" \notin bi.status
      /\ Len(out) = IF Tx(Process) \notin late THEN (IF pc[s] = "header" THEN 1 ELSE 2)
                                               ELSE (IF pc[s] = "header" THEN 0 ELSE 1)
  BY <1>2, <1>3 DEF TurnOK, Writing, InLinkTx, Ended, Leaving, Over, Meets, Ready
<1>r. Reading(Process, s) /\ (Meets(Process, "write") => bi.status = {})
  BY <1>3 DEF TurnOK, Reading, Ended, Leaving, Over, Meets
<1>n. n \in Nat /\ n > 0
  <2>1. n \in Nat \ 0 .. 4
    BY <1>3, SizeAssumption
  <2> QED
    BY <2>1
<1>5. CASE pc[s] = "header" /\ Tx(Process) \notin late
  <2>1. /\ txThread' = s /\ cpu' = None /\ high' = high /\ pc' = [pc EXCEPT ![s] = "body"]
        /\ UNCHANGED <<bi, fault>>
    BY <1>5 DEF Header, Runs, LinkTx, Suspend
  <2>2. OneOnly' /\ \A x \in Threads : Ready(x)' <=> Ready(x) /\ x # s
    BY <1>1, <1>2, <2>1, Stops
  <2>3. TypeOK'
    BY <1>1, <1>2, <2>1 DEF TypeOK, Points
  <2>4. \A x \in Threads : pc'[x] = IF x = s THEN "body" ELSE pc[x]
    BY <1>1, <2>1 DEF TypeOK
  <2>5. ProgramOK' /\ OthersRest(s)'
    BY <1>1, <1>2, <1>3, <2>2, <2>4, ProgramKept, RestKept
  <2>6. Reading(Process, s)' /\ (Ended(Process)' <=> Ended(Process)) /\ (Meets(Process, "write")' <=> Meets(Process, "write"))
    BY <1>2, <1>r, <2>1, <2>2, <2>4, ReaderKept
  <2>7. Writing(s)'
    BY <1>2, <1>4, <1>5, <2>1, <2>2, <2>4 DEF Writing, InLinkTx
  <2>8. InTurn(s, Process)'
    BY <1>2, <1>3, <1>5, <2>1, <2>4, <2>6 DEF TurnOK, InTurn, Ahead
  <2>9. TurnOK(s, Process, s)'
    BY <1>2, <1>3, <2>1, <2>2, <2>4, <2>6, <2>7, <2>8 DEF TurnOK, Meets, Over
  <2>10. Apart /\ Carries
    BY <1>2, <1>4, <2>1, Stutters DEF Apart
  <2> QED
    BY <1>2, <1>3, <2>1, <2>2, <2>3, <2>5, <2>9, <2>10, LongCorrect
<1>6. CASE pc[s] = "body" /\ Tx(Process) \notin late
  <2>1. /\ pc' = [pc EXCEPT ![s] = "enter"] /\ UNCHANGED <<cpu, high, txThread, bi>>
        /\ fault' = IF bi.status = {} THEN fault ELSE "missed"
    BY <1>6 DEF Header, Runs, Goto, links
  <2>2. OneOnly' /\ \A x \in Threads : Ready(x)' <=> Ready(x)
    BY <1>1, <1>2, <2>1 DEF OneOnly, Ready
  <2>3. TypeOK'
    BY <1>1, <1>2, <2>1 DEF TypeOK, Points
  <2>4. \A x \in Threads : pc'[x] = IF x = s THEN "enter" ELSE pc[x]
    BY <1>1, <2>1 DEF TypeOK
  <2>a. Apart
    BY <1>2, <2>1 DEF Apart
  <2>5. CASE bi.status # {}
    <3>1. fault' = "missed" /\ OwnsLink'
      BY <1>2, <1>3, <1>4, <2>1, <2>5 DEF OwnsLink
    <3>2. Carries
      BY <1>2, <1>3, <2>1, <3>1, Fails
    <3> QED
      BY <2>3, <2>a, <3>1, <3>2 DEF Correct, InStep
  <2>6. CASE bi.status = {}
    <3>1. fault' = fault
      BY <2>1, <2>6
    <3>2. ProgramOK' /\ OthersRest(s)'
      BY <1>1, <1>2, <1>3, <2>1, <2>2, <2>4, ProgramKept, RestKept
    <3>3. Reading(Process, s)' /\ (Ended(Process)' <=> Ended(Process)) /\ (Meets(Process, "write")' <=> Meets(Process, "write"))
      BY <1>2, <1>r, <2>1, <2>2, <2>4, ReaderKept
    <3>4. bi.send + Len(out) = n + 2 /\ bi.send > 0
      BY <1>4, <1>6, <1>n
    <3>5. Writing(s)'
      BY <1>2, <1>4, <1>6, <2>1, <2>4, <2>6, <3>4 DEF Writing, Counted
    <3>6. InTurn(s, Process)'
      BY <1>2, <1>3, <1>6, <2>1, <2>4, <3>3 DEF TurnOK, InTurn, Ahead
    <3>7. TurnOK(s, Process, s)'
      BY <1>2, <1>3, <2>1, <2>2, <2>4, <3>1, <3>3, <3>5, <3>6 DEF TurnOK, Meets, Over
    <3>8. Carries
      BY <1>2, <2>1, <3>1, Stutters
    <3> QED
      BY <1>2, <1>3, <2>1, <2>2, <2>3, <2>a, <3>1, <3>2, <3>7, <3>8, LongCorrect
  <2> QED
    BY <2>5, <2>6
<1>7. CASE Tx(Process) \in late
  <2> PICK b : b = [bi EXCEPT !.status = @ \cup {"tx"}]
    OBVIOUS
  <2>1. Failed /\ Rendezvous(s, "done", b) /\ txThread' = txThread
    BY <1>7 DEF Header, links
  <2>2. /\ b.status = bi.status \cup {"tx"} /\ b.size = bi.size /\ b.send = bi.send
        /\ b.source = bi.source /\ b.sync = bi.sync
        /\ b \in [status : SUBSET {"tx", "rx"}, size : Nat, send : Nat,
                  source : Sources \cup {None}, sync : Pair \cup {None}]
    BY <1>1 DEF TypeOK
  <2>3. pc' = [pc EXCEPT ![s] = "done"]
    BY <2>1 DEF Rendezvous, Suspend
  <2>4. \A x \in Threads : pc'[x] = IF x = s THEN "done" ELSE pc[x]
    BY <1>1, <2>3 DEF TypeOK
  <2>a. Apart
    BY <1>2, <2>1 DEF Apart
  <2>5. CASE bi.sync = None
    <3>1. bi' = [b EXCEPT !.sync = s] /\ cpu' = None /\ high' = high /\ fault' = "seen"
      BY <2>1, <2>2, <2>5 DEF Rendezvous, Suspend, Failed, Unseen
    <3>2. /\ bi'.status = bi.status \cup {"tx"} /\ bi'.size = bi.size /\ bi'.send = bi.send
          /\ bi'.source = bi.source /\ bi'.sync = s
          /\ bi' \in [status : SUBSET {"tx", "rx"}, size : Nat, send : Nat,
                      source : Sources \cup {None}, sync : Pair \cup {None}]
      BY <2>2, <3>1
    <3>3. OneOnly' /\ \A x \in Threads : Ready(x)' <=> Ready(x) /\ x # s
      BY <1>1, <1>2, <3>1, Stops
    <3>4. TypeOK'
      BY <1>1, <1>2, <2>1, <2>3, <3>1, <3>2 DEF TypeOK, Points
    <3>5. ProgramOK' /\ OthersRest(s)'
      BY <1>1, <1>2, <1>3, <2>4, <3>3, ProgramKept, RestKept
    <3>6. ~Ended(Process) /\ ~Meets(Process, "write")
      BY <1>2, <2>5 DEF Ended, Leaving, Over, Meets
    <3>7. Reading(Process, s)' /\ (Ended(Process)' <=> Ended(Process)) /\ (Meets(Process, "write")' <=> Meets(Process, "write"))
      BY <1>2, <1>r, <2>4, <2>5, <3>1, <3>2, <3>3, <3>6, ReaderKept
    <3>8. Ended(s)' /\ Over(s)'
      BY <1>2, <1>4, <2>4, <3>2, <3>3 DEF Ended, Over, Meets
    <3>9. Writing(s)'
      BY <1>2, <1>4, <2>1, <2>4, <3>2, <3>8, Numbers, <1>1 DEF Writing
    <3>10. InTurn(s, Process)'
      BY <1>2, <1>3, <1>4, <2>4, <3>2, <3>6, <3>7 DEF TurnOK, InTurn, Ahead
    <3>11. TurnOK(s, Process, s)'
      BY <1>3, <3>1, <3>2, <3>7, <3>8, <3>9, <3>10 DEF TurnOK
    <3>12. Carries
      BY <1>2, <1>3, <3>1, <3>2, Fails
    <3> QED
      BY <1>2, <1>3, <2>a, <3>1, <3>2, <3>3, <3>4, <3>5, <3>11, <3>12, LongCorrect
  <2>6. CASE bi.sync # None
    <3>1. bi.sync = Process /\ (Meets(Process, "write") \/ Over(Process)) /\ ~Ready(Process)
      BY <1>3, <2>6 DEF TurnOK, Meets, Over
    <3>2. bi' = [b EXCEPT !.sync = None] /\ cpu' = cpu /\ high' = Append(high, Process)
      BY <2>1, <2>2, <3>1 DEF Rendezvous
    <3>3. /\ high' \in Seq(Threads) /\ Once(high') /\ OneOnly'
          /\ \A x \in Threads : Ready(x)' <=> Ready(x) \/ x = Process
      BY <1>1, <3>1, <3>2, Resumes
    <3>4. /\ bi'.status = bi.status \cup {"tx"} /\ bi'.size = bi.size /\ bi'.send = bi.send
          /\ bi'.source = bi.source /\ bi'.sync = None
          /\ bi' \in [status : SUBSET {"tx", "rx"}, size : Nat, send : Nat,
                      source : Sources \cup {None}, sync : Pair \cup {None}]
      BY <2>2, <3>2
    <3>5. fault' \in {"seen", "missed"} /\ (Meets(Process, "write") => fault' = "missed")
      BY <2>1, <3>1 DEF Failed, Unseen, Meets
    <3>6. TypeOK'
      BY <1>1, <1>2, <2>1, <2>3, <3>2, <3>3, <3>4, <3>5 DEF TypeOK, Points
    <3>7. Carries
      BY <1>2, <1>3, <3>4, <3>5, Fails
    <3>8. CASE fault' = "missed"
      <4>1. OwnsLink'
        BY <1>2, <1>3, <1>4, <2>1 DEF OwnsLink
      <4> QED
        BY <2>a, <3>6, <3>7, <3>8, <4>1 DEF Correct, InStep
    <3>9. CASE fault' = "seen"
      <4>1. Over(Process)
        BY <3>1, <3>5, <3>9
      <4>2. ProgramOK' /\ OthersRest(s)'
        BY <1>1, <1>2, <1>3, <2>4, <3>3, ProgramKept, RestKept
      <4>3. rxThread[s] = None /\ pc[Process] = "home" /\ buf[Process] = 0
        BY <1>r, <4>1 DEF Reading, Over, Meets
      <4>4. EndOK(s)'
        BY <1>2, <1>4, <2>1, <2>4, <3>2, <3>3, <3>4, <3>9, <4>3 DEF EndOK, ProcessHome, Complete, Ready
      <4> QED
        BY <1>2, <1>3, <2>a, <3>3, <3>4, <3>6, <3>7, <3>9, <4>2, <4>4, LongCorrect
    <3> QED
      BY <3>5, <3>8, <3>9
  <2> QED
    BY <2>5, <2>6
<1> QED
  BY <1>2, <1>5, <1>6, <1>7
----------------------------------------------------------------------------
(* A short message, and the end of every message.                          *)

(* One thread does it all, and sees every failure.                         *)
LEMMA SingleBufferCorrect ==
  ASSUME Inv, InStep, NEW s \in Sources, SingleBuffer(s)
  PROVE  Correct
<1> USE NameAssumption DEF Threads, Pair
<1>1. TypeOK /\ OneOnly /\ ProgramOK /\ InPhase
  BY DEF Inv, Deep
<1>2. /\ cpu = s /\ pc[s] \in {"single", "next", "forward"}
      /\ UNCHANGED <<txUser, waiting, bi, armed, late, buf, n, got, out>>
  BY DEF SingleBuffer, SingleGoes, Runs, LinkTx, LinkRx, links, data
<1>3. ShortOK(s) /\ OthersRest(s) /\ Ready(s)
  BY <1>1, <1>2 DEF InPhase, OthersRest, Resting, Idle, LongOK, MeetingOK, EndOK, TurnOK, Writing,
                    Reading, Ended, Leaving, Over, Meets, Ready
<1>4. /\ txUser = s /\ ProcessHome /\ n \in Short /\ txThread = None /\ rxThread[s] = None /\ fault = "none"
      /\ pc[s] = "single" => Rx(s) \notin late /\ got = 0 /\ buf[s] = 0 /\ (Tx(s) \notin late => Len(out) = 1)
      /\ pc[s] = "next" => Rx(s) \notin late /\ (Tx(s) \notin late => Len(out) = got + 2 /\ buf[s] = 0)
      /\ pc[s] = "forward" => Tx(s) \notin late /\ (Rx(s) \notin late => Len(out) = got + 1 /\ buf[s] = got /\ got > 0)
  BY <1>1, <1>2, <1>3 DEF ShortOK, InLinkTx, InLinkRx, TypeOK
<1>n. n \in Nat /\ got \in Nat /\ Len(out) \in Nat
  BY <1>1, Numbers
<1>5. ASSUME NEW p \in {"next", "forward"}, cpu' = None, high' = high, pc' = [pc EXCEPT ![s] = p],
             \/ p = "next" /\ txThread' = s /\ rxThread' = rxThread /\ Len(out) = got + 1 /\ buf[s] = got
             \/ p = "forward" /\ txThread' = None /\ rxThread' = [rxThread EXCEPT ![s] = s]
                /\ Len(out) = got + 2 /\ buf[s] = 0 /\ got < n,
             Tx(s) \notin late, Rx(s) \notin late, fault' = fault
      PROVE  Correct
  <2>1. OneOnly' /\ \A x \in Threads : Ready(x)' <=> Ready(x) /\ x # s
    BY <1>1, <1>2, <1>5, Stops
  <2>2. TypeOK'
    <3>1. /\ txThread' \in Threads \cup {None} /\ rxThread' \in [Sources -> Pair \cup {None}]
      <4>1. CASE rxThread' = rxThread
        BY <4>1, <1>1, <1>5 DEF TypeOK
      <4>2. CASE rxThread' = [rxThread EXCEPT ![s] = s]
        BY <4>2, <1>1, <1>5 DEF TypeOK
      <4> QED
        BY <4>1, <4>2, <1>5
    <3>2. pc' \in [Threads -> Points]
      <4>1. p \in Points /\ pc \in [Threads -> Points]
        BY <1>1 DEF TypeOK, Points
      <4> QED
        BY <4>1, <1>5
    <3> QED
      BY <3>1, <3>2, <1>1, <1>2, <1>5 DEF TypeOK
  <2>3. /\ \A x \in Threads : pc'[x] = IF x = s THEN p ELSE pc[x]
        /\ \A x \in Sources : rxThread'[x] = IF x = s /\ p = "forward" THEN s ELSE rxThread[x]
    BY <1>1, <1>5 DEF TypeOK
  <2>4. ProgramOK' /\ OthersRest(s)'
    BY <1>1, <1>2, <1>3, <1>4, <2>1, <2>3, ProgramKept, RestKept
  <2>5. ProcessHome'
    BY <1>2, <1>4, <2>1, <2>3 DEF ProcessHome, Meets
  <2>6. ShortOK(s)'
    <3>1. CASE p = "next"
      BY <3>1, <1>2, <1>4, <1>5, <2>1, <2>3, <2>5 DEF ShortOK, InLinkTx
    <3>2. CASE p = "forward"
      BY <3>2, <1>2, <1>4, <1>5, <2>1, <2>3, <2>5 DEF ShortOK, InLinkRx
    <3> QED
      BY <3>1, <3>2
  <2>7. Apart /\ Carries
    BY <1>2, <1>4, <1>5, <2>3, Stutters DEF Apart
  <2> QED
    BY <1>5, <1>4, <2>1, <2>2, <2>4, <2>6, <2>7 DEF Correct, Deep, InPhase, InStep
<1>6. ASSUME Goto(s, "done"), UNCHANGED links, (fault' = fault /\ Len(out) = n + 2) \/ fault' = "seen"
      PROVE  Correct
  <2>1. /\ pc' = [pc EXCEPT ![s] = "done"] /\ UNCHANGED <<cpu, high, txThread, rxThread>>
    BY <1>6 DEF Goto, links
  <2>2. OneOnly' /\ \A x \in Threads : Ready(x)' <=> Ready(x)
    BY <1>1, <1>2, <2>1 DEF OneOnly, Ready
  <2>3. TypeOK'
    BY <1>1, <1>2, <1>6, <2>1 DEF TypeOK, Points
  <2>4. \A x \in Threads : pc'[x] = IF x = s THEN "done" ELSE pc[x]
    BY <1>1, <2>1 DEF TypeOK
  <2>5. ProgramOK' /\ OthersRest(s)'
    BY <1>1, <1>2, <1>3, <1>4, <2>1, <2>2, <2>4, ProgramKept, RestKept
  <2>6. ProcessHome'
    BY <1>2, <1>4, <2>1, <2>2, <2>4 DEF ProcessHome, Meets
  <2>7. ShortOK(s)'
    <3>1. fault' = "seen" \/ Len(out') = n' + 2
      BY <1>2, <1>6
    <3>2. fault' # "missed"
      BY <1>4, <1>6
    <3> QED
      BY <3>1, <3>2, <1>2, <1>3, <1>4, <2>1, <2>2, <2>4, <2>6 DEF ShortOK, Complete
  <2>8. Carries
    <3>1. CASE fault' = fault
      BY <3>1, <1>2, Stutters
    <3>2. CASE fault' = "seen"
      BY <3>2, <1>2, <1>4, Fails
    <3> QED
      BY <3>1, <3>2, <1>6
  <2>9. Apart
    BY <2>1 DEF Apart
  <2> QED
    BY <1>4, <1>6, <2>2, <2>3, <2>5, <2>7, <2>8, <2>9 DEF Correct, Deep, InPhase, InStep
<1>7. CASE Runs(s, "single") /\ Tx(s) \notin late /\ LinkTx(s, "next") /\ UNCHANGED fault
  <2>1. Len(out) = got + 1 /\ buf[s] = got
    BY <1>4, <1>7 DEF Runs
  <2> QED
    BY <1>4, <1>5, <1>7, <2>1 DEF Runs, LinkTx, Suspend
<1>8. CASE Runs(s, "next") /\ Tx(s) \notin late /\ got < n /\ LinkRx(s, s, "forward") /\ UNCHANGED fault
  <2>1. txThread' = None
    BY <1>4, <1>8 DEF LinkRx
  <2> QED
    BY <1>4, <1>5, <1>8, <2>1 DEF Runs, LinkRx, Suspend
<1>9. CASE Runs(s, "next") /\ Tx(s) \notin late /\ got = n /\ Goto(s, "done") /\ UNCHANGED <<links, fault>>
  BY <1>4, <1>6, <1>9 DEF Runs
<1>10. CASE Runs(s, "forward") /\ Rx(s) \notin late /\ LinkTx(s, "next") /\ UNCHANGED fault
  BY <1>4, <1>5, <1>10 DEF Runs, LinkTx, Suspend
<1>11. CASE Goto(s, "done") /\ fault' = "seen" /\ UNCHANGED links
  BY <1>6, <1>11
<1> QED
  BY <1>7, <1>8, <1>9, <1>10, <1>11 DEF SingleBuffer, SingleGoes

(* The link goes to the program that waits, if any.                        *)
LEMMA DoneCorrect ==
  ASSUME Inv, InStep, NEW s \in Sources, Done(s)
  PROVE  Correct
<1> USE NameAssumption DEF Threads, Pair
<1>1. TypeOK /\ OneOnly /\ ProgramOK /\ InPhase
  BY DEF Inv, Deep
<1>2. /\ cpu = s /\ pc[s] = "done" /\ cpu' = None /\ pc' = [pc EXCEPT ![s] = "idle"]
      /\ txUser' = (IF waiting THEN Local ELSE None) /\ waiting' = FALSE
      /\ high' = (IF waiting THEN Append(high, Local) ELSE high)
      /\ armed' = armed \ {Rx(s), Tx(s)} /\ late' = late \ {Rx(s), Tx(s)}
      /\ n' = 0 /\ got' = 0 /\ buf' = [buf EXCEPT ![s] = 0] /\ out' = <<>> /\ fault' = "none"
      /\ UNCHANGED <<txThread, rxThread, bi>>
  BY DEF Runs, Done, SignalLink
<1>3. OthersRest(s) /\ (ShortOK(s) \/ LongOK(s))
  BY <1>1, <1>2 DEF InPhase, OthersRest, Resting
<1>4. /\ ProcessHome /\ txThread = None /\ rxThread[s] = None /\ Complete
      /\ Carrier = s
  <2>1. CASE ShortOK(s)
    BY <2>1, <1>1, <1>2 DEF ShortOK, Carrier, TypeOK
  <2>2. CASE LongOK(s)
    BY <2>2, <1>2 DEF LongOK, MeetingOK, EndOK, TurnOK, Writing, Reading, Ended, Leaving, Over, Meets, Ready, Carrier
  <2> QED
    BY <1>3, <2>1, <2>2
<1>5. txUser # None /\ txUser # Local
  BY <1>3 DEF ShortOK, LongOK
<1>6. /\ waiting => pc[Local] = "queue" /\ ~Ready(Local)
      /\ ~waiting => pc[Local] = "idle" /\ ~Ready(Local)
      /\ buf[Local] = 0
  BY <1>1, <1>5 DEF ProgramOK
<1>7. /\ high' \in Seq(Threads) /\ Once(high') /\ OneOnly'
      /\ \A x \in Threads : Ready(x)' <=> (Ready(x) /\ x # s) \/ (waiting /\ x = Local)
  <2>1. CASE waiting
    BY <2>1, <1>1, <1>2, <1>6, Hands
  <2>2. CASE ~waiting
    <3>1. high' = high
      BY <2>2, <1>2
    <3>2. OneOnly' /\ \A x \in Threads : Ready(x)' <=> Ready(x) /\ x # s
      BY <3>1, <1>1, <1>2, Stops
    <3> QED
      BY <2>2, <3>1, <3>2, <1>1 DEF TypeOK
  <2> QED
    BY <2>1, <2>2
<1>8. \A x \in Threads : /\ pc'[x] = IF x = s THEN "idle" ELSE pc[x]
                         /\ buf'[x] = IF x = s THEN 0 ELSE buf[x]
  BY <1>1, <1>2 DEF TypeOK
<1>9. \A x \in Pair : buf'[x] = 0
  BY <1>3, <1>4, <1>8 DEF OthersRest, Resting, ProcessHome
<1>10. TypeOK'
  <2>1. buf' \in [Threads -> 0 .. got']
    <3>1. \A x \in Threads : buf'[x] \in 0 .. 0
      BY <1>6, <1>8, <1>9
    <3> QED
      BY <3>1, <1>1, <1>2 DEF TypeOK
  <2>2. out' \in Seq(Nat) /\ n' \in {0} \cup Short \cup Long /\ got' \in 0 .. n'
    BY <1>2
  <2> QED
    BY <2>1, <2>2, <1>1, <1>2, <1>7 DEF TypeOK, Points
<1>11. ProgramOK'
  BY <1>2, <1>4, <1>6, <1>7, <1>8 DEF ProgramOK
<1>12. /\ \A x \in Sources : Rx(x) \in late' <=> Rx(x) \in late /\ x # s
       /\ \A x \in Threads : Tx(x) \in late' <=> Tx(x) \in late /\ x # s
  BY <1>2, IdsDiffer
<1>13. Idle' /\ OthersRest(None)'
  <2>1. ProcessHome'
    BY <1>2, <1>4, <1>7, <1>8, <1>12 DEF ProcessHome, Meets
  <2>2. OthersRest(None)'
    BY <1>2, <1>3, <1>4, <1>7, <1>8, <1>12 DEF OthersRest, Resting
  <2> QED
    BY <2>1, <2>2, <1>2, <1>4 DEF Idle
<1>14. Apart
  BY <1>2 DEF Apart
<1>15. Carries
  <2>1. Carrier' = None
    BY <1>2 DEF Carrier
  <2>2. Inside' = <<>>
    <3>1. PICK T : T = {buf'[t] : t \in Pair} \ {0}
      OBVIOUS
    <3>2. T = {}
      BY <3>1, <1>9
    <3> QED
      BY <3>1, <3>2, AscendingOf DEF Inside
  <2>3. fault # "none" \/ Len(out) = n + 2
    BY <1>4 DEF Complete
  <2>4. (fault' # "none") = FALSE
    BY <1>2
  <2>5. Through!End
    BY <2>1, <2>2, <2>3, <2>4, <1>2, <1>4 DEF Through!End, Through!Free
  <2> QED
    BY <2>5 DEF Carries, Through!Next
<1> QED
  BY <1>2, <1>7, <1>10, <1>11, <1>13, <1>14, <1>15 DEF Correct, Deep, InPhase, InStep
----------------------------------------------------------------------------
(* The loop of DoubleBuffer().                                             *)

(* The process comes home and waits for the next long message.             *)
LEMMA HomeCorrect ==
  ASSUME Inv, InStep, Home
  PROVE  Correct
<1> USE NameAssumption DEF Threads, Pair
<1>1. TypeOK /\ OneOnly /\ ProgramOK /\ InPhase
  BY DEF Inv, Deep
<1> PICK b : b = [bi EXCEPT !.status = {}]
  OBVIOUS
<1>2. /\ cpu = Process /\ pc[Process] = "home" /\ Rendezvous(Process, "enter", b)
      /\ pc' = [pc EXCEPT ![Process] = "enter"]
      /\ armed' = armed \ {Tx(Process)} /\ late' = late \ {Tx(Process)}
      /\ UNCHANGED <<txUser, waiting, txThread, rxThread, buf, n, got, out, fault>>
  BY DEF Runs, Home, Rendezvous, Suspend, links, data
<1>3. /\ b.status = {} /\ b.size = bi.size /\ b.send = bi.send
      /\ b.source = bi.source /\ b.sync = bi.sync
      /\ b \in [status : SUBSET {"tx", "rx"}, size : Nat, send : Nat,
                source : Sources \cup {None}, sync : Pair \cup {None}]
  BY <1>1 DEF TypeOK
<1>4. \A x \in Threads : pc'[x] = IF x = Process THEN "enter" ELSE pc[x]
  BY <1>1, <1>2 DEF TypeOK
<1>5. /\ \A x \in Sources : Rx(x) \in late' <=> Rx(x) \in late
      /\ \A x \in Threads : Tx(x) \in late' <=> Tx(x) \in late /\ x # Process
  BY <1>2, IdsDiffer
<1>6. Ready(Process)
  BY <1>2 DEF Ready
<1>7. Apart
  BY <1>2 DEF Apart
<1>8. CASE bi.sync = None
  <2>1. bi' = [b EXCEPT !.sync = Process] /\ cpu' = None /\ high' = high
    BY <1>2, <1>3, <1>8 DEF Rendezvous, Suspend
  <2>2. /\ bi'.status = {} /\ bi'.size = bi.size /\ bi'.send = bi.send
        /\ bi'.source = bi.source /\ bi'.sync = Process
        /\ bi' \in [status : SUBSET {"tx", "rx"}, size : Nat, send : Nat,
                    source : Sources \cup {None}, sync : Pair \cup {None}]
    BY <1>3, <2>1
  <2>3. OneOnly' /\ \A x \in Threads : Ready(x)' <=> Ready(x) /\ x # Process
    BY <1>1, <1>2, <2>1, Stops
  <2>4. TypeOK'
    BY <1>1, <1>2, <2>1, <2>2 DEF TypeOK, Points
  <2>5. ProgramOK'
    BY <1>1, <1>2, <1>4, <1>5, <2>3 DEF ProgramOK, InLinkTx
  <2>6. ASSUME NEW c, OthersRest(c) PROVE OthersRest(c)'
    BY <2>6, <1>2, <1>4, <1>5, <2>3, RestKept
  <2>7. ASSUME ProcessHome PROVE ProcessHome'
    BY <2>7, <1>2, <1>4, <1>5, <2>2, <2>3 DEF ProcessHome, Meets
  <2>8. ASSUME Idle PROVE Idle'
    BY <2>8, <1>2, <2>7 DEF Idle
  <2>9. ASSUME NEW s \in Sources, ShortOK(s) PROVE ShortOK(s)'
    BY <2>9, <1>2, <1>4, <1>5, <2>3, <2>7 DEF ShortOK, InLinkTx, InLinkRx, Complete
  <2>10. ASSUME NEW s \in Sources, LongOK(s) PROVE LongOK(s)'
    <3>1. EndOK(s)
      BY <2>10, <1>2, <1>6, <1>8 DEF LongOK, MeetingOK, TurnOK, Writing, Reading, Ended, Leaving, Over, Meets
    <3>2. EndOK(s)'
      BY <3>1, <1>2, <1>4, <2>3, <2>7 DEF EndOK, Complete
    <3> QED
      BY <2>10, <3>2, <1>2, <2>2 DEF LongOK
  <2>11. InPhase'
    BY <1>1, <2>6, <2>8, <2>9, <2>10 DEF InPhase
  <2>12. Carries
    BY <1>2, <2>2, Stutters
  <2> QED
    BY <1>2, <1>7, <2>3, <2>4, <2>5, <2>11, <2>12 DEF Correct, Deep, InStep
<1>9. CASE bi.sync # None
  <2>1. PICK s \in Sources : LongOK(s) /\ OthersRest(s) /\ MeetingOK(s) /\ Meets(s, "go")
    <3>1. ~ProcessHome
      BY <1>2, <1>6, <1>9 DEF ProcessHome, Meets
    <3>2. PICK s \in Sources : LongOK(s) /\ OthersRest(s)
      BY <1>1, <3>1 DEF InPhase, Idle, ShortOK
    <3>3. MeetingOK(s) /\ Meets(s, "go")
      BY <1>2, <1>6, <3>1, <3>2
      DEF LongOK, MeetingOK, EndOK, TurnOK, Writing, Reading, Ended, Leaving, Over, Meets
    <3> QED
      BY <3>2, <3>3
  <2>2. bi.sync = s /\ ~Ready(s) /\ pc[s] = "go"
    BY <2>1 DEF Meets
  <2>3. bi' = [b EXCEPT !.sync = None] /\ cpu' = cpu /\ high' = Append(high, s)
    BY <1>2, <1>3, <2>2 DEF Rendezvous
  <2>4. /\ high' \in Seq(Threads) /\ Once(high') /\ OneOnly'
        /\ \A x \in Threads : Ready(x)' <=> Ready(x) \/ x = s
    BY <1>1, <2>2, <2>3, Resumes
  <2>5. /\ bi'.status = {} /\ bi'.size = bi.size /\ bi'.send = bi.send
        /\ bi'.source = bi.source /\ bi'.sync = None
        /\ bi' \in [status : SUBSET {"tx", "rx"}, size : Nat, send : Nat,
                    source : Sources \cup {None}, sync : Pair \cup {None}]
    BY <1>3, <2>3
  <2>6. TypeOK'
    BY <1>1, <1>2, <2>3, <2>4, <2>5 DEF TypeOK, Points
  <2>7. ProgramOK' /\ OthersRest(s)'
    BY <1>1, <1>2, <1>4, <1>5, <2>1, <2>4, ProgramKept, RestKept DEF LongOK
  <2>8. MeetingOK(s)'
    BY <1>2, <1>4, <1>5, <1>6, <2>1, <2>2, <2>4, <2>5 DEF MeetingOK
  <2>9. Carries
    BY <1>2, <2>5, Stutters
  <2> QED
    BY <1>2, <1>7, <2>1, <2>4, <2>5, <2>6, <2>7, <2>8, <2>9, LongCorrect DEF LongOK
<1> QED
  BY <1>8, <1>9

(* The next turn: the two meet, and whoever came with a piece sends it.    *)
LEMMA TurnCorrect ==
  ASSUME Inv, InStep, NEW t \in Pair, Turn(t)
  PROVE  Correct
<1> USE NameAssumption DEF Threads, Pair
<1>1. TypeOK /\ OneOnly /\ ProgramOK /\ InPhase
  BY DEF Inv, Deep
<1>2. /\ cpu = t /\ pc[t] = "enter" /\ Rendezvous(t, "read", bi)
      /\ pc' = [pc EXCEPT ![t] = "read"]
      /\ UNCHANGED <<txUser, waiting, txThread, rxThread, armed, late, buf, n, got, out, fault>>
  BY DEF Runs, Turn, Rendezvous, Suspend, links, data
<1>3. PICK s \in Sources : LongOK(s) /\ OthersRest(s) /\ t \in {s, Process}
  BY <1>1, <1>2 DEF InPhase, OthersRest, Resting, Idle, ShortOK, ProcessHome, Meets, Ready
<1>4. \A x \in Threads : pc'[x] = IF x = t THEN "read" ELSE pc[x]
  BY <1>1, <1>2 DEF TypeOK
<1>5. Ready(t) /\ bi.sync # t
  BY <1>2, <1>3 DEF Ready, LongOK, MeetingOK, TurnOK, EndOK, ProcessHome, Over, Meets
<1>6. /\ MeetingOK(s) /\ t = Process
      \/ \E r \in {s, Process} : r # t /\ TurnOK(t, r, s)
  BY <1>2, <1>3, <1>5 DEF LongOK, MeetingOK, EndOK, ProcessHome, TurnOK, Writing, Reading, Ended, Leaving, Over, Meets
<1>7. Apart
  BY <1>2 DEF Apart
<1>8. CASE bi.sync = None
  <2>1. bi' = [bi EXCEPT !.sync = t] /\ cpu' = None /\ high' = high
    BY <1>2, <1>8 DEF Rendezvous, Suspend
  <2>2. /\ bi'.status = bi.status /\ bi'.size = bi.size /\ bi'.send = bi.send
        /\ bi'.source = bi.source /\ bi'.sync = t
        /\ bi' \in [status : SUBSET {"tx", "rx"}, size : Nat, send : Nat,
                    source : Sources \cup {None}, sync : Pair \cup {None}]
    BY <1>1, <2>1 DEF TypeOK
  <2>3. OneOnly' /\ \A x \in Threads : Ready(x)' <=> Ready(x) /\ x # t
    BY <1>1, <1>2, <2>1, Stops
  <2>4. TypeOK'
    BY <1>1, <1>2, <2>1, <2>2 DEF TypeOK, Points
  <2>5. ProgramOK' /\ OthersRest(s)'
    BY <1>1, <1>2, <1>3, <1>4, <2>3, ProgramKept, RestKept DEF LongOK
  <2>6. Carries
    BY <1>2, <2>2, Stutters
  <2>7. CASE MeetingOK(s) /\ t = Process
    <3>1. MeetingOK(s)'
      BY <1>2, <1>4, <1>8, <2>2, <2>3, <2>7 DEF MeetingOK, Meets
    <3> QED
      BY <1>2, <1>3, <1>7, <2>2, <2>3, <2>4, <2>5, <2>6, <3>1, LongCorrect DEF LongOK
  <2>8. ASSUME NEW r \in {s, Process}, r # t, TurnOK(t, r, s) PROVE Correct
    <3>1. Reading(r, s) /\ ~Meets(r, "write") /\ ~Ended(r)
      BY <1>2, <1>8, <2>8 DEF TurnOK, Meets, Ended, Leaving, Over
    <3>2. Reading(r, s)' /\ (Ended(r)' <=> Ended(r)) /\ (Meets(r, "write")' <=> Meets(r, "write"))
      BY <1>2, <1>4, <1>8, <2>1, <2>2, <2>3, <2>8, <3>1, ReaderKept
    <3>3. /\ txThread = None /\ buf[t] = 0 /\ bi.status = {} /\ bi.send > 0 /\ Counted
          /\ Tx(Process) \notin late
      BY <1>2, <2>8 DEF TurnOK, Writing, Ended, Leaving, Over, Meets
    <3>4. Meets(t, "read")'
      BY <1>4, <2>2, <2>3 DEF Meets
    <3>5. Writing(t)'
      BY <1>2, <2>2, <3>3, <3>4 DEF Writing, Counted
    <3>6. InTurn(t, r)'
      BY <1>2, <1>4, <2>2, <2>8, <3>2 DEF TurnOK, InTurn, Ahead
    <3>7. TurnOK(t, r, s)'
      BY <1>2, <2>2, <2>8, <3>2, <3>4, <3>5, <3>6 DEF TurnOK
    <3> QED
      BY <1>2, <1>3, <1>7, <2>2, <2>3, <2>4, <2>5, <2>6, <2>8, <3>7, LongCorrect DEF LongOK
  <2> QED
    BY <1>6, <2>7, <2>8
<1>9. CASE bi.sync # None
  <2> PICK o : o = bi.sync
    OBVIOUS
  <2>1. o \in {s, Process} /\ o # t /\ ~Ready(o) /\ bi.sync = o
    BY <1>5, <1>6, <1>9 DEF TurnOK, MeetingOK, Meets, Over
  <2>2. bi' = [bi EXCEPT !.sync = None] /\ cpu' = cpu /\ high' = Append(high, o)
    BY <1>2, <1>9 DEF Rendezvous
  <2>3. /\ high' \in Seq(Threads) /\ Once(high') /\ OneOnly'
        /\ \A x \in Threads : Ready(x)' <=> Ready(x) \/ x = o
    BY <1>1, <2>1, <2>2, Resumes
  <2>4. /\ bi'.status = bi.status /\ bi'.size = bi.size /\ bi'.send = bi.send
        /\ bi'.source = bi.source /\ bi'.sync = None
        /\ bi' \in [status : SUBSET {"tx", "rx"}, size : Nat, send : Nat,
                    source : Sources \cup {None}, sync : Pair \cup {None}]
    BY <1>1, <2>2 DEF TypeOK
  <2>5. TypeOK'
    BY <1>1, <1>2, <2>2, <2>3, <2>4 DEF TypeOK, Points
  <2>6. ProgramOK' /\ OthersRest(s)'
    BY <1>1, <1>2, <1>3, <1>4, <2>1, <2>3, ProgramKept, RestKept DEF LongOK
  <2>7. Carries
    BY <1>2, <2>4, Stutters
  <2>n. n \in Nat /\ got \in Nat /\ bi.size \in Nat /\ bi.send \in Nat /\ Len(out) \in Nat
    BY <1>1, Numbers
  <2>8. CASE MeetingOK(s) /\ t = Process
    <3>1. /\ o = s /\ pc[s] = "proto" /\ bi.status = {} /\ Tx(Process) \notin late
          /\ txThread = None /\ rxThread[s] = None /\ Rx(s) \notin late
          /\ got = 0 /\ out = <<>> /\ buf[s] = 0 /\ buf[Process] = 0
          /\ bi.size = n /\ bi.send = n /\ fault = "none"
      BY <1>2, <1>5, <2>1, <2>8 DEF MeetingOK, Meets
    <3>2. pc'[s] = "proto" /\ pc'[Process] = "read" /\ Ready(s)' /\ Ready(Process)'
      BY <1>4, <1>5, <2>3, <2>8, <3>1
    <3>3. Writing(s)'
      BY <1>2, <2>4, <3>1, <3>2 DEF Writing
    <3>4. Reading(Process, s)'
      <4>1. got' + bi'.size = n' /\ buf'[Process] = 0 /\ rxThread'[s] = None /\ Rx(s) \notin late'
        BY <1>2, <2>4, <2>n, <3>1
      <4> QED
        BY <2>4, <3>1, <3>2, <4>1 DEF Reading
    <3>5. InTurn(s, Process)'
      <4>1. Len(out') <= got' + 2
        BY <1>2, <3>1
      <4> QED
        BY <1>2, <2>4, <3>1, <3>2, <4>1 DEF InTurn, Ahead, Meets, Ended, Leaving, Over
    <3>6. TurnOK(s, Process, s)'
      BY <1>2, <2>4, <3>1, <3>3, <3>4, <3>5 DEF TurnOK
    <3> QED
      BY <1>2, <1>3, <1>7, <2>3, <2>4, <2>5, <2>6, <2>7, <3>6, LongCorrect DEF LongOK
  <2>9. ASSUME NEW r \in {s, Process}, r # t, TurnOK(t, r, s) PROVE Correct
    <3>1. o = r
      BY <1>3, <2>1, <2>9
    <3>2. /\ txThread = None /\ buf[t] = 0 /\ bi.status = {} /\ bi.send > 0
          /\ bi.send + Len(out) = n + 2 /\ Tx(Process) \notin late
      BY <1>2, <2>9 DEF TurnOK, Writing, Ended, Leaving, Over, Meets, Counted
    <3>3. Ahead(t) = bi.send
      BY <1>2 DEF Ahead
    <3>4. Meets(r, "write") /\ bi.size = bi.send - 1
      BY <2>1, <2>9, <2>n, <3>1, <3>2, <3>3 DEF TurnOK, InTurn, Ended
    <3>5. /\ buf[r] = got /\ got > 0 /\ got + bi.size = n /\ rxThread[s] = None /\ Rx(s) \notin late
          /\ pc[r] = "write"
      BY <2>9, <3>2, <3>4 DEF TurnOK, Reading, Meets, Ended, Leaving, Over
    <3>6. buf[r] + 1 = Len(out) /\ buf[r] > 0
      <4>1. PICK g, z, l, y : g = got /\ z = bi.size /\ l = Len(out) /\ y = bi.send
        OBVIOUS
      <4>2. g + 1 = l
        BY <2>n, <3>2, <3>4, <3>5, <4>1
      <4> QED
        BY <3>5, <4>1, <4>2
    <3>7. pc'[r] = "write" /\ pc'[t] = "read" /\ Ready(r)' /\ Ready(t)'
      BY <1>4, <1>5, <2>3, <2>9, <3>1, <3>5
    <3>8. Writing(r)'
      BY <1>2, <2>4, <3>2, <3>6, <3>7 DEF Writing, Counted
    <3>9. Reading(t, s)'
      BY <1>2, <2>4, <3>2, <3>5, <3>7 DEF Reading
    <3>10. InTurn(r, t)'
      <4>1. Len(out') <= got' + 2
        BY <1>2, <2>9 DEF TurnOK, InTurn
      <4> QED
        BY <1>2, <2>4, <3>2, <3>4, <3>7, <4>1 DEF InTurn, Ahead, Meets, Ended, Leaving, Over
    <3>11. TurnOK(r, t, s)'
      BY <1>2, <2>4, <2>9, <3>8, <3>9, <3>10 DEF TurnOK
    <3> QED
      BY <1>2, <1>3, <1>7, <2>3, <2>4, <2>5, <2>6, <2>7, <2>9, <3>11, LongCorrect DEF LongOK
  <2> QED
    BY <1>6, <2>8, <2>9
<1> QED
  BY <1>8, <1>9
(* The loop is left when nothing is left to receive or one has failed.     *)
LEMMA ReadCorrect ==
  ASSUME Inv, InStep, NEW t \in Pair, Read(t)
  PROVE  Correct
<1> USE NameAssumption DEF Threads, Pair
<1>1. TypeOK /\ OneOnly /\ ProgramOK /\ InPhase
  BY DEF Inv, Deep
<1>2. /\ cpu = t /\ pc[t] = "read"
      /\ UNCHANGED <<high, txUser, waiting, txThread, bi, late, buf, n, got, out, fault>>
  BY DEF Runs, Read, Leave, Goto, LinkRx, Suspend, links, data
<1>a. PICK s \in Sources : \E w \in {s, Process} :
        /\ t \in {s, Process} /\ w # t /\ TurnOK(w, t, s) /\ OthersRest(s)
        /\ txUser = Process /\ bi.source = s /\ n \in Long /\ fault # "missed" /\ bi.sync # t
  BY <1>1, <1>2, InLoop
<1>3. PICK w \in {s, Process} :
        /\ t \in {s, Process} /\ w # t /\ TurnOK(w, t, s) /\ OthersRest(s)
        /\ txUser = Process /\ bi.source = s /\ n \in Long /\ fault # "missed" /\ bi.sync # t
  BY <1>a
<1>4. /\ buf[t] = 0 /\ got + bi.size = n /\ rxThread[s] = None
      /\ "rx" \notin bi.status /\ Rx(s) \notin late
  BY <1>2, <1>3 DEF TurnOK, Reading, Ended, Leaving, Over, Meets
<1>5. Writing(w) /\ (Meets(w, "read") => bi.status = {})
  BY <1>3 DEF TurnOK, Writing, Ended, Leaving, Over, Meets
<1>n. got \in Nat /\ bi.size \in Nat /\ n \in Nat
  BY <1>1, Numbers
<1>6. CASE bi.status # {} \/ bi.size = 0
  <2>1. pc' = [pc EXCEPT ![t] = "final"] /\ UNCHANGED <<cpu, rxThread, armed>>
    BY <1>6 DEF Read, Leave, Goto, links
  <2>2. OneOnly' /\ \A x \in Threads : Ready(x)' <=> Ready(x)
    BY <1>1, <1>2, <2>1 DEF OneOnly, Ready
  <2>3. TypeOK'
    BY <1>1, <1>2, <2>1 DEF TypeOK, Points
  <2>4. \A x \in Threads : pc'[x] = IF x = t THEN "final" ELSE pc[x]
    BY <1>1, <2>1 DEF TypeOK
  <2>5. ProgramOK' /\ OthersRest(s)'
    BY <1>1, <1>2, <1>3, <2>1, <2>2, <2>4, ProgramKept, RestKept
  <2>6. Writing(w)' /\ (Ended(w)' <=> Ended(w)) /\ (Meets(w, "read")' <=> Meets(w, "read"))
    BY <1>2, <1>3, <1>5, <2>1, <2>2, <2>4, WriterKept
  <2>7. Ended(t)' /\ ~Meets(t, "write")'
    BY <1>2, <2>1, <2>4 DEF Ended, Leaving, Meets
  <2>8. bi.status = {} => bi.size = 0 /\ got = n
    BY <1>4, <1>6, <1>n
  <2>9. Reading(t, s)'
    BY <1>2, <1>4, <2>1, <2>7, <2>8 DEF Reading
  <2>10. Ahead(w)' = Ahead(w) /\ (bi.status = {} => Ahead(w) = 0)
    BY <1>2, <1>3, <2>4, <2>8 DEF Ahead, TurnOK, InTurn
  <2>11. InTurn(w, t)'
    BY <1>2, <1>3, <2>4, <2>7, <2>10 DEF TurnOK, InTurn
  <2>12. TurnOK(w, t, s)'
    BY <1>2, <1>3, <2>1, <2>2, <2>4, <2>6, <2>9, <2>11 DEF TurnOK, Meets, Over
  <2>13. Apart /\ Carries
    BY <1>2, <2>1, Stutters DEF Apart
  <2> QED
    BY <1>2, <1>3, <2>2, <2>3, <2>5, <2>12, <2>13, LongCorrect
<1>7. CASE bi.status = {} /\ bi.size # 0
  <2>1. /\ pc' = [pc EXCEPT ![t] = "got"] /\ cpu' = None
        /\ rxThread' = [rxThread EXCEPT ![s] = t] /\ armed' = armed \cup {Rx(s)}
    BY <1>3, <1>7 DEF Read, LinkRx, Suspend
  <2>2. OneOnly' /\ \A x \in Threads : Ready(x)' <=> Ready(x) /\ x # t
    BY <1>1, <1>2, <2>1, Stops
  <2>3. TypeOK'
    BY <1>1, <1>2, <2>1, IdsMade DEF TypeOK, Points
  <2>4. /\ \A x \in Threads : pc'[x] = IF x = t THEN "got" ELSE pc[x]
        /\ \A x \in Sources : rxThread'[x] = IF x = s THEN t ELSE rxThread[x]
    BY <1>1, <2>1 DEF TypeOK
  <2>5. ProgramOK' /\ OthersRest(s)'
    BY <1>1, <1>2, <1>3, <2>1, <2>2, <2>4, ProgramKept, RestKept
  <2>6. Writing(w)' /\ (Ended(w)' <=> Ended(w)) /\ (Meets(w, "read")' <=> Meets(w, "read"))
    BY <1>2, <1>3, <1>5, <2>1, <2>2, <2>4, WriterKept
  <2>7. ~Ended(t)' /\ ~Meets(t, "write")'
    BY <1>2, <2>1, <2>4 DEF Ended, Leaving, Over, Meets
  <2>8. bi.size > 0
    BY <1>7, <1>n
  <2>9. Reading(t, s)'
    BY <1>2, <1>4, <2>2, <2>4, <2>7, <2>8 DEF Reading, InLinkRx
  <2>10. Ahead(w)' = Ahead(w)
    BY <1>2, <1>3, <2>4 DEF Ahead
  <2>11. InTurn(w, t)'
    BY <1>2, <1>3, <2>4, <2>7, <2>10 DEF TurnOK, InTurn
  <2>12. TurnOK(w, t, s)'
    BY <1>2, <1>3, <2>2, <2>4, <2>6, <2>9, <2>11 DEF TurnOK, Meets, Over
  <2>13. Apart /\ Carries
    BY <1>2, <1>4, <2>4, Stutters DEF Apart
  <2> QED
    BY <1>2, <1>3, <2>2, <2>3, <2>5, <2>12, <2>13, LongCorrect
<1> QED
  BY <1>6, <1>7

(* The one with a piece sends it.                                          *)
LEMMA WriteCorrect ==
  ASSUME Inv, InStep, NEW t \in Pair, Write(t)
  PROVE  Correct
<1> USE NameAssumption DEF Threads, Pair
<1>1. TypeOK /\ OneOnly /\ ProgramOK /\ InPhase
  BY DEF Inv, Deep
<1>2. cpu = t /\ pc[t] = "write"
  BY DEF Runs, Write
<1>a. PICK s \in Sources : \E r \in {s, Process} :
        /\ t \in {s, Process} /\ r # t /\ TurnOK(t, r, s) /\ OthersRest(s)
        /\ txUser = Process /\ bi.source = s /\ n \in Long /\ fault # "missed" /\ bi.sync # t
  BY <1>1, <1>2, InLoop
<1>3. PICK r \in {s, Process} :
        /\ t \in {s, Process} /\ r # t /\ TurnOK(t, r, s) /\ OthersRest(s)
        /\ txUser = Process /\ bi.source = s /\ n \in Long /\ fault # "missed" /\ bi.sync # t
  BY <1>a
<1>4. /\ buf[t] > 0 /\ buf[t] + 1 = Len(out) /\ bi.send > 0 /\ Counted /\ txThread = None
      /\ "tx" \notin bi.status /\ Tx(Process) \notin late
  BY <1>2, <1>3 DEF TurnOK, Writing, Ended, Leaving, Over, Meets
<1>5. /\ pc' = [pc EXCEPT ![t] = "sent"] /\ cpu' = None /\ txThread' = t
      /\ armed' = armed \cup {Tx(Process)}
      /\ UNCHANGED <<high, txUser, waiting, rxThread, bi, late, buf, n, got, out, fault>>
  BY <1>4 DEF Write, LinkTx, Suspend, data
<1>6. Reading(r, s) /\ (Meets(r, "write") => bi.status = {})
  BY <1>3 DEF TurnOK, Reading, Ended, Leaving, Over, Meets
<1>7. OneOnly' /\ \A x \in Threads : Ready(x)' <=> Ready(x) /\ x # t
  BY <1>1, <1>2, <1>5, Stops
<1>8. TypeOK'
  BY <1>1, <1>5, IdsMade DEF TypeOK, Points
<1>9. \A x \in Threads : pc'[x] = IF x = t THEN "sent" ELSE pc[x]
  BY <1>1, <1>5 DEF TypeOK
<1>10. ProgramOK' /\ OthersRest(s)'
  BY <1>1, <1>3, <1>5, <1>7, <1>9, ProgramKept, RestKept
<1>11. Reading(r, s)' /\ (Ended(r)' <=> Ended(r)) /\ (Meets(r, "write")' <=> Meets(r, "write"))
  BY <1>2, <1>3, <1>5, <1>6, <1>7, <1>9, ReaderKept
<1>12. Writing(t)'
  BY <1>4, <1>5, <1>7, <1>9 DEF Writing, InLinkTx, Counted
<1>13. Ahead(t)' = Ahead(t)
  BY <1>2, <1>5, <1>9 DEF Ahead
<1>14. InTurn(t, r)'
  BY <1>3, <1>5, <1>9, <1>11, <1>13 DEF TurnOK, InTurn
<1>15. TurnOK(t, r, s)'
  BY <1>3, <1>5, <1>7, <1>9, <1>11, <1>12, <1>14 DEF TurnOK, Meets, Over
<1>16. Apart /\ Carries
  BY <1>4, <1>5, Stutters DEF Apart
<1> QED
  BY <1>3, <1>5, <1>7, <1>8, <1>10, <1>15, <1>16, LongCorrect

(* A piece has gone out, or the destination failed.                        *)
LEMMA SentCorrect ==
  ASSUME Inv, InStep, NEW t \in Pair, Sent(t)
  PROVE  Correct
<1> USE NameAssumption DEF Threads, Pair
<1>1. TypeOK /\ OneOnly /\ ProgramOK /\ InPhase
  BY DEF Inv, Deep
<1>2. /\ cpu = t /\ pc[t] = "sent"
      /\ UNCHANGED <<cpu, high, txUser, waiting, txThread, rxThread, armed, late, buf, n, got, out>>
  BY DEF Runs, Sent, Goto, links, data
<1>a. PICK s \in Sources : \E r \in {s, Process} :
        /\ t \in {s, Process} /\ r # t /\ TurnOK(t, r, s) /\ OthersRest(s)
        /\ txUser = Process /\ bi.source = s /\ n \in Long /\ fault # "missed" /\ bi.sync # t
  BY <1>1, <1>2, InLoop
<1>3. PICK r \in {s, Process} :
        /\ t \in {s, Process} /\ r # t /\ TurnOK(t, r, s) /\ OthersRest(s)
        /\ txUser = Process /\ bi.source = s /\ n \in Long /\ fault # "missed" /\ bi.sync # t
  BY <1>a
<1>4. /\ bi.send > 0 /\ txThread = None /\ "tx" \notin bi.status
      /\ Tx(Process) \notin late => buf[t] = 0 /\ Len(out) + bi.send = n + 3
      /\ Tx(Process) \in late => buf[t] > 0 /\ buf[t] + 1 = Len(out) /\ Counted
  BY <1>2, <1>3 DEF TurnOK, Writing, InLinkTx, Ended, Leaving, Over, Meets, Ready
<1>5. Reading(r, s) /\ (Meets(r, "write") => bi.status = {})
  BY <1>3 DEF TurnOK, Reading, Ended, Leaving, Over, Meets
<1>n. /\ bi.send \in Nat /\ Len(out) \in Nat /\ n \in Nat /\ buf[t] \in Nat
      /\ bi.status \subseteq {"tx", "rx"}
  BY <1>1, Numbers DEF TypeOK
<1>6. OneOnly' /\ \A x \in Threads : Ready(x)' <=> Ready(x)
  BY <1>1, <1>2 DEF OneOnly, Ready
<1>7. Apart
  BY <1>2 DEF Apart
<1>8. CASE Tx(Process) \in late
  <2>1. /\ bi' = [bi EXCEPT !.status = @ \cup {"tx"}] /\ pc' = [pc EXCEPT ![t] = "final"] /\ Failed
    BY <1>8 DEF Sent, Goto
  <2>2. /\ bi'.status = bi.status \cup {"tx"} /\ bi'.size = bi.size /\ bi'.send = bi.send
        /\ bi'.source = bi.source /\ bi'.sync = bi.sync
        /\ bi' \in [status : SUBSET {"tx", "rx"}, size : Nat, send : Nat,
                    source : Sources \cup {None}, sync : Pair \cup {None}]
    BY <1>1, <2>1 DEF TypeOK
  <2>3. fault' \in {"seen", "missed"} /\ (fault' = "seen" => ~Meets(r, "write"))
    BY <1>3, <2>1 DEF Failed, Unseen, Meets
  <2>4. TypeOK'
    BY <1>1, <1>2, <2>1, <2>2, <2>3 DEF TypeOK, Points
  <2>5. Carries
    BY <1>2, <1>3, <2>2, <2>3, Fails
  <2>6. CASE fault' = "missed"
    <3>1. OwnsLink'
      BY <1>2, <1>3, <1>4 DEF OwnsLink
    <3> QED
      BY <1>7, <2>4, <2>5, <2>6, <3>1 DEF Correct, InStep
  <2>7. CASE fault' = "seen"
    <3>1. \A x \in Threads : pc'[x] = IF x = t THEN "final" ELSE pc[x]
      BY <1>1, <2>1 DEF TypeOK
    <3>2. ProgramOK' /\ OthersRest(s)'
      BY <1>1, <1>2, <1>3, <1>6, <3>1, ProgramKept, RestKept
    <3>3. Reading(r, s)' /\ (Ended(r)' <=> Ended(r)) /\ (Meets(r, "write")' <=> Meets(r, "write"))
      BY <1>2, <1>3, <1>5, <1>6, <2>2, <2>3, <2>7, <3>1, ReaderKept
    <3>4. Ended(t)'
      BY <1>2, <3>1 DEF Ended, Leaving
    <3>5. buf[t] <= Len(out)
      BY <1>4, <1>8, <1>n
    <3>6. Writing(t)'
      BY <1>2, <1>4, <2>2, <3>4, <3>5 DEF Writing
    <3>7. InTurn(t, r)'
      BY <1>2, <1>3, <2>2, <2>3, <2>7, <3>1, <3>3 DEF TurnOK, InTurn
    <3>8. TurnOK(t, r, s)'
      BY <1>2, <1>3, <1>6, <2>2, <2>7, <3>1, <3>3, <3>6, <3>7 DEF TurnOK, Meets, Over
    <3> QED
      BY <1>2, <1>3, <1>6, <1>7, <2>2, <2>4, <2>5, <2>7, <3>2, <3>8, LongCorrect
  <2> QED
    BY <2>3, <2>6, <2>7
<1>9. CASE Tx(Process) \notin late
  <2>1. bi' = [bi EXCEPT !.send = @ - 1] /\ fault' = fault
    BY <1>9 DEF Sent
  <2>2. /\ bi'.status = bi.status /\ bi'.size = bi.size /\ bi'.send = bi.send - 1
        /\ bi'.source = bi.source /\ bi'.sync = bi.sync
        /\ bi' \in [status : SUBSET {"tx", "rx"}, size : Nat, send : Nat,
                    source : Sources \cup {None}, sync : Pair \cup {None}]
    <3>1. bi.send - 1 \in Nat
      BY <1>4, <1>n
    <3> QED
      BY <1>1, <2>1, <3>1 DEF TypeOK
  <2> PICK p : p = IF bi.status # {} \/ bi.send - 1 = 0 THEN "final" ELSE "enter"
    OBVIOUS
  <2>3. pc' = [pc EXCEPT ![t] = p]
    BY <1>9, <2>2 DEF Sent, Goto
  <2>4. TypeOK'
    <3>1. p \in Points
      BY DEF Points
    <3>2. pc' \in [Threads -> Points]
      BY <1>1, <2>3, <3>1 DEF TypeOK
    <3> QED
      BY <3>2, <1>1, <1>2, <2>1, <2>2 DEF TypeOK
  <2>5. \A x \in Threads : pc'[x] = IF x = t THEN p ELSE pc[x]
    BY <1>1, <2>3 DEF TypeOK
  <2>6. ProgramOK' /\ OthersRest(s)'
    BY <1>1, <1>2, <1>3, <1>6, <2>5, ProgramKept, RestKept
  <2>7. Reading(r, s)' /\ (Ended(r)' <=> Ended(r)) /\ (Meets(r, "write")' <=> Meets(r, "write"))
    BY <1>2, <1>3, <1>5, <1>6, <2>2, <2>5, ReaderKept
  <2>8. bi'.send + Len(out) = n + 2 /\ bi'.send \in Nat
    <3>1. PICK y, l : y = bi.send /\ l = Len(out)
      OBVIOUS
    <3>2. (y - 1) + l = n + 2 /\ y - 1 \in Nat
      BY <3>1, <1>4, <1>9, <1>n
    <3> QED
      BY <3>1, <3>2, <2>2
  <2>9. Writing(t)'
    <3>1. CASE p = "final"
      <4>1. Ended(t)'
        BY <3>1, <1>2, <2>5 DEF Ended, Leaving
      <4>2. bi'.status = {} => bi'.send = 0 /\ Len(out) = n + 2
        BY <3>1, <1>n, <2>2, <2>8
      <4> QED
        BY <4>1, <4>2, <1>2, <1>4, <1>9, <1>n, <2>2 DEF Writing
    <3>2. CASE p = "enter"
      <4>1. bi.status = {} /\ bi.send - 1 # 0
        BY <3>2
      <4>2. bi'.send > 0 /\ bi'.status = {}
        <5>1. PICK y : y = bi'.send
          OBVIOUS
        <5>2. y \in Nat /\ y # 0
          BY <4>1, <5>1, <2>2, <2>8
        <5>3. y > 0
          BY <5>2
        <5> QED
          BY <4>1, <5>1, <5>3, <2>2
      <4> QED
        BY <3>2, <4>2, <1>2, <1>4, <1>9, <2>2, <2>5, <2>8 DEF Writing, Counted
    <3> QED
      BY <3>1, <3>2
  <2>10. Ahead(t)' = Ahead(t)
    BY <1>2, <2>2, <2>5 DEF Ahead
  <2>11. InTurn(t, r)'
    BY <1>2, <1>3, <2>2, <2>5, <2>7, <2>10 DEF TurnOK, InTurn
  <2>12. TurnOK(t, r, s)'
    BY <1>2, <1>3, <1>6, <2>1, <2>2, <2>5, <2>7, <2>9, <2>11 DEF TurnOK, Meets, Over
  <2>13. Carries
    BY <1>2, <2>1, <2>2, Stutters
  <2> QED
    BY <1>2, <1>3, <1>6, <1>7, <2>1, <2>2, <2>4, <2>6, <2>12, <2>13, LongCorrect
<1> QED
  BY <1>8, <1>9
(* A piece has come in, or the other link failed.                          *)
LEMMA GotCorrect ==
  ASSUME Inv, InStep, NEW t \in Pair, Got(t)
  PROVE  Correct
<1> USE NameAssumption DEF Threads, Pair
<1>1. TypeOK /\ OneOnly /\ ProgramOK /\ InPhase
  BY DEF Inv, Deep
<1>2. /\ cpu = t /\ pc[t] = "got"
      /\ UNCHANGED <<txUser, waiting, txThread, rxThread, armed, late, buf, n, got, out>>
  BY DEF Runs, Got, links, data
<1>a. PICK s \in Sources : \E w \in {s, Process} :
        /\ t \in {s, Process} /\ w # t /\ TurnOK(w, t, s) /\ OthersRest(s)
        /\ txUser = Process /\ bi.source = s /\ n \in Long /\ fault # "missed" /\ bi.sync # t
  BY <1>1, <1>2, InLoop
<1>3. PICK w \in {s, Process} :
        /\ t \in {s, Process} /\ w # t /\ TurnOK(w, t, s) /\ OthersRest(s)
        /\ txUser = Process /\ bi.source = s /\ n \in Long /\ fault # "missed" /\ bi.sync # t
  BY <1>a
<1>4. /\ bi.size > 0 /\ rxThread[s] = None /\ "rx" \notin bi.status
      /\ Rx(s) \notin late => buf[t] = got /\ got > 0 /\ got + bi.size = n + 1
      /\ Rx(s) \in late => buf[t] = 0
  BY <1>2, <1>3 DEF TurnOK, Reading, InLinkRx, Ended, Leaving, Over, Meets, Ready
<1>5. Writing(w) /\ (Meets(w, "read") => bi.status = {})
  BY <1>3 DEF TurnOK, Writing, Ended, Leaving, Over, Meets
<1>n. /\ bi.size \in Nat /\ bi.send \in Nat /\ Len(out) \in Nat /\ n \in Nat /\ got \in Nat
      /\ bi.status \subseteq {"tx", "rx"}
  BY <1>1, Numbers DEF TypeOK
<1>6. Ready(t)
  BY <1>2 DEF Ready
<1>7. Apart
  BY <1>2 DEF Apart
<1>8. CASE Rx(s) \in late
  <2>1. /\ bi' = [bi EXCEPT !.status = @ \cup {"rx"}] /\ pc' = [pc EXCEPT ![t] = "final"] /\ Failed
        /\ UNCHANGED <<cpu, high>>
    BY <1>3, <1>8 DEF Got, Goto
  <2>2. /\ bi'.status = bi.status \cup {"rx"} /\ bi'.size = bi.size /\ bi'.send = bi.send
        /\ bi'.source = bi.source /\ bi'.sync = bi.sync
        /\ bi' \in [status : SUBSET {"tx", "rx"}, size : Nat, send : Nat,
                    source : Sources \cup {None}, sync : Pair \cup {None}]
    BY <1>1, <2>1 DEF TypeOK
  <2>3. fault' \in {"seen", "missed"} /\ (fault' = "seen" => ~Meets(w, "read"))
    BY <1>3, <2>1 DEF Failed, Unseen, Meets
  <2>4. TypeOK'
    BY <1>1, <1>2, <2>1, <2>2, <2>3 DEF TypeOK, Points
  <2>5. Carries
    BY <1>2, <1>3, <2>2, <2>3, Fails
  <2>6. OneOnly' /\ \A x \in Threads : Ready(x)' <=> Ready(x)
    BY <1>1, <2>1 DEF OneOnly, Ready
  <2>7. CASE fault' = "missed"
    <3>1. txThread # None => txThread \in {s, Process}
      BY <1>3, <1>5 DEF Writing, InLinkTx, Ended, Leaving, Over, Meets
    <3>2. OwnsLink'
      BY <1>2, <1>3, <2>2, <3>1 DEF OwnsLink
    <3> QED
      BY <1>7, <2>4, <2>5, <2>7, <3>2 DEF Correct, InStep
  <2>8. CASE fault' = "seen"
    <3>1. \A x \in Threads : pc'[x] = IF x = t THEN "final" ELSE pc[x]
      BY <1>1, <2>1 DEF TypeOK
    <3>2. ProgramOK' /\ OthersRest(s)'
      BY <1>1, <1>2, <1>3, <2>6, <3>1, ProgramKept, RestKept
    <3>3. Writing(w)' /\ (Ended(w)' <=> Ended(w)) /\ (Meets(w, "read")' <=> Meets(w, "read"))
      BY <1>2, <1>3, <1>5, <2>1, <2>2, <2>3, <2>6, <2>8, <3>1, WriterKept
    <3>4. Ended(t)' /\ ~Meets(t, "write")'
      BY <1>2, <2>1, <3>1 DEF Ended, Leaving, Meets
    <3>5. Reading(t, s)'
      BY <1>2, <1>4, <1>8, <2>2, <3>4 DEF Reading
    <3>6. InTurn(w, t)'
      BY <1>2, <1>3, <1>4, <1>8, <2>2, <3>1, <3>4 DEF TurnOK, InTurn
    <3>7. TurnOK(w, t, s)'
      BY <1>2, <1>3, <2>2, <2>6, <2>8, <3>1, <3>3, <3>5, <3>6 DEF TurnOK, Meets, Over
    <3> QED
      BY <1>2, <1>3, <1>7, <2>2, <2>4, <2>5, <2>6, <2>8, <3>2, <3>7, LongCorrect
  <2> QED
    BY <2>3, <2>7, <2>8
<1>9. CASE Rx(s) \notin late
  <2> PICK b : b = [bi EXCEPT !.size = @ - 1]
    OBVIOUS
  <2>1. /\ b.status = bi.status /\ b.size = bi.size - 1 /\ b.send = bi.send
        /\ b.source = bi.source /\ b.sync = bi.sync
        /\ b \in [status : SUBSET {"tx", "rx"}, size : Nat, send : Nat,
                  source : Sources \cup {None}, sync : Pair \cup {None}]
    <3>1. bi.size - 1 \in Nat
      BY <1>4, <1>n
    <3> QED
      BY <1>1, <3>1 DEF TypeOK
  <2>2. /\ fault' = fault
        /\ "tx" \in bi.status => bi' = b /\ Goto(t, "final")
        /\ "tx" \notin bi.status => Rendezvous(t, "write", b)
    BY <1>3, <1>9 DEF Got
  <2>3. buf[t] = got /\ got > 0 /\ got + b.size = n
    <3>1. PICK z : z = bi.size
      OBVIOUS
    <3>2. got + (z - 1) = n
      BY <3>1, <1>4, <1>9, <1>n
    <3> QED
      BY <3>1, <3>2, <1>4, <1>9, <2>1
  <2>4. CASE "tx" \in bi.status
    <3>1. bi' = b /\ pc' = [pc EXCEPT ![t] = "final"] /\ UNCHANGED <<cpu, high>>
      BY <2>2, <2>4 DEF Goto
    <3>2. OneOnly' /\ \A x \in Threads : Ready(x)' <=> Ready(x)
      BY <1>1, <3>1 DEF OneOnly, Ready
    <3>3. TypeOK'
      <4>1. pc' \in [Threads -> Points]
        BY <1>1, <3>1 DEF TypeOK, Points
      <4>2. bi' \in [status : SUBSET {"tx", "rx"}, size : Nat, send : Nat,
                     source : Sources \cup {None}, sync : Pair \cup {None}]
        BY <2>1, <3>1
      <4>3. UNCHANGED <<cpu, high, fault>>
        BY <2>2, <3>1
      <4> QED
        BY <1>1, <1>2, <4>1, <4>2, <4>3 DEF TypeOK
    <3>4. \A x \in Threads : pc'[x] = IF x = t THEN "final" ELSE pc[x]
      BY <1>1, <3>1 DEF TypeOK
    <3>5. ProgramOK' /\ OthersRest(s)'
      BY <1>1, <1>2, <1>3, <3>2, <3>4, ProgramKept, RestKept
    <3>6. Writing(w)' /\ (Ended(w)' <=> Ended(w)) /\ (Meets(w, "read")' <=> Meets(w, "read"))
      BY <1>2, <1>3, <1>5, <2>1, <3>1, <3>2, <3>4, WriterKept
    <3>7. Ended(t)' /\ ~Meets(t, "write")'
      BY <1>2, <3>1, <3>4 DEF Ended, Leaving, Meets
    <3>8. Reading(t, s)'
      BY <1>2, <1>4, <1>9, <2>1, <2>3, <2>4, <3>1, <3>7 DEF Reading
    <3>9. InTurn(w, t)'
      BY <1>2, <1>3, <2>1, <2>4, <3>1, <3>4, <3>7 DEF TurnOK, InTurn
    <3>10. TurnOK(w, t, s)'
      BY <1>2, <1>3, <2>1, <2>2, <3>1, <3>2, <3>4, <3>6, <3>8, <3>9 DEF TurnOK, Meets, Over
    <3>11. Carries
      BY <1>2, <2>1, <2>2, <3>1, Stutters
    <3> QED
      BY <1>2, <1>3, <1>7, <2>1, <2>2, <3>1, <3>2, <3>3, <3>5, <3>10, <3>11, LongCorrect
  <2>5. CASE "tx" \notin bi.status
    <3>1. Rendezvous(t, "write", b) /\ pc' = [pc EXCEPT ![t] = "write"] /\ bi.status = {}
      BY <1>4, <1>n, <2>2, <2>5 DEF Rendezvous, Suspend
    <3>2. \A x \in Threads : pc'[x] = IF x = t THEN "write" ELSE pc[x]
      BY <1>1, <3>1 DEF TypeOK
    <3>3. bi.size = Ahead(w)
      BY <1>2, <1>3, <2>5 DEF TurnOK, InTurn
    <3>4. CASE bi.sync = None
      <4>1. bi' = [b EXCEPT !.sync = t] /\ cpu' = None /\ high' = high
        BY <2>1, <3>1, <3>4 DEF Rendezvous, Suspend
      <4>2. /\ bi'.status = {} /\ bi'.size = bi.size - 1 /\ bi'.send = bi.send
            /\ bi'.source = bi.source /\ bi'.sync = t /\ bi'.size = b.size
            /\ bi' \in [status : SUBSET {"tx", "rx"}, size : Nat, send : Nat,
                        source : Sources \cup {None}, sync : Pair \cup {None}]
        BY <2>1, <3>1, <4>1
      <4>3. OneOnly' /\ \A x \in Threads : Ready(x)' <=> Ready(x) /\ x # t
        BY <1>1, <1>2, <4>1, Stops
      <4>4. TypeOK'
        BY <1>1, <1>2, <2>2, <3>1, <4>1, <4>2 DEF TypeOK, Points
      <4>5. ProgramOK' /\ OthersRest(s)'
        BY <1>1, <1>2, <1>3, <3>2, <4>3, ProgramKept, RestKept
      <4>6. Writing(w)' /\ (Ended(w)' <=> Ended(w)) /\ (Meets(w, "read")' <=> Meets(w, "read"))
        BY <1>2, <1>3, <1>5, <3>1, <3>2, <3>4, <4>1, <4>2, <4>3, WriterKept
      <4>7. Meets(t, "write")' /\ ~Ended(t)'
        BY <3>2, <4>1, <4>2, <4>3 DEF Meets, Ended, Leaving, Over
      <4>8. Reading(t, s)'
        BY <1>2, <1>4, <1>9, <2>3, <4>2, <4>7 DEF Reading
      <4>9. Ahead(w)' = Ahead(w)
        BY <1>3, <3>2, <4>2 DEF Ahead
      <4>10. InTurn(w, t)'
        BY <1>2, <1>3, <3>2, <3>3, <4>2, <4>7, <4>9 DEF TurnOK, InTurn
      <4>11. TurnOK(w, t, s)'
        BY <1>2, <1>3, <2>2, <3>1, <4>2, <4>6, <4>7, <4>8, <4>10 DEF TurnOK
      <4>12. Carries
        BY <1>2, <2>2, <4>2, Stutters
      <4> QED
        BY <1>2, <1>3, <1>7, <2>2, <4>2, <4>3, <4>4, <4>5, <4>11, <4>12, LongCorrect
    <3>5. CASE bi.sync # None
      <4>1. Meets(w, "read") /\ bi.sync = w /\ ~Ready(w) /\ pc[w] = "read"
        <5>1. Meets(w, "read") \/ Over(w)
          BY <1>3, <3>5 DEF TurnOK
        <5>2. Ended(w) => bi.send = 0
          BY <1>5, <3>1 DEF Writing, Ended, Leaving, Over, Meets
        <5>3. Over(w) => Ahead(w) = bi.send
          BY DEF Over, Meets, Ahead
        <5>4. ~Over(w)
          BY <1>4, <3>3, <5>2, <5>3, <1>n DEF Ended
        <5> QED
          BY <5>1, <5>4 DEF Meets
      <4>2. bi' = [b EXCEPT !.sync = None] /\ cpu' = cpu /\ high' = Append(high, w)
        BY <2>1, <3>1, <3>5, <4>1 DEF Rendezvous
      <4>3. /\ high' \in Seq(Threads) /\ Once(high') /\ OneOnly'
            /\ \A x \in Threads : Ready(x)' <=> Ready(x) \/ x = w
        BY <1>1, <4>1, <4>2, Resumes
      <4>4. /\ bi'.status = {} /\ bi'.size = bi.size - 1 /\ bi'.send = bi.send
            /\ bi'.source = bi.source /\ bi'.sync = None /\ bi'.size = b.size
            /\ bi' \in [status : SUBSET {"tx", "rx"}, size : Nat, send : Nat,
                        source : Sources \cup {None}, sync : Pair \cup {None}]
        BY <2>1, <3>1, <4>2
      <4>5. TypeOK'
        BY <1>1, <1>2, <2>2, <3>1, <4>2, <4>3, <4>4 DEF TypeOK, Points
      <4>6. ProgramOK' /\ OthersRest(s)'
        BY <1>1, <1>2, <1>3, <3>2, <4>3, ProgramKept, RestKept
      <4>7. /\ txThread = None /\ buf[w] = 0 /\ bi.send > 0 /\ bi.send + Len(out) = n + 2
            /\ Tx(Process) \notin late
        BY <1>5, <3>1, <4>1 DEF Writing, Ended, Leaving, Over, Meets, Counted
      <4>8. bi.size = bi.send
        BY <3>3, <4>1 DEF Ahead
      <4>9. buf[t] + 1 = Len(out) /\ buf[t] > 0
        <5>1. PICK z, l : z = bi.send /\ l = Len(out)
          OBVIOUS
        <5>2. got + z = n + 1 /\ z + l = n + 2
          BY <5>1, <1>4, <1>9, <4>7, <4>8
        <5>3. z \in Nat /\ l \in Nat /\ n \in Nat /\ got \in Nat
          BY <5>1, <1>n
        <5>4. got + 1 = l
          BY <5>2, <5>3
        <5> QED
          BY <5>1, <5>4, <2>3
      <4>10. pc'[t] = "write" /\ pc'[w] = "read" /\ Ready(t)' /\ Ready(w)'
        BY <1>3, <1>6, <3>2, <4>1, <4>3
      <4>11. Writing(t)'
        BY <1>2, <4>4, <4>7, <4>9, <4>10 DEF Writing, Counted
      <4>12. Reading(w, s)'
        BY <1>2, <1>4, <1>9, <2>3, <4>4, <4>7, <4>10 DEF Reading
      <4>13. InTurn(t, w)'
        <5>1. Len(out') <= got' + 2
          BY <1>2, <1>3 DEF TurnOK, InTurn
        <5> QED
          BY <1>2, <4>4, <4>7, <4>8, <4>10, <5>1 DEF InTurn, Ahead, Meets, Ended, Leaving, Over
      <4>14. TurnOK(t, w, s)'
        BY <1>2, <1>3, <2>2, <3>1, <4>4, <4>11, <4>12, <4>13 DEF TurnOK
      <4>15. Carries
        BY <1>2, <2>2, <4>4, Stutters
      <4> QED
        BY <1>2, <1>3, <1>7, <2>2, <4>3, <4>4, <4>5, <4>6, <4>14, <4>15, LongCorrect
    <3> QED
      BY <3>4, <3>5
  <2> QED
    BY <2>4, <2>5
<1> QED
  BY <1>8, <1>9
(* One piece of two is thrown away.                                        *)
LEMMA DiscardIs ==
  ASSUME NEW p, NEW q
  PROVE  /\ <<>> = [j \in 1 .. Len(<<p>>) - 1 |-> IF j < 1 THEN <<p>>[j] ELSE <<p>>[j + 1]]
         /\ <<q>> = [j \in 1 .. Len(<<p, q>>) - 1 |-> IF j < 1 THEN <<p, q>>[j] ELSE <<p, q>>[j + 1]]
         /\ <<p>> = [j \in 1 .. Len(<<p, q>>) - 1 |-> IF j < 2 THEN <<p, q>>[j] ELSE <<p, q>>[j + 1]]
         /\ 1 \in 1 .. Len(<<p>>) /\ 1 \in 1 .. Len(<<p, q>>) /\ 2 \in 1 .. Len(<<p, q>>)
<1>1. Len(<<p>>) = 1 /\ Len(<<p, q>>) = 2
  OBVIOUS
<1>2. <<>> = [j \in 1 .. 1 - 1 |-> IF j < 1 THEN <<p>>[j] ELSE <<p>>[j + 1]]
  OBVIOUS
<1>3. <<q>> = [j \in 1 .. 2 - 1 |-> IF j < 1 THEN <<p, q>>[j] ELSE <<p, q>>[j + 1]]
  OBVIOUS
<1>4. <<p>> = [j \in 1 .. 2 - 1 |-> IF j < 2 THEN <<p, q>>[j] ELSE <<p, q>>[j + 1]]
  OBVIOUS
<1> QED
  BY <1>1, <1>2, <1>3, <1>4

(* What t had when it left is gone, which only a failure may bring about.  *)
LEMMA Discards ==
  ASSUME TypeOK, NEW s \in Sources, NEW w \in {s, Process}, NEW r \in {s, Process}, w # r,
         NEW t \in {w, r}, OthersRest(s),
         buf[w] # 0 /\ buf[r] # 0 => buf[w] < buf[r],
         buf[t] # 0 => fault # "none",
         buf' \in [Threads -> Nat], \A x \in Threads : buf'[x] = IF x = t THEN 0 ELSE buf[x],
         UNCHANGED <<txUser, bi.source, n, got, out, fault>>
  PROVE  Carries
<1> USE NameAssumption DEF Threads, Pair
<1>1. \A x \in Threads : buf'[x] = IF x = t THEN 0 ELSE buf[x]
  OBVIOUS
<1>2. /\ Carrier' = Carrier /\ Inside = Contents(buf) /\ Inside' = Contents(buf')
      /\ buf \in [Threads -> Nat] /\ buf' \in [Threads -> Nat]
  <2>1. \A x \in Threads : buf[x] \in Nat
    BY Numbers
  <2>2. buf \in [Threads -> Nat]
    BY <2>1 DEF TypeOK
  <2> QED
    BY <2>2 DEF Carrier, Inside, Contents
<1>3. \A x \in Pair \ {w, r} : buf[x] = 0 /\ buf'[x] = 0
  BY <1>1 DEF OthersRest, Resting
<1>4. CASE buf[t] = 0
  <2>1. \A x \in Pair : buf'[x] = buf[x]
    BY <1>1, <1>4
  <2>2. Inside' = Inside
    BY <2>1 DEF Inside
  <2> QED
    BY <2>2, <1>2 DEF Carries, Through!vars
<1>5. CASE buf[t] # 0
  <2>0. /\ buf[w] = 0 /\ buf[r] = 0 => Contents(buf) = <<>>
        /\ buf[w] = 0 /\ buf[r] # 0 => Contents(buf) = <<buf[r]>>
        /\ buf[w] # 0 /\ buf[r] = 0 => Contents(buf) = <<buf[w]>>
        /\ buf[w] # 0 /\ buf[w] < buf[r] => Contents(buf) = <<buf[w], buf[r]>>
    <3>1. w \in Pair /\ r \in Pair
      OBVIOUS
    <3>2. \A x \in Pair \ {w, r} : buf[x] = 0
      BY <1>3
    <3> HIDE NameAssumption DEF Threads, Pair
    <3> QED
      BY <1>2, <3>1, <3>2, ContentsAre
  <2> PICK p, q : p = buf[w] /\ q = buf[r]
    OBVIOUS
  <2>1. p \in Nat /\ q \in Nat /\ (p # 0 /\ q # 0 => p < q)
    BY <1>2
  <2>2. /\ p = 0 /\ q = 0 => Inside = <<>>
        /\ p = 0 /\ q # 0 => Inside = <<q>>
        /\ p # 0 /\ q = 0 => Inside = <<p>>
        /\ p # 0 /\ q # 0 => Inside = <<p, q>>
    BY <1>2, <2>0, <2>1
  <2>3. /\ t = w => Inside' = IF q = 0 THEN <<>> ELSE <<q>>
        /\ t = r => Inside' = IF p = 0 THEN <<>> ELSE <<p>>
    <3>1. /\ buf'[w] = 0 /\ buf'[r] = 0 => Contents(buf') = <<>>
          /\ buf'[w] = 0 /\ buf'[r] # 0 => Contents(buf') = <<buf'[r]>>
          /\ buf'[w] # 0 /\ buf'[r] = 0 => Contents(buf') = <<buf'[w]>>
      BY <1>2, <1>3, ContentsAre
    <3>2. /\ t = w => buf'[w] = 0 /\ buf'[r] = q
          /\ t = r => buf'[r] = 0 /\ buf'[w] = p
      BY <1>1
    <3> QED
      BY <1>2, <3>1, <3>2
  <2>4. \E i \in 1 .. Len(Inside) :
          Inside' = [j \in 1 .. Len(Inside) - 1 |-> IF j < i THEN Inside[j] ELSE Inside[j + 1]]
    <3>1. CASE t = w /\ q = 0
      <4>1. Inside = <<p>> /\ Inside' = <<>>
        BY <1>5, <2>2, <2>3, <3>1
      <4> QED
        BY <4>1, DiscardIs
    <3>2. CASE t = w /\ q # 0
      <4>1. Inside = <<p, q>> /\ Inside' = <<q>>
        BY <1>5, <2>2, <2>3, <3>2
      <4> QED
        BY <4>1, DiscardIs
    <3>3. CASE t = r /\ p = 0
      <4>1. Inside = <<q>> /\ Inside' = <<>>
        BY <1>5, <2>2, <2>3, <3>3
      <4> QED
        BY <4>1, DiscardIs
    <3>4. CASE t = r /\ p # 0
      <4>1. Inside = <<p, q>> /\ Inside' = <<p>>
        BY <1>5, <2>2, <2>3, <3>4
      <4> QED
        BY <4>1, DiscardIs
    <3> QED
      BY <3>1, <3>2, <3>3, <3>4
  <2>5. fault # "none"
    BY <1>5
  <2>6. Through!Discard
    BY <1>2, <2>4, <2>5 DEF Through!Discard
  <2> QED
    BY <2>6 DEF Carries, Through!Next
<1> QED
  BY <1>4, <1>5

(* Who leaves first waits for the other.                                   *)
LEMMA FinalCorrect ==
  ASSUME Inv, InStep, NEW t \in Pair, Final(t)
  PROVE  Correct
<1> USE NameAssumption DEF Threads, Pair
<1>1. TypeOK /\ OneOnly /\ ProgramOK /\ InPhase
  BY DEF Inv, Deep
<1> PICK p : p = IF t = Process THEN "home" ELSE "done"
  OBVIOUS
<1>2. /\ cpu = t /\ pc[t] = "final" /\ Rendezvous(t, p, bi)
      /\ pc' = [pc EXCEPT ![t] = p] /\ buf' = [buf EXCEPT ![t] = 0]
      /\ UNCHANGED <<txUser, waiting, txThread, rxThread, armed, late, n, got, out, fault>>
  BY DEF Runs, Final, Rendezvous, Suspend, links
<1>a. PICK s \in Sources : \E w \in {s, Process}, r \in {s, Process} :
        /\ w # r /\ t \in {w, r} /\ TurnOK(w, r, s) /\ OthersRest(s)
        /\ txUser = Process /\ bi.source = s /\ n \in Long /\ fault # "missed" /\ bi.sync # t
  BY <1>1, <1>2, InLoop
<1>b. PICK w \in {s, Process} : \E r \in {s, Process} :
        /\ w # r /\ t \in {w, r} /\ TurnOK(w, r, s) /\ OthersRest(s)
        /\ txUser = Process /\ bi.source = s /\ n \in Long /\ fault # "missed" /\ bi.sync # t
  BY <1>a
<1>3. PICK r \in {s, Process} :
        /\ w # r /\ t \in {w, r} /\ TurnOK(w, r, s) /\ OthersRest(s)
        /\ txUser = Process /\ bi.source = s /\ n \in Long /\ fault # "missed" /\ bi.sync # t
  BY <1>b
<1>n. /\ bi.size \in Nat /\ bi.send \in Nat /\ Len(out) \in Nat /\ n \in Nat /\ got \in Nat
      /\ \A x \in Threads : buf[x] \in Nat
  BY <1>1, Numbers
<1>4. Ended(t) /\ Ready(t)
  BY <1>2 DEF Ended, Leaving, Ready
<1>5. /\ t = w => /\ txThread = None /\ (bi.status = {} => buf[t] = 0 /\ bi.send = 0 /\ Len(out) = n + 2)
                  /\ Tx(Process) \in late => "tx" \in bi.status
      /\ t = r => /\ rxThread[s] = None /\ (bi.status = {} => buf[t] = 0 /\ bi.size = 0 /\ got = n)
                  /\ Rx(s) \in late => "rx" \in bi.status
  BY <1>2, <1>3 DEF TurnOK, Writing, Reading, InLinkTx, InLinkRx, Ended, Leaving, Over, Meets
<1>6. p \in Points
  BY DEF Points
<1>7. \A x \in Threads : /\ pc'[x] = IF x = t THEN p ELSE pc[x]
                         /\ buf'[x] = IF x = t THEN 0 ELSE buf[x]
  BY <1>1, <1>2 DEF TypeOK
<1>8. pc' \in [Threads -> Points] /\ buf' \in [Threads -> 0 .. got']
  BY <1>1, <1>2, <1>6, <1>n DEF TypeOK
<1>9. Apart
  BY <1>2 DEF Apart
<1>10. bi'.source = bi.source
  BY <1>1, <1>2 DEF Rendezvous, TypeOK
<1>11. Carries
  <2>1. fault = "none" <=> bi.status = {}
    BY <1>3 DEF TurnOK
  <2>2. buf[t] # 0 => fault # "none"
    BY <1>3, <1>5, <2>1
  <2>3. buf[w] # 0 /\ buf[r] # 0 => buf[w] < buf[r]
    BY <1>3 DEF TurnOK, InTurn
  <2>4. buf' \in [Threads -> Nat]
    BY <1>1, <1>2, <1>n DEF TypeOK
  <2> QED
    BY <1>1, <1>2, <1>3, <1>7, <1>10, <2>2, <2>3, <2>4, Discards
<1>12. CASE bi.sync = None
  <2>1. bi' = [bi EXCEPT !.sync = t] /\ cpu' = None /\ high' = high
    BY <1>2, <1>12 DEF Rendezvous, Suspend
  <2>2. /\ bi'.status = bi.status /\ bi'.size = bi.size /\ bi'.send = bi.send
        /\ bi'.source = bi.source /\ bi'.sync = t
        /\ bi' \in [status : SUBSET {"tx", "rx"}, size : Nat, send : Nat,
                    source : Sources \cup {None}, sync : Pair \cup {None}]
    BY <1>1, <2>1 DEF TypeOK
  <2>3. OneOnly' /\ \A x \in Threads : Ready(x)' <=> Ready(x) /\ x # t
    BY <1>1, <1>2, <2>1, Stops
  <2>4. TypeOK'
    BY <1>1, <1>2, <1>8, <2>1, <2>2 DEF TypeOK
  <2>5. ProgramOK' /\ OthersRest(s)'
    BY <1>1, <1>2, <1>3, <1>7, <2>3, ProgramKept, RestKept
  <2>6. Over(t)' /\ Ended(t)' /\ buf'[t] = 0
    BY <1>7, <2>2, <2>3 DEF Over, Ended, Meets
  <2>7. CASE t = w
    <3>1. Reading(r, s) /\ ~Meets(r, "write") /\ ~Ended(r)
      BY <1>2, <1>3, <1>12, <2>7 DEF TurnOK, Meets, Ended, Leaving, Over
    <3>2. Reading(r, s)' /\ (Ended(r)' <=> Ended(r)) /\ (Meets(r, "write")' <=> Meets(r, "write"))
      BY <1>2, <1>3, <1>7, <1>12, <2>1, <2>2, <2>3, <2>7, <3>1, ReaderKept
    <3>3. Writing(w)'
      BY <1>2, <1>5, <1>n, <2>2, <2>6, <2>7 DEF Writing
    <3>4. Ahead(w)' = Ahead(w)
      BY <1>2, <1>7, <2>2, <2>7 DEF Ahead
    <3>5. InTurn(w, r)'
      BY <1>2, <1>3, <1>7, <2>2, <2>6, <2>7, <3>2, <3>4 DEF TurnOK, InTurn
    <3>6. TurnOK(w, r, s)'
      BY <1>2, <1>3, <2>2, <2>6, <2>7, <3>2, <3>3, <3>5 DEF TurnOK
    <3> QED
      BY <1>2, <1>3, <1>9, <1>11, <2>2, <2>3, <2>4, <2>5, <3>6, LongCorrect
  <2>8. CASE t = r
    <3>1. Writing(w) /\ ~Meets(w, "read") /\ ~Ended(w)
      BY <1>2, <1>3, <1>12, <2>8 DEF TurnOK, Meets, Ended, Leaving, Over
    <3>2. Writing(w)' /\ (Ended(w)' <=> Ended(w)) /\ (Meets(w, "read")' <=> Meets(w, "read"))
      BY <1>2, <1>3, <1>7, <1>12, <2>1, <2>2, <2>3, <2>8, <3>1, WriterKept
    <3>3. Reading(r, s)'
      BY <1>2, <1>5, <2>2, <2>6, <2>8 DEF Reading
    <3>4. Ahead(w)' = Ahead(w) /\ ~Meets(r, "write")' /\ pc'[r] \notin {"read", "got"}
      BY <1>2, <1>3, <1>7, <2>2, <2>8 DEF Ahead, Meets
    <3>5. InTurn(w, r)'
      BY <1>2, <1>3, <1>4, <1>7, <2>2, <2>6, <2>8, <3>4 DEF TurnOK, InTurn
    <3>6. TurnOK(w, r, s)'
      BY <1>2, <1>3, <2>2, <2>6, <2>8, <3>2, <3>3, <3>5 DEF TurnOK
    <3> QED
      BY <1>2, <1>3, <1>9, <1>11, <2>2, <2>3, <2>4, <2>5, <3>6, LongCorrect
  <2> QED
    BY <1>3, <2>7, <2>8
<1>13. CASE bi.sync # None
  <2> PICK o : o = bi.sync
    OBVIOUS
  <2>1. o \in {w, r} /\ o # t /\ bi.sync = o
    BY <1>3, <1>13 DEF TurnOK
  <2>2. Over(o) /\ ~Ready(o)
    <3>1. CASE t = w
      <4>1. Meets(r, "write") => FALSE
        <5>1. Ahead(w) = bi.send
          BY <1>2, <3>1 DEF Ahead
        <5>2. Meets(r, "write") => bi.status = {} /\ bi.size = bi.send - 1
          BY <1>3, <5>1 DEF TurnOK, InTurn, Reading, Meets, Ended, Leaving, Over
        <5> QED
          BY <1>5, <1>n, <3>1, <5>2
      <4> QED
        BY <1>3, <2>1, <3>1, <4>1 DEF TurnOK, Over, Meets
    <3>2. CASE t = r
      <4>1. Meets(w, "read") => FALSE
        <5>1. Meets(w, "read") => Ahead(w) = bi.send /\ bi.status = {} /\ bi.send > 0
          BY <1>3 DEF TurnOK, Writing, Ahead, Meets, Ended, Leaving, Over
        <5> QED
          BY <1>3, <1>4, <1>n, <3>2, <5>1 DEF TurnOK, InTurn
      <4> QED
        BY <1>3, <2>1, <3>2, <4>1 DEF TurnOK, Over, Meets
    <3> QED
      BY <1>3, <3>1, <3>2
  <2>3. bi' = [bi EXCEPT !.sync = None] /\ cpu' = cpu /\ high' = Append(high, o)
    BY <1>2, <1>13 DEF Rendezvous
  <2>4. /\ high' \in Seq(Threads) /\ Once(high') /\ OneOnly'
        /\ \A x \in Threads : Ready(x)' <=> Ready(x) \/ x = o
    BY <1>1, <2>1, <2>2, <2>3, Resumes
  <2>5. /\ bi'.status = bi.status /\ bi'.size = bi.size /\ bi'.send = bi.send
        /\ bi'.source = bi.source /\ bi'.sync = None
        /\ bi' \in [status : SUBSET {"tx", "rx"}, size : Nat, send : Nat,
                    source : Sources \cup {None}, sync : Pair \cup {None}]
    BY <1>1, <2>3 DEF TypeOK
  <2>6. TypeOK'
    BY <1>1, <1>2, <1>8, <2>3, <2>4, <2>5 DEF TypeOK
  <2>7. ProgramOK' /\ OthersRest(s)'
    BY <1>1, <1>2, <1>3, <1>7, <2>1, <2>4, ProgramKept, RestKept
  <2>8. txThread = None /\ rxThread[s] = None
    <3>1. Ended(w) /\ Ended(r)
      BY <1>3, <1>4, <2>1, <2>2 DEF Ended
    <3> QED
      BY <1>3, <3>1 DEF TurnOK, Writing, Reading, Ended, Leaving, Over, Meets
  <2>9. Complete'
    <3>1. Ended(w) /\ (bi.status = {} => Len(out) = n + 2)
      <4>1. Ended(w)
        BY <1>3, <1>4, <2>1, <2>2 DEF Ended
      <4> QED
        BY <1>3, <4>1 DEF TurnOK, Writing, Ended, Leaving, Over, Meets
    <3>2. fault \in {"none", "seen", "missed"} /\ (fault = "none" <=> bi.status = {})
      BY <1>1, <1>3 DEF TypeOK, TurnOK
    <3> QED
      BY <1>2, <1>3, <3>1, <3>2 DEF Complete
  <2>10. /\ {t, o} = {s, Process} /\ buf[o] = 0
         /\ pc[o] = IF o = Process THEN "home" ELSE "done"
    BY <1>3, <2>1, <2>2 DEF Over, Meets
  <2>11. pc'[s] = "done" /\ pc'[Process] = "home" /\ Ready(s)' /\ Ready(Process)' /\ buf'[s] = 0 /\ buf'[Process] = 0
    BY <1>4, <1>7, <2>1, <2>4, <2>10
  <2>12. EndOK(s)'
    BY <1>2, <2>5, <2>8, <2>9, <2>11 DEF EndOK, ProcessHome
  <2> QED
    BY <1>2, <1>3, <1>9, <1>11, <2>4, <2>5, <2>6, <2>7, <2>12, LongCorrect
<1> QED
  BY <1>12, <1>13
----------------------------------------------------------------------------
(* The invariant holds at the start and is kept.                           *)

(* The process starts out on its way home.                                 *)
LEMMA InitCorrect ==
  ASSUME Init
  PROVE  Inv
<1> USE NameAssumption DEF Threads, Pair
<1>1. /\ cpu = None /\ high = <<Process>>
      /\ pc = [t \in Threads |-> IF t = Process THEN "home" ELSE "idle"]
      /\ txUser = None /\ waiting = FALSE /\ txThread = None
      /\ rxThread = [s \in Sources |-> None]
      /\ armed = {} /\ late = {} /\ buf = [t \in Threads |-> 0]
      /\ n = 0 /\ got = 0 /\ out = <<>> /\ fault = "none"
      /\ bi = [status |-> {}, size |-> 0, send |-> 0, source |-> None, sync |-> None]
  BY DEF Init
<1>2. high \in Seq(Threads) /\ Once(high) /\ \A x : In(high, x) <=> x = Process
  BY <1>1 DEF Once, In
<1>3. \A x \in Threads : Ready(x) <=> x = Process
  BY <1>1, <1>2 DEF Ready
<1>4. pc \in [Threads -> Points]
  BY <1>1 DEF Points
<1>5. TypeOK
  <2>1. bi \in [status : SUBSET {"tx", "rx"}, size : Nat, send : Nat,
               source : Sources \cup {None}, sync : Pair \cup {None}]
    BY <1>1
  <2>2. buf \in [Threads -> 0 .. got] /\ rxThread \in [Sources -> Pair \cup {None}] /\ out \in Seq(Nat)
    BY <1>1
  <2>3. /\ cpu = None /\ txUser = None /\ waiting = FALSE /\ txThread = None
        /\ armed = {} /\ late = {} /\ n = 0 /\ got = 0 /\ fault = "none"
    BY <1>1
  <2>4. cpu \in Threads \cup {None} /\ txUser \in Threads \cup {None} /\ txThread \in Threads \cup {None}
    BY <2>3
  <2>5. armed \subseteq Ids /\ late \subseteq Ids
    BY <2>3
  <2>6. waiting \in BOOLEAN /\ fault \in {"none", "seen", "missed"}
    BY <2>3
  <2>7. n \in {0} \cup Short \cup Long
    BY <2>3
  <2>8. got \in 0 .. n
    BY <2>3
  <2> QED
    BY <1>2, <1>4, <2>1, <2>2, <2>4, <2>5, <2>6, <2>7, <2>8 DEF TypeOK
<1>6. OneOnly /\ ProgramOK
  BY <1>1, <1>3 DEF OneOnly, ProgramOK
<1>7. Idle /\ OthersRest(None)
  BY <1>1, <1>3 DEF Idle, ProcessHome, OthersRest, Resting
<1> QED
  BY <1>1, <1>5, <1>6, <1>7 DEF Inv, Deep, InPhase, InStep

(* Every step is correct.                                                  *)
LEMMA NextCorrect ==
  ASSUME Inv, Next
  PROVE  Correct
<1>1. InStep
  BY DEF Next
<1>2. CASE Dispatch
  BY <1>1, <1>2, DispatchCorrect
<1>3. ASSUME NEW t \in Threads, Works(t) PROVE Correct
  <2>1. ASSUME t \in Sources, LinkMsg(t) \/ Go(t) \/ Proto(t) \/ Header(t) \/ Done(t) \/ SingleBuffer(t)
        PROVE  Correct
    BY <1>1, <2>1, LinkMsgCorrect, GoCorrect, ProtoCorrect, HeaderCorrect, DoneCorrect, SingleBufferCorrect
  <2>2. CASE t = Process /\ Home
    BY <1>1, <2>2, HomeCorrect
  <2>3. ASSUME t \in Pair, DoubleBuffer(t) PROVE Correct
    BY <1>1, <2>3, TurnCorrect, ReadCorrect, GotCorrect, WriteCorrect, SentCorrect, FinalCorrect DEF DoubleBuffer
  <2>4. CASE t = Local /\ LocalGoes
    BY <1>1, <2>4, LocalGoesCorrect
  <2> QED
    BY <1>3, <2>1, <2>2, <2>3, <2>4 DEF Works
<1>4. CASE Timer
  BY <1>1, <1>4, TimeoutTxCorrect, TimeoutRxCorrect DEF Timer
<1>5. CASE TxEnds \/ LocalSends
  BY <1>1, <1>5, TxEndsCorrect, LocalSendsCorrect
<1>6. CASE \E s \in Sources : MessageArrives(s) \/ RxEnds(s)
  BY <1>1, <1>6, MessageArrivesCorrect, RxEndsCorrect
<1> QED
  BY <1>2, <1>3, <1>4, <1>5, <1>6 DEF Next, Runner

(* So is a step of somebody else.                                          *)
LEMMA StillCorrect ==
  ASSUME Inv, UNCHANGED vars
  PROVE  Correct
<1>1. /\ UNCHANGED <<cpu, high, pc, txUser, waiting, txThread, rxThread, bi, armed, late, buf, n, got, out, fault>>
  BY DEF vars, links, data
<1>2. TypeOK' /\ (OwnsLink => OwnsLink')
  BY <1>1 DEF Inv, TypeOK, OwnsLink
<1>3. \A x : Ready(x)' <=> Ready(x)
  BY <1>1 DEF Ready
<1>4. ASSUME Deep PROVE Deep'
  <2>1. OneOnly' /\ ProgramOK'
    BY <1>1, <1>3, <1>4 DEF Deep, OneOnly, ProgramOK, InLinkTx
  <2>2. InPhase'
    BY <1>1, <1>3, <1>4, PhaseKept, {} \in SUBSET Sources DEF Deep
  <2> QED
    BY <2>1, <2>2 DEF Deep
<1>5. Apart /\ Carries
  BY <1>1, Stutters DEF Apart
<1> QED
  BY <1>1, <1>2, <1>4, <1>5 DEF Correct, Inv, InStep

(* The inductive invariant.                                                *)
LEMMA Invariant == Spec => []Inv
<1>1. Inv /\ [Next]_vars => Inv'
  BY NextCorrect, StillCorrect DEF Correct, Inv
<1> QED
  BY InitCorrect, <1>1, PTL DEF Spec

(* Whoever has txUser has the link, in every phase.                        *)
LEMMA OwnsAlways ==
  ASSUME Inv
  PROVE  OwnsLink
<1> USE NameAssumption DEF Threads, Pair
<1>1. CASE ~InStep
  BY <1>1 DEF Inv
<1>2. CASE InStep
  <2>1. TypeOK /\ ProgramOK /\ InPhase
    BY <1>2 DEF Inv, Deep
  <2>2. waiting => txUser # None
    BY <2>1 DEF ProgramOK
  <2>3. CASE Idle
    BY <2>1, <2>2, <2>3 DEF OwnsLink, Idle, ProgramOK, InLinkTx, TypeOK
  <2>4. ASSUME NEW s \in Sources, ShortOK(s) PROVE OwnsLink
    BY <2>2, <2>4 DEF OwnsLink, ShortOK, InLinkTx
  <2>5. ASSUME NEW s \in Sources, LongOK(s) PROVE OwnsLink
    BY <2>2, <2>5 DEF OwnsLink, LongOK, MeetingOK, TurnOK, EndOK, Writing, InLinkTx, Ended, Leaving, Over, Meets
  <2> QED
    BY <2>1, <2>3, <2>4, <2>5 DEF InPhase
<1> QED
  BY <1>1, <1>2

----------------------------------------------------------------------------
(* The theorems.                                                           *)

(* Every variable has its type; in particular nobody is on the run queue   *)
(* twice, whoever resumes him, and no more pieces come in than the message *)
(* has.                                                                    *)
THEOREM ThruTypesCorrect == Spec => []TypeOK
<1>1. Inv => TypeOK
  BY DEF Inv
<1> QED
  BY <1>1, Invariant, PTL

(* DoubleBufferProcess() waits for the next long message, or is on its way *)
(* there, whenever none is in transit, also after failures both have seen. *)
THEOREM ProcessAtHome == Spec => []AtHome
<1>1. Inv => AtHome
  <2> SUFFICES ASSUME Inv, InStep, txUser # Process PROVE AtHome
    BY DEF AtHome
  <2>1. ProcessHome
    BY DEF Inv, Deep, InPhase, Idle, ShortOK, LongOK
  <2> QED
    BY <2>1 DEF AtHome, ProcessHome, Meets
<1> QED
  BY <1>1, Invariant, PTL

(* A link has one transfer in each direction at a time, begun by the thread*)
(* that has the link, and no program waits for a link that nobody uses,    *)
(* whatever fails.                                                         *)
THEOREM TransfersAreApart == Spec => OneAtATime
<1> DEFINE A == /\ txThread' # txThread => None \in {txThread, txThread'}
                /\ \A s \in Sources : rxThread'[s] # rxThread[s] => None \in {rxThread[s], rxThread'[s]}
                /\ OwnsLink'
<1>1. Inv => OwnsLink
  BY OwnsAlways
<1>2. Inv /\ [Next]_vars => [Apart]_vars
  BY NextCorrect DEF Correct
<1>a. Apart /\ OwnsLink' => A
  BY DEF Apart
<1>3. OneAtATime <=> [][A]_vars
  BY PTL DEF OneAtATime
<1> HIDE DEF A
<1> QED
  BY <1>1, <1>2, <1>a, <1>3, Invariant, PTL DEF Spec

(* A message that goes straight from link to link goes through the relay of*)
(* Relay.tla, whichever of the two threads carries a piece and whatever    *)
(* fails: in order, each piece once, two inside at most, and the transfer  *)
(* ends early only after a failure.                                        *)
THEOREM TransfersImplementRelay == Spec => RelaySpec
<1>1. Init => Through!Init
  <2> SUFFICES ASSUME Init PROVE Through!Init
    OBVIOUS
  <2>1. /\ txUser = None /\ n = 0 /\ got = 0 /\ out = <<>> /\ fault = "none"
        /\ \A x \in Pair : buf[x] = 0
    BY DEF Init, Threads
  <2>2. Carrier = None
    BY <2>1, NameAssumption DEF Carrier
  <2>3. Inside = <<>>
    <3>1. PICK T : T = {buf[t] : t \in Pair} \ {0}
      OBVIOUS
    <3>2. T = {}
      BY <2>1, <3>1
    <3> QED
      BY <3>1, <3>2, AscendingOf DEF Inside
  <2>4. (fault # "none") = FALSE
    BY <2>1
  <2> QED
    BY <2>1, <2>2, <2>3, <2>4 DEF Through!Init, Through!Free
<1>2. Inv /\ [Next]_vars => [Through!Next]_(Through!vars)
  BY NextCorrect, StillCorrect DEF Correct, Carries
<1> QED
  BY <1>1, <1>2, Invariant, PTL DEF Spec, RelaySpec, Through!Spec
=============================================================================
