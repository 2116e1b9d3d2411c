------------------------------ MODULE LinkThru ------------------------------
(***************************************************************************)
(* Messages that go straight from one link to another: the surrogate       *)
(* branch of LinkMsg(), SingleBuffer() for a short message, and for a long *)
(* one the source's guardian and DoubleBufferProcess() of the destination, *)
(* which take turns: while one reads a piece the other sends one           *)
(* (kernel/linkmsg1.c).                                                    *)
(*                                                                         *)
(* `cpu' is the running HIGHPRI thread, which keeps the processor until it *)
(* suspends; `high' is the run queue.  The end of a transfer and a new     *)
(* message are interrupts and come at any time; TimeoutHandler() is a      *)
(* HIGHPRI thread.                                                         *)
(*                                                                         *)
(* When a link fails, the one that sees it leaves the loop and waits for   *)
(* the other, which must see it before it waits too.  Where the other      *)
(* already waits, for the next turn, the two fall out of step for ever:    *)
(* `fault' is then "missed", and the model ends.                           *)
(***************************************************************************)
EXTENDS Integers, Lists

CONSTANTS
  Sources,  \* guardians of the links that the messages come from
  Process,  \* DoubleBufferProcess() of the link they go to
  Local,    \* a program that sends its own messages there
  Short,    \* pieces of the messages SingleBuffer() takes
  Long,     \* pieces of those it does not
  None

ASSUME NameAssumption ==
  /\ Process # Local /\ {Process, Local, None} \cap Sources = {}
  /\ None \notin {Process, Local}
ASSUME SizeAssumption == /\ Short \subseteq 0 .. 4 /\ Long \subseteq Nat \ (0 .. 4)
                         /\ Short \cup Long # {}

VARIABLES
  cpu, high,   \* who runs, who waits to
  pc,          \* where each thread goes on
  txUser,      \* destlink->TxUser: whose Id it points at
  waiting,     \* destlink->TxQueue is not empty: Local is in it
  txThread,    \* destlink->TxThread
  rxThread,    \* RxThread of each source link
  bi,          \* the DBInfo of the destination
  armed, late, \* the Ids with a deadline, those whose rc is Err_Timeout
  buf,         \* the piece in each thread's buffer, 0 if none
  n, got,      \* history: the pieces of the message in transit, those received
  out,         \* history: what the transfer has sent
  fault        \* history: the transfer's failures, "missed" if out of step

links == <<txUser, waiting, txThread, rxThread>>
data  == <<buf, n, got, out>>
vars  == <<cpu, high, pc, links, bi, armed, late, data, fault>>

Pair    == Sources \cup {Process}
Threads == Pair \cup {Local}
Rx(s)   == <<"rx", s>>
Tx(o)   == <<"tx", o>>
Ids     == {Rx(s) : s \in Sources} \cup {Tx(o) : o \in Threads}

----------------------------------------------------------------------------
(* The executive and the links.                                            *)

Runs(t, p) == cpu = t /\ pc[t] = p
Goto(t, p) == pc' = [pc EXCEPT ![t] = p] /\ UNCHANGED <<cpu, high>>

Dispatch ==
  /\ cpu = None /\ high # <<>>
  /\ cpu' = Head(high) /\ high' = Tail(high)
  /\ UNCHANGED <<pc, links, bi, armed, late, data, fault>>

(* t suspends and goes on at p.                                            *)
Suspend(t, p) ==
  /\ cpu' = None
  /\ pc' = [pc EXCEPT ![t] = p]
  /\ UNCHANGED high

(* LinkTx() and LinkRx().                                                  *)
LinkTx(t, p) == txThread' = t /\ Suspend(t, p) /\ UNCHANGED <<txUser, waiting, rxThread>>

LinkRx(t, s, p) ==
  /\ rxThread' = [rxThread EXCEPT ![s] = t]
  /\ Suspend(t, p)
  /\ UNCHANGED <<txUser, waiting, txThread>>

(* Fault: who comes second does not clear bi->sync.                        *)
RendezvousKept(t, p, b) ==
  IF b.sync = None THEN bi' = [b EXCEPT !.sync = t] /\ Suspend(t, p)
    ELSE /\ bi' = b
         /\ high' = Append(high, b.sync)
         /\ pc' = [pc EXCEPT ![t] = p]
         /\ UNCHANGED cpu

(* Fault: who comes second does not resume the first.                      *)
RendezvousSilent(t, p, b) ==
  IF b.sync = None THEN bi' = [b EXCEPT !.sync = t] /\ Suspend(t, p)
                   ELSE bi' = [b EXCEPT !.sync = None] /\ Goto(t, p)

(* DBRendezvous(): who comes first waits in bi->sync for the other.        *)
Rendezvous(t, p, b) ==
  IF b.sync = None THEN bi' = [b EXCEPT !.sync = t] /\ Suspend(t, p)
    ELSE /\ bi' = [b EXCEPT !.sync = None]
         /\ high' = Append(high, b.sync)
         /\ pc' = [pc EXCEPT ![t] = p]
         /\ UNCHANGED cpu

(* _SignalLink()                                                           *)
SignalLink ==
  /\ txUser' = IF waiting THEN Local ELSE None
  /\ waiting' = FALSE
  /\ high' = IF waiting THEN Append(high, Local) ELSE high
  /\ UNCHANGED <<txThread, rxThread>>

InStep == fault # "missed"

(* A failure that the other, waiting for its next turn, will not see.      *)
Unseen == bi.sync # None /\ pc[bi.sync] \in {"read", "write"}
Failed == fault' = IF Unseen THEN "missed" ELSE "seen"

----------------------------------------------------------------------------
(* LinkMsg() of a guardian.                                                *)

MessageArrives(s) ==
  /\ pc[s] = "idle"
  /\ pc' = [pc EXCEPT ![s] = "message"]
  /\ high' = Append(high, s)
  /\ armed' = armed \cup {Rx(s)}
  /\ UNCHANGED <<cpu, links, bi, late, data, fault>>

(* The destination is in use: the message goes into a buffer, which is not *)
(* modelled.                                                               *)
Busy == txUser # None \/ waiting

Buffered(s) ==
  /\ Busy
  /\ pc' = [pc EXCEPT ![s] = "idle"] /\ cpu' = None
  /\ armed' = armed \ {Rx(s)} /\ late' = late \ {Rx(s)}
  /\ UNCHANGED <<high, links, bi, data, fault>>

(* SingleBuffer() begins; its Id for the destination is on its stack.      *)
Single(s) ==
  /\ ~Busy /\ n' \in Short
  /\ txUser' = s /\ txThread' = s
  /\ Suspend(s, "single")
  /\ armed' = armed \cup {Tx(s), Rx(s)} /\ late' = late \ {Tx(s), Rx(s)}
  /\ UNCHANGED <<waiting, rxThread, bi, buf, got, out, fault>>

(* A long message: the process is waiting, and enters the loop.            *)
Double(s) ==
  /\ ~Busy /\ n' \in Long
  /\ txUser' = Process
  /\ Rendezvous(s, "go", [bi EXCEPT !.size = n', !.send = n', !.source = s])
  /\ UNCHANGED <<waiting, txThread, rxThread, armed, late, buf, got, out, fault>>

LinkMsg(s) == Runs(s, "message") /\ (Buffered(s) \/ Single(s) \/ Double(s))

(* Fault: the guardian does not wait for the process to be in the loop.    *)
GoAtOnce(s) ==
  /\ Runs(s, "go")
  /\ Goto(s, "proto")
  /\ UNCHANGED <<links, bi, armed, late, data, fault>>

(* The process may read the first piece.                                   *)
Go(s) ==
  /\ Runs(s, "go")
  /\ Rendezvous(s, "proto", bi)
  /\ UNCHANGED <<links, armed, late, data, fault>>

Proto(s) ==
  /\ Runs(s, "proto")
  /\ armed' = armed \cup {Tx(Process)}
  /\ LinkTx(s, "header")
  /\ UNCHANGED <<bi, late, data, fault>>

(* The header is sent, unless the protocol byte failed, then the loop is   *)
(* entered, unless the header did (dberror).                               *)
Header(s) ==
  /\ \/ /\ Runs(s, "header") /\ Tx(Process) \notin late
        /\ LinkTx(s, "body")
        /\ UNCHANGED <<bi, fault>>
     \/ /\ Runs(s, "body") /\ Tx(Process) \notin late
        /\ Goto(s, "enter")
        /\ fault' = IF bi.status = {} THEN fault ELSE "missed"
        /\ UNCHANGED <<links, bi>>
     \/ /\ Runs(s, "header") \/ Runs(s, "body")
        /\ Tx(Process) \in late
        /\ Failed
        /\ Rendezvous(s, "done", [bi EXCEPT !.status = @ \cup {"tx"}])
        /\ UNCHANGED links
  /\ UNCHANGED <<armed, late, data>>

(* The end, whatever the result.                                           *)
Done(s) ==
  /\ Runs(s, "done")
  /\ SignalLink
  /\ pc' = [pc EXCEPT ![s] = "idle"] /\ cpu' = None
  /\ armed' = armed \ {Rx(s), Tx(s)} /\ late' = late \ {Rx(s), Tx(s)}
  /\ n' = 0 /\ got' = 0
  /\ buf' = [buf EXCEPT ![s] = 0]
  /\ out' = <<>>
  /\ fault' = IF InStep THEN "none" ELSE fault
  /\ UNCHANGED bi

(* SingleBuffer() after each of its transfers.                             *)
SingleGoes(s) ==
  \/ /\ Runs(s, "single") /\ Tx(s) \notin late
     /\ LinkTx(s, "next")
     /\ UNCHANGED fault
  \/ /\ Runs(s, "next") /\ Tx(s) \notin late /\ got < n
     /\ LinkRx(s, s, "forward")
     /\ UNCHANGED fault
  \/ /\ Runs(s, "next") /\ Tx(s) \notin late /\ got = n
     /\ Goto(s, "done")
     /\ UNCHANGED <<links, fault>>
  \/ /\ Runs(s, "forward") /\ Rx(s) \notin late
     /\ LinkTx(s, "next")
     /\ UNCHANGED fault
  \/ /\ \/ (Runs(s, "single") \/ Runs(s, "next")) /\ Tx(s) \in late
        \/ Runs(s, "forward") /\ Rx(s) \in late
     /\ Goto(s, "done")
     /\ fault' = "seen"
     /\ UNCHANGED links

SingleBuffer(s) == SingleGoes(s) /\ UNCHANGED <<bi, armed, late, data>>

----------------------------------------------------------------------------
(* DoubleBufferProcess() and DoubleBuffer(), which the guardian and the    *)
(* process both run.                                                       *)

Home ==
  /\ Runs(Process, "home")
  /\ armed' = armed \ {Tx(Process)} /\ late' = late \ {Tx(Process)}
  /\ Rendezvous(Process, "enter", [bi EXCEPT !.status = {}])
  /\ UNCHANGED <<links, data, fault>>

Turn(t) ==
  /\ Runs(t, "enter")
  /\ Rendezvous(t, "read", bi)
  /\ UNCHANGED <<links, armed, late, data, fault>>

Leave(t) == Goto(t, "final") /\ UNCHANGED links

Read(t) ==
  /\ Runs(t, "read")
  /\ IF bi.status # {} \/ bi.size = 0
       THEN Leave(t) /\ UNCHANGED armed
       ELSE LinkRx(t, bi.source, "got") /\ armed' = armed \cup {Rx(bi.source)}
  /\ UNCHANGED <<bi, late, data, fault>>

Got(t) ==
  /\ Runs(t, "got")
  /\ IF Rx(bi.source) \in late
       THEN /\ bi' = [bi EXCEPT !.status = @ \cup {"rx"}]
            /\ Goto(t, "final")
            /\ Failed
       ELSE LET b == [bi EXCEPT !.size = @ - 1] IN
            /\ IF "tx" \in bi.status THEN bi' = b /\ Goto(t, "final")
                                     ELSE Rendezvous(t, "write", b)
            /\ UNCHANGED fault
  /\ UNCHANGED <<links, armed, late, data>>

Write(t) ==
  /\ Runs(t, "write")
  /\ IF "tx" \in bi.status
       THEN Leave(t) /\ UNCHANGED armed
       ELSE LinkTx(t, "sent") /\ armed' = armed \cup {Tx(Process)}
  /\ UNCHANGED <<bi, late, data, fault>>

(* Fault: the loop ends one piece early.                                   *)
SentShort(t) ==
  /\ Runs(t, "sent")
  /\ bi' = [bi EXCEPT !.send = @ - 1]
  /\ Goto(t, IF bi.status # {} \/ bi'.send <= 1 THEN "final" ELSE "enter")
  /\ UNCHANGED <<links, armed, late, data, fault>>

Sent(t) ==
  /\ Runs(t, "sent")
  /\ IF Tx(Process) \in late
       THEN /\ bi' = [bi EXCEPT !.status = @ \cup {"tx"}]
            /\ Goto(t, "final")
            /\ Failed
       ELSE /\ bi' = [bi EXCEPT !.send = @ - 1]
            /\ Goto(t, IF bi.status # {} \/ bi'.send = 0 THEN "final" ELSE "enter")
            /\ UNCHANGED fault
  /\ UNCHANGED <<links, armed, late, data>>

(* Fault: no final rendezvous after a failure.                             *)
FinalNot(t) ==
  /\ Runs(t, "final")
  /\ LET next == IF t = Process THEN "home" ELSE "done" IN
     IF bi.status = {} THEN Rendezvous(t, next, bi) ELSE Goto(t, next) /\ UNCHANGED bi
  /\ buf' = [buf EXCEPT ![t] = 0]
  /\ UNCHANGED <<links, armed, late, n, got, out, fault>>

Final(t) ==
  /\ Runs(t, "final")
  /\ Rendezvous(t, IF t = Process THEN "home" ELSE "done", bi)
  /\ buf' = [buf EXCEPT ![t] = 0]
  /\ UNCHANGED <<links, armed, late, n, got, out, fault>>

DoubleBuffer(t) == Turn(t) \/ Read(t) \/ Got(t) \/ Write(t) \/ Sent(t) \/ Final(t)

----------------------------------------------------------------------------
(* The program, the interrupts and the time-outs.                          *)

(* The surrogate branch of _PutMsg() and _WaitLink().                      *)
LocalSends ==
  /\ cpu = None /\ high = <<>> /\ pc[Local] = "idle"
  /\ \/ /\ txUser # None
        /\ waiting' = TRUE
        /\ pc' = [pc EXCEPT ![Local] = "queue"]
        /\ UNCHANGED <<txUser, txThread, armed>>
     \/ /\ txUser = None
        /\ txUser' = Local /\ txThread' = Local
        /\ pc' = [pc EXCEPT ![Local] = "local"]
        /\ armed' = armed \cup {Tx(Local)}
        /\ UNCHANGED waiting
  /\ UNCHANGED <<cpu, high, rxThread, bi, late, data, fault>>

LocalGoes ==
  \/ /\ Runs(Local, "queue")
     /\ LinkTx(Local, "local")
     /\ armed' = armed \cup {Tx(Local)}
     /\ UNCHANGED <<bi, late, data, fault>>
  \/ /\ Runs(Local, "local")
     /\ SignalLink
     /\ pc' = [pc EXCEPT ![Local] = "idle"] /\ cpu' = None
     /\ armed' = armed \ {Tx(Local)} /\ late' = late \ {Tx(Local)}
     /\ UNCHANGED <<bi, data, fault>>

(* What t's LinkTx() sends: everything is numbered in the order in which   *)
(* it should go out, the protocol byte, the header, the pieces.            *)
Sends(t) == CASE pc[t] \in {"header", "single"} -> 1
              [] pc[t] = "body"                 -> 2
              [] pc[t] = "next" /\ Len(out) = 1 -> 2
              [] OTHER                          -> buf[t] + 2

TxEnds ==
  /\ txThread # None
  /\ high' = Append(high, txThread)
  /\ txThread' = None
  /\ out' = IF txThread = Local THEN out ELSE Append(out, Sends(txThread))
  /\ buf' = [buf EXCEPT ![txThread] = 0]
  /\ UNCHANGED <<cpu, pc, txUser, waiting, rxThread, bi, armed, late, n, got, fault>>

RxEnds(s) ==
  /\ rxThread[s] # None
  /\ high' = Append(high, rxThread[s])
  /\ rxThread' = [rxThread EXCEPT ![s] = None]
  /\ got' = got + 1
  /\ buf' = [buf EXCEPT ![rxThread[s]] = got']
  /\ UNCHANGED <<cpu, pc, txUser, waiting, txThread, bi, armed, late, n, out, fault>>

(* TimeoutHandler() finds the deadline of TxUser's or RxUser's Id passed:  *)
(* it aborts the transfer there is, if any, and disarms the Id.            *)
TimeoutTx(o) ==
  /\ cpu = None /\ txUser = o /\ Tx(o) \in armed
  /\ armed' = armed \ {Tx(o)}
  /\ late' = IF txThread = None THEN late ELSE late \cup {Tx(o)}
  /\ high' = IF txThread = None THEN high ELSE Append(high, txThread)
  /\ txThread' = None
  /\ UNCHANGED <<cpu, pc, txUser, waiting, rxThread, bi, data, fault>>

TimeoutRx(s) ==
  /\ cpu = None /\ Rx(s) \in armed
  /\ armed' = armed \ {Rx(s)}
  /\ late' = IF rxThread[s] = None THEN late ELSE late \cup {Rx(s)}
  /\ high' = IF rxThread[s] = None THEN high ELSE Append(high, rxThread[s])
  /\ rxThread' = [rxThread EXCEPT ![s] = None]
  /\ UNCHANGED <<cpu, pc, txUser, waiting, txThread, bi, data, fault>>

----------------------------------------------------------------------------
Init ==
  /\ cpu = None /\ high = <<Process>>
  /\ pc = [t \in Threads |-> IF t = Process THEN "home" ELSE "idle"]
  /\ txUser = None /\ waiting = FALSE /\ txThread = None
  /\ rxThread = [s \in Sources |-> None]
  /\ bi = [status |-> {}, size |-> 0, send |-> 0, source |-> None, sync |-> None]
  /\ armed = {} /\ late = {}
  /\ buf = [t \in Threads |-> 0]
  /\ n = 0 /\ got = 0
  /\ out = <<>> /\ fault = "none"

Works(t) ==
  \/ t \in Sources /\ (LinkMsg(t) \/ Go(t) \/ Proto(t) \/ Header(t) \/ Done(t) \/ SingleBuffer(t))
  \/ t = Process /\ Home
  \/ t \in Pair /\ DoubleBuffer(t)
  \/ t = Local /\ LocalGoes

Runner == Dispatch \/ \E t \in Threads : Works(t)
Timer  == (\E o \in Threads : TimeoutTx(o)) \/ \E s \in Sources : TimeoutRx(s)

Next ==
  /\ InStep
  /\ \/ Runner \/ Timer
     \/ TxEnds \/ LocalSends
     \/ \E s \in Sources : MessageArrives(s) \/ RxEnds(s)

Spec == Init /\ [][Next]_vars

(* The executive runs whoever may run.  TimeoutHandler() comes round in    *)
(* its turn, and a deadline passes.                                        *)
FairSpec ==
  /\ Spec
  /\ WF_vars(InStep /\ Runner)
  /\ SF_vars(InStep /\ \E o \in Threads : TimeoutTx(o))
  /\ \A s \in Sources : SF_vars(InStep /\ TimeoutRx(s))

----------------------------------------------------------------------------
(* Properties.                                                             *)

Points == {"idle", "message", "go", "proto", "header", "body", "single", "next", "forward",
           "enter", "read", "got", "write", "sent", "final", "done", "home", "queue", "local"}

(* Every variable has its type, nobody is on the run queue twice, and no   *)
(* more pieces come in than the message has.                               *)
TypeOK ==
  /\ cpu \in Threads \cup {None} /\ high \in Seq(Threads) /\ Once(high)
  /\ pc \in [Threads -> Points]
  /\ txUser \in Threads \cup {None} /\ waiting \in BOOLEAN
  /\ txThread \in Threads \cup {None} /\ rxThread \in [Sources -> Pair \cup {None}]
  /\ bi \in [status : SUBSET {"tx", "rx"}, size : Nat, send : Nat,
             source : Sources \cup {None}, sync : Pair \cup {None}]
  /\ armed \subseteq Ids /\ late \subseteq Ids
  /\ n \in {0} \cup Short \cup Long /\ got \in 0 .. n
  /\ buf \in [Threads -> 0 .. got]
  /\ out \in Seq(Nat) /\ fault \in {"none", "seen", "missed"}

(* When no long message is in transit the process waits at its first       *)
(* rendezvous or is on its way there, also after a failure that both saw:  *)
(* the next guardian's first rendezvous is with a process that is ready.   *)
AtHome ==
  InStep /\ txUser # Process =>
    \/ pc[Process] = "home"
    \/ pc[Process] = "enter" /\ bi.sync = Process

(* Nobody sends but for the one whose Id TxUser points at, so that a       *)
(* time-out aborts the transfer it is about; and no program is left        *)
(* waiting for a link that nobody uses.                                    *)
OwnsLink ==
  /\ txThread # None =>
       \/ txUser = txThread
       \/ txUser = Process /\ txThread = bi.source
  /\ waiting => txUser # None

(* No LinkTx() or LinkRx() begins on a link while another is in progress   *)
(* there, for the link has one TxThread and one RxThread, and none begins  *)
(* on a destination that is another's.                                     *)
OneAtATime ==
  [][/\ txThread' # txThread => None \in {txThread, txThread'}
     /\ \A s \in Sources : rxThread'[s] # rxThread[s] => None \in {rxThread[s], rxThread'[s]}
     /\ OwnsLink']_vars

(* The two links and whoever carries the message are a relay with room for *)
(* two pieces (Relay.tla): it loses none unless a link fails, and what has *)
(* gone out is the beginning of the message, although two threads send it. *)
Ascending(S) ==
  CHOOSE q \in [1 .. Cardinality(S) -> S] : \A i, j \in 1 .. Cardinality(S) : i < j => q[i] < q[j]
Carrier == CASE txUser = Process     -> bi.source
             [] txUser \in Sources   -> txUser
             [] OTHER                -> None
Inside  == Ascending({buf[t] : t \in Pair} \ {0})
Through == INSTANCE Relay WITH
  Lengths <- Short \cup Long,
  Places  <- 2,
  carrier <- Carrier,
  total   <- n,
  inside  <- Inside,
  taken   <- got,
  failed  <- fault # "none"
RelaySpec == Through!Spec

(* A deadline that fell between two transfers: the next one has none.      *)
Disarmed(s) ==
  \/ rxThread[s] # None /\ Rx(s) \notin armed
  \/ txThread # None /\ Tx(txUser) \notin armed

(* A guardian that forwards a message ends, though the destination takes   *)
(* nothing or the source sends nothing more, unless it is disarmed.        *)
TransferEnds ==
  \A s \in Sources : pc[s] # "idle" ~> pc[s] = "idle" \/ Disarmed(s) \/ ~InStep
=============================================================================
