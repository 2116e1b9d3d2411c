-------------------------------- MODULE Pipe --------------------------------
(***************************************************************************)
(* A connected pipe: the server in the reader's task (PipeServer() of      *)
(* nucleus/syslib/pipe.c) and the programs' ends of it (Read() and Write() *)
(* of nucleus/syslib/stream.c, with Flags_Extended).                       *)
(*                                                                         *)
(* The writer is on another processor: the network may lose any message to *)
(* or from it, and the protocol has to live with that.  Reader and server  *)
(* are on one, where messages arrive.  The side that waits gives up only   *)
(* when no answer can come any more: it waits 20 seconds longer than the   *)
(* server holds a request.                                                 *)
(*                                                                         *)
(* Bytes are numbered by their place in the stream.  `trouble' says that   *)
(* the protocol has gone wrong and is the end of what is modelled:         *)
(*   already  the writer is told the server has bytes it has not got       *)
(*   stale    a ReadAck confirms an exchange the writer has given up       *)
(*   garbage  bytes are counted as pending that never came                 *)
(*   repeated Read() returns bytes that it tells the server to send again  *)
(*   wild     Write() takes an error for the number of bytes written       *)
(***************************************************************************)
EXTENDS Integers, Sequences

CONSTANTS
  Total,      \* bound of the model: the bytes that are written
  MaxSize,    \* bound of the model: the size of a Read() or Write()
  MaxLost,    \* bound of the model: the messages that are lost
  IOCDataMax, \* a write of up to that size carries its data with it
  BufSizes,   \* Pending.max; 0 if there was no memory
  None        \* no request

ASSUME SizeAssumption ==
  /\ Total \in Nat \ {0} /\ MaxSize \in Nat /\ MaxLost \in Nat
  /\ IOCDataMax \in Nat \ {0} /\ BufSizes \subseteq Nat

VARIABLES
  p,        \* the PipeInfo of the reader's task
  toServer, \* messages on their way to the server
  toWriter, \* to the writer's reply port
  toReader, \* to the reader's reply port
  toData,   \* to DataPort
  wpc,      \* where the writer is in Write()
  told,     \* Stream.Pos + tot.sent of the writer
  goal,     \* where its Write() ends
  xfer,     \* tfr of its Write(), and where it sends the data
  rpc,      \* where the reader is in Read()
  want,     \* the size and time-out of its Read()
  res,      \* the bytes in its buffer
  seq,      \* how many messages they came in
  err,      \* the error it acknowledges instead
  port,     \* its reply port
  given,    \* history: the bytes Read() has returned
  eof,      \* history: and the end of file
  lost,     \* history: the kinds of messages that were lost
  left,     \* history: how many may still be
  stale,    \* history: the writer has given up the exchange of Write.ack
  trouble

writer  == <<wpc, told, goal, xfer>>
reader  == <<rpc, want, res, seq, err, port>>
network == <<toServer, toWriter, toReader, toData>>
history == <<given, eof, stale, trouble>>
losses  == <<lost, left>>
vars    == <<p, writer, reader, network, history, losses>>

Timeouts == {"poll", "finite", "forever"} \* finite: up to IdleTimeout
Ports    == {"port", "other port"}        \* a new one is never the old one
NoXfer   == [to |-> "none", size |-> 0, chunk |-> 1, sent |-> 0, seq |-> 0]
NoWant   == [size |-> 0, wait |-> "none"]

Least(m, n)   == IF m < n THEN m ELSE n
From(pos, n)  == [i \in 1 .. n |-> pos + i]
Remove(s, i)  == SubSeq(s, 1, i - 1) \o SubSeq(s, i + 1, Len(s))

(* The size of a message of up to n bytes: MaxTfr is halved by retries,    *)
(* grows otherwise, and is never less than IOCDataMax.                     *)
Tfrs(n) == {Least(n, max) : max \in IOCDataMax .. Total}

----------------------------------------------------------------------------
(* The server's handlers, from PipeInfo and request to the possible new    *)
(* PipeInfos and what is sent to writer and reader.                        *)
Out(q, w, r) == [p |-> q, w |-> w, r |-> r]

Reply(kind, n)       == [kind |-> kind, n |-> n, first |-> n, to |-> "none"]
Sizes(max, first, to) == [kind |-> "sizes", n |-> max, first |-> first, to |-> to]
ToReader(kind, bytes) == [kind |-> kind, bytes |-> bytes, seq |-> 0, last |-> TRUE]

Immediate(m) == m.size <= IOCDataMax

Store(q, pos, bytes) ==
  [q EXCEPT !.pend = @ \o bytes, !.got = @ + Len(bytes), !.WritePos = pos]

(* The data goes from writer to reader: the server passes immediate data   *)
(* on and otherwise tells the writer where to send it.                     *)
ExchangeData(q, r, m) ==
  LET n == Least(m.size, r.size)
      x == [q EXCEPT !.readReq = None, !.writeReq = None, !.ack = TRUE, !.ackPos = m.pos]
  IN
  IF Immediate(m) THEN {Out(x, <<>>, <<ToReader("data", From(m.pos, n))>>)}
  ELSE {Out(x, <<Sizes(n, first, r.port)>>, <<>>) : first \in Tfrs(n)}

DoPipeRead(q, r) ==
  IF q.pend # <<>> THEN
    {Out([q EXCEPT !.readReq = None], <<>>, <<ToReader("data", SubSeq(q.pend, 1, n))>>)
      : n \in Tfrs(Least(r.size, Len(q.pend)))}
  ELSE IF q.writeReq # None THEN ExchangeData(q, r, q.writeReq)
  ELSE IF r.wait = "poll" \/ ~q.open THEN
    {Out([q EXCEPT !.readReq = None], <<>>, <<ToReader(IF q.open THEN "timeout" ELSE "eof", <<>>)>>)}
  ELSE {Out([q EXCEPT !.readReq = r], <<>>, <<>>)}

(* What is left of a write that is not a retry: it meets a reader, goes    *)
(* into the buffer, at once or from DataPort, or waits.                    *)
Accept(q, m) ==
  LET room == Least(m.size, q.max - q.got) IN
  IF q.readReq # None THEN ExchangeData(q, q.readReq, m)
  ELSE IF room = 0 THEN {Out([q EXCEPT !.writeReq = m], <<>>, <<>>)}
  ELSE IF Immediate(m) THEN
    {Out(Store([q EXCEPT !.writeReq = None], m.pos, From(m.pos, room)), <<Reply("done", room)>>, <<>>)}
  ELSE {Out([q EXCEPT !.writeReq = None, !.data = [pos |-> m.pos, size |-> n]],
            <<Sizes(n, n, "DataPort")>>, <<>>) : n \in Tfrs(room)}

(* Fault: a retry of what has been accepted is not recognized.             *)
DoPipeWriteAgain(q, m) == Accept(q, m)

(* Fault: it is, and thrown away without an answer.                        *)
DoPipeWriteJunked(q, m) ==
  IF q.WritePos = m.pos THEN {Out([q EXCEPT !.writeReq = None], <<>>, <<>>)} ELSE Accept(q, m)

DoPipeWrite(q, m) ==
  IF q.WritePos = m.pos
    THEN {Out([q EXCEPT !.writeReq = None], <<Reply("already", m.size)>>, <<>>)}
    ELSE Accept(q, m)

(* Fault: Write.ack is not cleared.                                        *)
AckedStill(q, n) == [q EXCEPT !.WritePos = IF q.ack /\ n > 0 THEN q.ackPos ELSE @]

Acked(q, n) == [q EXCEPT !.ack = FALSE, !.WritePos = IF q.ack /\ n > 0 THEN q.ackPos ELSE @]

(* Fault: the waiting write is left to its time-out.                       *)
DroppedOnly(q, n) ==
  LET kept == SubSeq(q.pend, n + 1, Len(q.pend)) IN
  {Out([q EXCEPT !.pend = kept, !.got = IF kept = <<>> THEN 0 ELSE @], <<>>, <<>>)}

(* The bytes the reader has got leave the buffer, and a waiting write is   *)
(* tried again.                                                            *)
Dropped(q, n) ==
  LET kept == SubSeq(q.pend, n + 1, Len(q.pend))
      d    == [q EXCEPT !.pend = kept, !.got = IF kept = <<>> THEN 0 ELSE @]
  IN
  IF d.writeReq = None THEN {Out(d, <<>>, <<>>)} ELSE DoPipeWrite(d, d.writeReq)

DoReadAck(q, n) ==
  LET w == IF q.ack THEN <<Reply("done", n)>> ELSE <<>> IN
  IF n <= 0 \/ q.pend = <<>> THEN {Out(Acked(q, n), w, <<>>)}
  ELSE {[o EXCEPT !.w = w \o @] : o \in Dropped(Acked(q, n), n)}

(* Both requests are aborted; the writer that closes has none.             *)
DoPipeClose(q) ==
  Out([q EXCEPT !.open = FALSE, !.readReq = None, !.writeReq = None],
      IF q.writeReq # None THEN <<Reply("broken", 0)>> ELSE <<>>,
      IF q.readReq # None THEN <<ToReader("eof", <<>>)>> ELSE <<>>)

Serve(o) ==
  /\ p' = o.p
  /\ toWriter' = toWriter \o o.w
  /\ toReader' = toReader \o o.r

----------------------------------------------------------------------------
(* The writer.                                                             *)
Request(pos, end) ==
  /\ toServer' = Append(toServer, [kind |-> "write", pos |-> pos, size |-> end - pos])
  /\ wpc' = "reply"
  /\ xfer' = NoXfer

Write(n) ==
  /\ wpc = "idle"
  /\ goal + n <= Total
  /\ goal' = goal + n
  /\ Request(told, goal + n)
  /\ UNCHANGED <<p, told, reader, toWriter, toReader, toData, history, losses>>

Retry ==
  /\ Request(told, goal)
  /\ UNCHANGED <<p, told, goal, reader, toReader, toData, given, eof, trouble, losses>>

Gets(kinds, pc) ==
  /\ wpc = pc
  /\ toWriter # <<>> /\ Head(toWriter).kind \in kinds
  /\ toWriter' = Tail(toWriter)

(* The server has not found a reader or room in time.                      *)
WriteTimesOut == Gets({"timeout"}, "reply") /\ Retry /\ UNCHANGED stale

WriteSizes ==
  LET m == Head(toWriter) IN
  /\ Gets({"sizes"}, "reply")
  /\ xfer' = [to |-> m.to, size |-> m.n, chunk |-> m.first, sent |-> 0, seq |-> 0]
  /\ wpc' = "send"
  /\ UNCHANGED <<p, told, goal, reader, toServer, toReader, toData, history, losses>>

WriteSends ==
  LET n     == Least(xfer.chunk, xfer.size - xfer.sent)
      bytes == From(told + xfer.sent, n)
      last  == xfer.sent + n = xfer.size
  IN
  /\ wpc = "send"
  /\ toData' = IF xfer.to = "DataPort" THEN Append(toData, bytes) ELSE toData
  /\ toReader' = IF xfer.to # port THEN toReader
                 ELSE Append(toReader, [kind |-> "data", bytes |-> bytes,
                                        seq |-> xfer.seq, last |-> last])
  /\ xfer' = [xfer EXCEPT !.sent = @ + n, !.seq = @ + 1]
  /\ wpc' = IF last THEN "confirm" ELSE "send"
  /\ UNCHANGED <<p, told, goal, reader, toServer, toWriter, history, losses>>

(* n bytes more are written; Write() returns or asks for the rest.         *)
Written(n) ==
  /\ told' = told + n
  /\ IF told + n < goal THEN Request(told + n, goal)
     ELSE wpc' = "idle" /\ xfer' = NoXfer /\ UNCHANGED toServer
  /\ UNCHANGED <<p, goal, reader, toReader, toData, given, eof, stale, losses>>

(* The first reply ends the transfer: a negative count would be added to   *)
(* the position and the address of the data.                               *)
WriteDone ==
  LET n == Head(toWriter).n IN
  /\ Gets({"done", "already"}, "reply")
  /\ \/ n >= 0 /\ Written(n) /\ UNCHANGED trouble
     \/ /\ n < 0
        /\ trouble' = "wild"
        /\ UNCHANGED <<p, writer, reader, toServer, toReader, toData, given, eof, stale, losses>>

WriteConfirmed ==
  LET n == Head(toWriter).n IN
  /\ Gets({"done"}, "confirm")
  /\ \/ n = xfer.sent /\ Written(n) /\ UNCHANGED trouble
     \/ n # xfer.sent /\ Retry /\ UNCHANGED stale

(* No answer will come.                                                    *)
WriteGivesUp ==
  /\ wpc \in {"reply", "confirm"}
  /\ toServer = <<>> /\ toWriter = <<>> /\ p.writeReq = None /\ p.data = None
  /\ ~(p.ack /\ (toReader # <<>> \/ rpc = "ack"))
  /\ Retry
  /\ stale' = p.ack
  /\ UNCHANGED toWriter

Close ==
  /\ wpc = "idle"
  /\ wpc' = "closed"
  /\ toServer' = Append(toServer, [kind |-> "close", pos |-> 0, size |-> 0])
  /\ UNCHANGED <<p, told, goal, xfer, reader, toWriter, toReader, toData, history, losses>>

----------------------------------------------------------------------------
(* The server, in GetMsg() on its port or on DataPort.                     *)
Idle == p.data = None

(* What the writer is told it has written is in the pipe or read.          *)
Beyond(w) == \E i \in 1 .. Len(w) : w[i].kind = "already"
                                    /\ Head(toServer).pos + w[i].n > Len(given) + Len(p.pend)

ServeWrite ==
  LET m == Head(toServer) IN
  /\ Idle
  /\ toServer # <<>> /\ m.kind = "write"
  /\ toServer' = Tail(toServer)
  /\ \E o \in DoPipeWrite(p, m) :
       /\ Serve(o)
       /\ trouble' = IF Beyond(o.w) THEN "already" ELSE trouble
  /\ stale' = (stale /\ p.readReq = None)
  /\ UNCHANGED <<writer, reader, toData, given, eof, losses>>

ServeClose ==
  /\ Idle
  /\ toServer # <<>> /\ Head(toServer).kind = "close"
  /\ toServer' = Tail(toServer)
  /\ Serve(DoPipeClose(p))
  /\ UNCHANGED <<writer, reader, toData, history, losses>>

ServeRead ==
  /\ Idle
  /\ rpc = "request"
  /\ rpc' = "data"
  /\ \E o \in DoPipeRead(p, [size |-> want.size, wait |-> want.wait, port |-> port]) : Serve(o)
  /\ stale' = (stale /\ (p.pend # <<>> \/ p.writeReq = None))
  /\ UNCHANGED <<writer, want, res, seq, err, port, toServer, toData, given, eof, trouble, losses>>

ServeData ==
  /\ ~Idle /\ toData # <<>>
  /\ toData' = Tail(toData)
  /\ Serve(Out(Store([p EXCEPT !.data = None], p.data.pos, Head(toData)),
               <<Reply("done", Len(Head(toData)))>>, <<>>))
  /\ UNCHANGED <<writer, reader, toServer, history, losses>>

(* The data does not come: its length is added to Pending.size all the     *)
(* same, and WritePos set.                                                 *)
DataTimesOut ==
  /\ ~Idle /\ toData = <<>> /\ toWriter = <<>> /\ wpc # "send"
  /\ trouble' = "garbage"
  /\ UNCHANGED <<p, writer, reader, network, given, eof, stale, losses>>

(* Two seconds without a message: the time of the requests that wait is    *)
(* reduced, and comes to its end.                                          *)
Silence ==
  /\ Idle /\ toServer = <<>> /\ toWriter = <<>> /\ toReader = <<>>
  /\ rpc \notin {"request", "ack"}

ReadReqTimesOut ==
  /\ Silence /\ p.readReq # None
  /\ Serve(Out([p EXCEPT !.readReq = None], <<>>, <<ToReader("timeout", <<>>)>>))
  /\ UNCHANGED <<writer, reader, toServer, toData, history, losses>>

WriteReqTimesOut ==
  /\ Silence /\ p.writeReq # None
  /\ Serve(Out([p EXCEPT !.writeReq = None], <<Reply("timeout", 0)>>, <<>>))
  /\ UNCHANGED <<writer, reader, toServer, toData, history, losses>>

----------------------------------------------------------------------------
(* The reader.                                                             *)
AskAgain == rpc' = "request" /\ res' = <<>> /\ seq' = 0 /\ err' = "none"

Read(n, w) ==
  /\ rpc = "idle"
  /\ want' = [size |-> n, wait |-> w]
  /\ AskAgain
  /\ UNCHANGED <<p, writer, port, network, history, losses>>

Receives(kind) ==
  /\ rpc = "data"
  /\ toReader # <<>> /\ Head(toReader).kind = kind

(* Data out of sequence: the rest of it will come to a port that is gone.  *)
ReadOutOfSequence ==
  /\ Receives("data")
  /\ Head(toReader).seq # seq
  /\ port' \in Ports \ {port}
  /\ toReader' = <<>>
  /\ err' = "sequence" /\ rpc' = "ack"
  /\ UNCHANGED <<p, writer, want, res, seq, toServer, toWriter, toData, history, losses>>

ReadData ==
  LET m == Head(toReader) IN
  /\ Receives("data")
  /\ m.seq = seq
  /\ toReader' = Tail(toReader)
  /\ res' = res \o m.bytes
  /\ seq' = seq + 1
  /\ rpc' = IF m.last THEN "ack" ELSE "data"
  /\ UNCHANGED <<p, writer, want, err, port, toServer, toWriter, toData, history, losses>>

ReadEof ==
  /\ Receives("eof")
  /\ toReader' = Tail(toReader)
  /\ err' = "eof" /\ rpc' = "ack"
  /\ UNCHANGED <<p, writer, want, res, seq, port, toServer, toWriter, toData, history, losses>>

Expires ==
  /\ \/ want.wait = "forever" /\ AskAgain
     \/ want.wait # "forever" /\ err' = "timeout" /\ rpc' = "ack" /\ UNCHANGED <<res, seq>>
  /\ UNCHANGED <<p, writer, want, port, toServer, toWriter, toData, history, losses>>

ReadTimesOut == Receives("timeout") /\ toReader' = Tail(toReader) /\ Expires

(* No data will come.                                                      *)
ReadGivesUp ==
  /\ rpc = "data" /\ toReader = <<>> /\ p.readReq = None
  /\ wpc # "send" /\ \A i \in 1 .. Len(toWriter) : toWriter[i].kind # "sizes"
  /\ Expires
  /\ UNCHANGED toReader

(* The ReadAck, and Read() returns, or asks again after an error while it  *)
(* has time.                                                               *)
Again == err = "sequence" /\ want.wait = "finite"

ReadAck ==
  LET failed == err \in {"timeout", "sequence"} IN
  /\ Idle
  /\ rpc = "ack"
  /\ \E o \in DoReadAck(p, IF failed THEN -1 ELSE Len(res)) : Serve(o)
  /\ stale' = FALSE
  /\ trouble' = IF p.ack /\ stale THEN "stale"
                ELSE IF failed /\ res # <<>> /\ ~Again THEN "repeated" ELSE trouble
  /\ \/ Again /\ AskAgain /\ UNCHANGED <<want, given, eof>>
     \/ /\ ~Again
        /\ given' = given \o res
        /\ eof' = (eof \/ err = "eof")
        /\ rpc' = "idle" /\ want' = NoWant /\ res' = <<>> /\ seq' = 0 /\ err' = "none"
  /\ UNCHANGED <<writer, port, toServer, toData, losses>>

----------------------------------------------------------------------------
(* The network between the two processors.                                 *)
Lose(kind) ==
  /\ left > 0
  /\ left' = left - 1
  /\ lost' = lost \cup {kind}
  /\ UNCHANGED <<p, writer, reader, history>>

LoseRequest ==
  /\ toServer # <<>> /\ Head(toServer).kind = "write"
  /\ toServer' = Tail(toServer)
  /\ Lose("request")
  /\ UNCHANGED <<toWriter, toReader, toData>>

LoseReply ==
  \E i \in 1 .. Len(toWriter) :
    /\ toWriter' = Remove(toWriter, i)
    /\ Lose(toWriter[i].kind)
    /\ UNCHANGED <<toServer, toReader, toData>>

(* Data the server sends to the reader is not on the network.              *)
LoseData ==
  /\ xfer.to # "none"
  /\ \/ \E i \in 1 .. Len(toReader) : /\ xfer.to \in Ports /\ toReader[i].kind = "data"
                                     /\ toReader' = Remove(toReader, i)
        /\ UNCHANGED toData
     \/ toData # <<>> /\ toData' = <<>> /\ UNCHANGED toReader
  /\ Lose("data")
  /\ UNCHANGED <<toServer, toWriter>>

----------------------------------------------------------------------------
Init ==
  /\ \E size \in BufSizes :
       p = [pend |-> <<>>, got |-> 0, max |-> size, open |-> TRUE, readReq |-> None,
            writeReq |-> None, ack |-> FALSE, ackPos |-> 0, WritePos |-> 1, data |-> None]
  /\ toServer = <<>> /\ toWriter = <<>> /\ toReader = <<>> /\ toData = <<>>
  /\ wpc = "idle" /\ told = 0 /\ goal = 0 /\ xfer = NoXfer
  /\ rpc = "idle" /\ want = NoWant /\ res = <<>> /\ seq = 0 /\ err = "none" /\ port = "port"
  /\ given = <<>> /\ eof = FALSE /\ lost = {} /\ left = MaxLost
  /\ stale = FALSE /\ trouble = "no"

Writer  == (\E n \in 1 .. MaxSize : Write(n)) \/ Close
Waiting == WriteTimesOut \/ WriteSizes \/ WriteSends \/ WriteDone \/ WriteConfirmed
Server  == ServeWrite \/ ServeClose \/ ServeRead \/ ServeData \/ DataTimesOut
           \/ ReadReqTimesOut \/ WriteReqTimesOut
Reader  == \E n \in 1 .. MaxSize, w \in Timeouts : Read(n, w)
Reading == ReadOutOfSequence \/ ReadData \/ ReadEof \/ ReadTimesOut
Network == LoseRequest \/ LoseReply \/ LoseData

Next ==
  \/ /\ trouble = "no"
     /\ \/ Writer \/ Waiting \/ WriteGivesUp \/ Server
        \/ Reader \/ Reading \/ ReadGivesUp \/ ReadAck \/ Network
  \/ trouble # "no" /\ UNCHANGED vars

Spec == Init /\ [][Next]_vars

(* The processors run, messages that are not lost arrive, time passes, and *)
(* the reader's program calls Read(), now and then without a time-out.     *)
Fairness ==
  /\ WF_vars(Waiting) /\ SF_vars(WriteGivesUp)
  /\ WF_vars(ServeWrite) /\ WF_vars(ServeClose) /\ WF_vars(ServeData) /\ WF_vars(DataTimesOut)
  /\ WF_vars(ReadReqTimesOut) /\ WF_vars(WriteReqTimesOut)
  /\ SF_vars(ServeRead) /\ SF_vars(ReadAck)
  /\ WF_vars(Reading) /\ WF_vars(ReadGivesUp)
  /\ WF_vars(Reader) /\ SF_vars(\E n \in 1 .. MaxSize : Read(n, "forever"))

FairSpec == Spec /\ Fairness

----------------------------------------------------------------------------
Bytes      == Seq(1 .. Total)
Waits      == [size : 1 .. MaxSize, wait : Timeouts]
Requests   == [size : 1 .. MaxSize, wait : Timeouts, port : Ports]
WriteReqs  == [kind : {"write", "close"}, pos : 0 .. Total, size : 0 .. MaxSize]
Deliveries == [pos : 0 .. Total, size : 1 .. MaxSize]
Places     == Ports \cup {"none", "DataPort"}
Transfers  == [size : 0 .. MaxSize, chunk : 1 .. Total, sent : 0 .. MaxSize,
               seq : 0 .. MaxSize, to : Places]
Replies    == [kind : {"done", "already", "sizes", "timeout"}, n : -1 .. MaxSize,
               first : -1 .. MaxSize, to : Places]
Answers    == [kind : {"data", "timeout", "eof"}, bytes : Bytes, seq : 0 .. MaxSize,
               last : BOOLEAN]
PipeInfo   == [pend : Bytes, got : Nat, max : BufSizes, open : BOOLEAN, ack : BOOLEAN,
               readReq : Requests \cup {None}, writeReq : WriteReqs \cup {None},
               data : Deliveries \cup {None}, ackPos : 0 .. Total, WritePos : 0 .. Total]

ASSUME NoneAssumption == None \notin Requests \cup WriteReqs \cup Deliveries

TypeOK ==
  /\ p \in PipeInfo /\ p.got <= p.max
  /\ toServer \in Seq(WriteReqs) /\ toData \in Seq(Bytes)
  /\ toWriter \in Seq(Replies) /\ toReader \in Seq(Answers)
  /\ wpc \in {"idle", "reply", "send", "confirm", "closed"}
  /\ told \in 0 .. Total /\ goal \in told .. Total /\ xfer \in Transfers
  /\ rpc \in {"idle", "request", "data", "ack"}
  /\ want \in Waits \cup {NoWant}
  /\ res \in Bytes /\ Len(res) <= want.size /\ seq \in 0 .. MaxSize
  /\ err \in {"none", "timeout", "sequence", "eof"} /\ port \in Ports
  /\ given \in Bytes /\ eof \in BOOLEAN /\ left \in 0 .. MaxLost
  /\ lost \subseteq {"request", "done", "already", "sizes", "timeout", "data"}
  /\ stale \in BOOLEAN
  /\ trouble \in {"no", "already", "stale", "garbage", "repeated", "wild"}

(* Nobody waits in vain at the server: a read waits only while there is    *)
(* nothing for it, a write only while there is no room for it, and never   *)
(* both; and room is counted right.                                        *)
NoWaitInVain ==
  /\ p.readReq # None => p.pend = <<>> /\ p.writeReq = None /\ p.open
  /\ p.writeReq # None => p.got = p.max
  /\ Len(p.pend) <= p.got /\ (p.pend = <<>> => p.got = 0)

Sound == TypeOK /\ NoWaitInVain

(* While the protocol has not gone wrong the pipe is a byte stream: bytes  *)
(* are neither lost, repeated nor reordered, whatever was lost and asked   *)
(* again, the writer is told truly how many it has written, and the reader *)
(* sees the end of file after the last byte.                               *)
State == IF trouble # "no" THEN "broken" ELSE IF eof THEN "ended"
         ELSE IF wpc = "closed" THEN "closed" ELSE "open"

Stream == INSTANCE ByteStream WITH written <- goal, pipe <- p.pend, out <- given, state <- State

IsStream == Stream!Spec

(* It goes wrong only if a message was lost, and each time only by a loss  *)
(* of the kind named: lost requests and time-out replies do no harm.       *)
OnlyByLoss ==
  /\ trouble = "already" => "done" \in lost
  /\ trouble = "repeated" => "data" \in lost
  /\ trouble = "wild" => "sizes" \in lost
  /\ trouble \in {"stale", "garbage"} => lost \cap {"sizes", "data"} # {}

(* A Write() without a time-out ends, whatever is lost, as long as the     *)
(* network loses no more and the reader's program reads.                   *)
WritesEnd == wpc \in {"reply", "send", "confirm"} ~> wpc = "idle" \/ trouble # "no"
=============================================================================
