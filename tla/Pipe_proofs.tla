-------------------------- MODULE Pipe_proofs --------------------------
(***************************************************************************)
(* A pipe, for any size of stream, buffer, request and message and any     *)
(* number of lost messages: the server's buffer is consistent, the         *)
(* protocol goes wrong only by the losses it is known to suffer from, and  *)
(* until it has gone wrong it is the byte stream of ByteStream.tla.        *)
(*                                                                         *)
(* The argument is that, until then, the writer's request is in one place  *)
(* at a time: on its way to the server, kept by the server as a request or *)
(* a delivery, on its way back as a reply, or met with a reader. Where it  *)
(* is says which bytes have got through, and which may be asked for again. *)
(***************************************************************************)
EXTENDS Pipe, SequenceTheorems, TLAPS

----------------------------------------------------------------------------
(* The inductive invariant, part by part.                                  *)

(* The bytes the pipe has taken: those the reader has and those it waits   *)
(* for.                                                                    *)
Taken  == Len(given) + Len(p.pend)

(* The writer is inside Write().                                           *)
Active == wpc \in {"reply", "send", "confirm"}

(* The server waits for the ReadAck of an exchange the writer still        *)
(* believes in.                                                            *)
Live   == p.ack /\ ~stale

(* The one request the writer may have outstanding.                        *)
TheWrite == [kind |-> "write", pos |-> told, size |-> goal - told]

(* And the one with which it ends.                                         *)
TheClose == [kind |-> "close", pos |-> 0, size |-> 0]

(* The stream is in order; the writer is told of no more than is taken.    *)
Ordered ==
  /\ given = From(0, Len(given)) /\ p.pend = From(Len(given), Len(p.pend))
  /\ told <= Taken /\ Taken <= goal

(* The server remembers the position of the last write it took from, so    *)
(* that it knows that write when it is repeated.                           *)
Placed ==
  /\ (p.WritePos = told) <=> (Taken > told)
  /\ p.WritePos > told => told = 0

(* A writer outside Write() has left nothing behind.                       *)
Resting == ~Active =>
  /\ told = goal /\ xfer = NoXfer
  /\ toWriter = <<>> /\ toData = <<>> /\ p.writeReq = None /\ p.data = None /\ ~Live
  /\ toServer = IF wpc = "closed" /\ p.open THEN <<TheClose>> ELSE <<>>

(* The pipe closes after the writer, and the reader sees its end after the *)
(* last byte.                                                              *)
Ending ==
  /\ ~p.open => wpc = "closed"
  /\ eof => ~p.open /\ Len(given) = goal

(* What a writer inside Write() asks for.                                  *)
Asking == Active =>
  /\ told < goal /\ goal - told <= MaxSize
  /\ toServer \in {<<>>, <<TheWrite>>} /\ p.writeReq \in {None, TheWrite}
  /\ wpc # "reply" => toServer = <<>> /\ p.writeReq = None
  /\ wpc = "reply" => xfer = NoXfer

(* The write is in one place only.                                         *)
OneToken ==
  /\ toServer # <<>> => p.writeReq = None /\ toWriter = <<>> /\ p.data = None /\ ~Live
  /\ p.writeReq # None => toWriter = <<>> /\ p.data = None /\ ~Live /\ Taken = told
  /\ p.data # None => ~Live /\ p.readReq = None
  /\ Len(toWriter) <= 1
  /\ toWriter # <<>> /\ Head(toWriter).kind # "sizes" => p.data = None /\ ~Live

(* What each reply to the writer says is true, and comes when the writer   *)
(* waits for it.                                                           *)
Answer(m) ==
  \/ /\ m.kind = "timeout" /\ wpc = "reply"
  \/ /\ m.kind = "already" /\ wpc = "reply" /\ m.n = goal - told /\ Taken = goal
  \/ /\ m.kind = "done" /\ m.n = Taken - told /\ m.n >= 1
     /\ wpc = "reply" \/ (wpc = "confirm" /\ m.n = xfer.sent)
  \/ /\ m.kind = "done" /\ m.n = -1 
     /\ wpc = "reply" => "sizes" \in lost
  \/ /\ m.kind = "sizes" /\ wpc = "reply"
     /\ m.n \in 1 .. goal - told /\ m.first \in 1 .. m.n
     /\ \/ m.to = "DataPort" /\ p.data # None /\ m.n = p.data.size /\ m.first = m.n
        \/ /\ m.to = port /\ Live /\ rpc = "data" /\ p.readReq = None /\ m.n <= want.size
           /\ toReader = <<>> /\ res = <<>> /\ seq = 0 

(* So it is with the reply on its way.                                     *)
Answered == toWriter # <<>> => Answer(Head(toWriter))

(* Bytes are taken that the writer does not know of only while the reply is*)
(* on its way, or when it was lost.                                        *)
Untold == Taken > told =>
  \/ "done" \in lost
  \/ toWriter # <<>> /\ Head(toWriter).kind = "done" /\ Head(toWriter).n >= 1

(* A write the server lets go to its own port.                             *)
Delivering ==
  /\ p.data = None => toData = <<>> /\ (wpc = "send" => xfer.to \in Ports)
  /\ p.data # None =>
       /\ p.data.pos = told /\ Taken = told /\ p.data.size <= goal - told
       /\ p.got + p.data.size <= p.max
       /\ wpc = "reply" => toData = <<>> /\ (toWriter = <<>> => "sizes" \in lost)
       /\ wpc = "send" => toData = <<>> /\ xfer.sent = 0 /\ xfer.seq = 0
       /\ wpc = "confirm" => /\ xfer.sent = xfer.size
                             /\ toData # <<>> => toData = <<From(told, p.data.size)>>
                             /\ toData = <<>> => "data" \in lost
       /\ wpc \in {"send", "confirm"} =>
            xfer.to = "DataPort" /\ xfer.size = p.data.size /\ xfer.chunk = xfer.size

(* An exchange the writer has given up, because a message of it was lost.  *)
Stale ==
  /\ stale => p.ack /\ lost \cap {"sizes", "data"} # {}
  /\ stale /\ p.pend = <<>> => Active /\ Taken = told
  /\ stale /\ wpc \in {"send", "confirm"} => xfer.to = "DataPort"

(* A reader outside Read() has left nothing behind.                        *)
ReaderIdle == rpc = "idle" =>
  /\ res = <<>> /\ seq = 0 /\ err = "none" /\ want = NoWant /\ toReader = <<>>
  /\ p.readReq = None /\ ~p.ack

(* A reader whose request is on its way has got nothing yet.               *)
ReaderRequest == rpc = "request" =>
  /\ res = <<>> /\ seq = 0 /\ err = "none" /\ want # NoWant /\ toReader = <<>>
       /\ p.readReq = None

(* A reader that waits for data: its request is with the server, or has    *)
(* been answered.                                                          *)
ReaderData == rpc = "data" =>
  /\ err = "none" /\ want # NoWant
  /\ p.readReq # None =>
       /\ p.readReq = [size |-> want.size, wait |-> want.wait, port |-> port]
       /\ toReader = <<>> /\ res = <<>> /\ seq = 0
  /\ res # <<>> /\ "data" \notin lost => Live /\ wpc \in {"send", "confirm"} /\ xfer.to = port
  /\ seq <= Len(res)

(* A reader about to confirm: the bytes it confirms are those that come    *)
(* next, from the writer or from the buffer.                               *)
ReaderAck == rpc = "ack" =>
  /\ toReader = <<>> /\ p.readReq = None /\ want # NoWant
  /\ err = "none" => /\ res # <<>> /\ res = From(Len(given), Len(res))
                     /\ Live => /\ Len(res) <= goal - told /\ wpc \in {"reply", "confirm"}
                                /\ wpc = "confirm" => Len(res) = xfer.sent
                     /\ ~Live => Len(res) <= Len(p.pend)
  /\ err = "eof" => res = <<>> /\ ~p.open /\ p.pend = <<>>
  /\ err = "sequence" => "data" \in lost
  /\ err = "timeout" /\ res # <<>> => "data" \in lost

(* A message of the server to the reader.                                  *)
FromServer(m) ==
  /\ Len(toReader) = 1 /\ res = <<>> /\ seq = 0
  /\ m.kind = "data" =>
       /\ m.seq = 0 /\ m.last
       /\ m.bytes = From(Len(given), Len(m.bytes)) /\ Len(m.bytes) \in 1 .. want.size
       /\ Live => wpc = "reply" /\ toWriter = <<>> /\ Len(m.bytes) <= goal - told
       /\ ~Live => Len(m.bytes) <= Len(p.pend)
  /\ m.kind = "timeout" => wpc # "send" \/ ~Live
  /\ m.kind = "eof" => ~p.open /\ p.pend = <<>>

(* The position of the first byte of a message, and that after the last.   *)
First(m) == m.bytes[1] - 1
Past(m)  == First(m) + Len(m.bytes)

(* m is one of the messages in which the writer of transfer x, begun at    *)
(* pos, sends its bytes to a reader that has got n bytes in sq messages.   *)
IsChunk(m, pos, n, sq, x) ==
  /\ m.kind = "data"
  /\ Len(m.bytes) >= 1 /\ m.bytes = From(First(m), Len(m.bytes))
  /\ pos + n <= First(m) /\ Past(m) <= pos + x.sent
  /\ sq <= m.seq /\ (sq = m.seq => First(m) = pos + n)
  /\ m.seq < x.seq /\ (m.seq + 1 = x.seq => Past(m) = pos + x.sent)
  /\ m.last <=> (Past(m) = pos + x.size)

(* One such message is sent before another.                                *)
Before(m, o) ==
  m.seq < o.seq /\ Past(m) <= First(o) /\ (m.seq + 1 = o.seq => Past(m) = First(o))

(* s is made of such messages, in the order they were sent in.             *)
Chunks(s, pos, n, sq, x) ==
  /\ \A i \in 1 .. Len(s) : IsChunk(s[i], pos, n, sq, x)
  /\ \A i, j \in 1 .. Len(s) : i < j => Before(s[i], s[j])

(* None of those after the sq-th and before the next one is missing.       *)
Unbroken(s, sq, next) == next = sq + Len(s) /\ \A i \in 1 .. Len(s) : s[i].seq = sq + i - 1

(* What is on its way to the reader comes from the writer.                 *)
FromWriter ==
  /\ Live /\ wpc \in {"send", "confirm"} /\ xfer.to = port /\ rpc = "data" /\ p.readReq = None
  /\ Chunks(toReader, told, Len(res), seq, xfer)

(* What is on its way to the reader comes from the server or from the      *)
(* writer.                                                                 *)
ToReaderOK == toReader # <<>> =>
  /\ rpc = "data" /\ p.readReq = None
  /\ FromServer(toReader[1]) \/ FromWriter

(* A writer that sends to the port of a reader.                            *)
Sending == wpc \in {"send", "confirm"} /\ xfer.to \in Ports =>
  /\ xfer.size \in 1 .. goal - told /\ xfer.sent <= xfer.size /\ xfer.seq <= xfer.sent
  /\ xfer.seq = 0 => xfer.sent = 0
  /\ (wpc = "send") <=> (xfer.sent < xfer.size)
  /\ p.pend = <<>>
  /\ wpc = "send" /\ xfer.to = port =>
       Live /\ rpc = "data" /\ p.readReq = None /\ (toReader # <<>> => FromWriter)
  /\ wpc = "send" /\ xfer.to # port /\ Live =>
       "data" \in lost /\ toReader = <<>> /\ rpc = "ack" /\ err = "sequence"
  /\ Live /\ rpc \in {"request", "data"} /\ xfer.to = port =>
       /\ xfer.size <= want.size
       /\ res = From(told, Len(res)) /\ Len(res) < xfer.size /\ Len(res) <= xfer.sent
       /\ seq <= xfer.seq /\ (seq = xfer.seq => Len(res) = xfer.sent)

(* The two sides of an exchange, and what must have been lost if one waits *)
(* in vain.                                                                *)
Exchanging == Live =>
  /\ Active /\ p.ackPos = told /\ Taken = told /\ p.pend = <<>>
  /\ wpc # "reply" => toWriter = <<>> /\ xfer.to \in Ports
  /\ wpc = "reply" /\ toWriter = <<>> =>
       \/ "sizes" \in lost
       \/ toReader # <<>> /\ toReader[1].kind = "data"
       \/ rpc = "ack" /\ err = "none"
  /\ wpc # "reply" =>
       \/ "data" \in lost
       \/ xfer.to = port /\ rpc = "ack" /\ err = "none"
       \/ /\ xfer.to = port /\ rpc = "data" /\ p.readReq = None
          /\ toReader # <<>> => FromWriter
          /\ Unbroken(toReader, seq, xfer.seq)

(* What holds until the protocol has gone wrong.                           *)
Deep ==
  /\ Ordered /\ Placed /\ Resting /\ Ending /\ Asking /\ OneToken /\ Answered /\ Untold
  /\ Delivering /\ Stale /\ ReaderIdle /\ ReaderRequest /\ ReaderData /\ ReaderAck
  /\ ToReaderOK /\ Sending /\ Exchanging

(* The inductive invariant.                                                *)
PipeInv == TypeOK /\ NoWaitInVain /\ OnlyByLoss /\ (trouble = "no" => Deep)

(* What is shown of every action.                                          *)
Correct ==
  /\ TypeOK' /\ NoWaitInVain' /\ OnlyByLoss'
  /\ trouble' = "no" => Deep'
  /\ Stream!Next \/ UNCHANGED Stream!vars

----------------------------------------------------------------------------
(* Bytes of the stream, and messages one by one.                           *)

(* A run of bytes of the stream: its length and its members.               *)
LEMMA FromType ==
  ASSUME NEW a \in Int, NEW n \in Nat
  PROVE  /\ From(a, n) \in Seq(Int) /\ Len(From(a, n)) = n
         /\ \A i \in 1 .. n : From(a, n)[i] = a + i
BY DEF From

(* It is within the stream.                                                *)
LEMMA FromBytes ==
  ASSUME NEW a \in Nat, NEW n \in Nat, a + n <= Total
  PROVE  From(a, n) \in Bytes
<1>1. \A i \in 1 .. n : a + i \in 1 .. Total
  BY SizeAssumption
<1> QED
  BY <1>1 DEF From, Bytes

(* Two adjacent runs make one.                                             *)
LEMMA FromConcat ==
  ASSUME NEW a \in Nat, NEW m \in Nat, NEW n \in Nat
  PROVE  From(a, m) \o From(a + m, n) = From(a, m + n)
<1> DEFINE s == From(a, m) t == From(a + m, n)
<1>1. s \in Seq(Int) /\ Len(s) = m /\ t \in Seq(Int) /\ Len(t) = n
  BY FromType, a + m \in Int
<1>2. s \o t \in Seq(Int) /\ Len(s \o t) = m + n
  BY <1>1, ConcatProperties
<1>3. ASSUME NEW i \in 1 .. m + n
      PROVE  (s \o t)[i] = From(a, m + n)[i]
  <2>1. (s \o t)[i] = IF i <= m THEN s[i] ELSE t[i - m]
    BY <1>1, ConcatProperties
  <2> QED
    BY <2>1 DEF From
<1>4. From(a, m + n) \in Seq(Int) /\ Len(From(a, m + n)) = m + n
  BY FromType, m + n \in Nat
<1> QED
  BY <1>2, <1>3, <1>4, SeqEqual

(* A run is cut in two.                                                    *)
LEMMA FromSub ==
  ASSUME NEW a \in Nat, NEW m \in Nat, NEW n \in 0 .. m
  PROVE  /\ SubSeq(From(a, m), 1, n) = From(a, n)
         /\ SubSeq(From(a, m), n + 1, m) = From(a + n, m - n)
BY DEF From

(* The empty run.                                                          *)
LEMMA FromEmpty ==
  ASSUME NEW a \in Nat
  PROVE  From(a, 0) = <<>>
BY FromType, a \in Int, EmptySeq

(* A queue of one message.                                                 *)
LEMMA OneMessage ==
  ASSUME NEW S, NEW s \in Seq(S), s # <<>>, Len(s) <= 1
  PROVE  Tail(s) = <<>> /\ s = <<Head(s)>> /\ Head(s) \in S
<1>1. Len(s) = 1
  <2>1. Len(s) \in Nat \ {0}
    BY EmptySeq
  <2> QED
    BY <2>1
<1>2. Tail(s) = <<>>
  <2>1. Tail(s) \in Seq(S) /\ Len(Tail(s)) = 0
    BY <1>1
  <2> QED
    BY <2>1, EmptySeq
<1>3. Head(s) \in S /\ Head(s) = s[1]
  BY <1>1
<1>4. s = <<Head(s)>>
  BY <1>1, <1>3, SeqEqual, <<s[1]>> \in Seq(S), Len(<<s[1]>>) = 1
<1> QED
  BY <1>2, <1>3, <1>4

(* The numbers that the invariant is about.                                *)
NumWriter == told \in Nat /\ goal \in Nat
NumStream == Len(given) \in Nat /\ Len(p.pend) \in Nat /\ p.WritePos \in Nat
NumBuffer == p.got \in Nat /\ p.max \in Nat
NumXfer   == /\ xfer.size \in Nat /\ xfer.chunk \in Nat /\ xfer.sent \in Nat /\ xfer.seq \in Nat
             /\ xfer.chunk >= 1
NumReader == Len(res) \in Nat /\ seq \in Nat /\ want.size \in Nat /\ Len(toReader) \in Nat
NumPort   == port \in Ports /\ port # "none" /\ port # "DataPort"
NumFlags  == stale \in BOOLEAN /\ eof \in BOOLEAN /\ p.ack \in BOOLEAN /\ p.open \in BOOLEAN
Numbers   == /\ NumWriter /\ NumStream /\ NumBuffer /\ NumXfer /\ NumReader /\ NumPort
  /\ NumFlags
             /\ Len(toWriter) \in Nat

(* The numbers are numbers.                                                *)
LEMMA NumbersAre == ASSUME TypeOK PROVE Numbers
<1> USE SizeAssumption
<1>1. p \in PipeInfo /\ xfer \in Transfers
  BY DEF TypeOK
<1>2. want.size \in Nat
  BY DEF TypeOK, Waits, NoWant
<1>3. Len(res) \in Nat /\ Len(given) \in Nat /\ Len(toReader) \in Nat /\ Len(toWriter) \in Nat
  BY DEF TypeOK, Bytes
<1>4. Len(p.pend) \in Nat /\ p.got \in Nat /\ p.max \in Nat /\ p.WritePos \in Nat
        /\ p.ackPos \in Nat
  <2>1. /\ p.pend \in Seq(1 .. Total) /\ p.got \in Nat /\ p.max \in BufSizes
        /\ p.ackPos \in 0 .. Total /\ p.WritePos \in 0 .. Total
    BY <1>1 DEF PipeInfo, Bytes
  <2>2. Len(p.pend) \in Nat
    BY <2>1
  <2>3. p.max \in Nat
    BY <2>1
  <2> QED
    BY <2>1, <2>2, <2>3
<1>5. /\ xfer.size \in Nat /\ xfer.chunk \in Nat /\ xfer.sent \in Nat /\ xfer.seq \in Nat
      /\ xfer.chunk >= 1
  BY <1>1 DEF Transfers
<1>6. told \in Nat /\ goal \in Nat /\ seq \in Nat
  BY DEF TypeOK
<1>7. port \in Ports /\ port # "none" /\ port # "DataPort"
  BY DEF TypeOK, Ports
<1>8. stale \in BOOLEAN /\ eof \in BOOLEAN /\ p.ack \in BOOLEAN /\ p.open \in BOOLEAN
  BY <1>1, Zenon DEF TypeOK, PipeInfo
<1> QED
  BY <1>2, <1>3, <1>4, <1>5, <1>6, <1>7, <1>8
   DEF Numbers, NumWriter, NumStream, NumBuffer, NumXfer, NumReader, NumPort, NumFlags

(* The writer's transfer after its next message.                           *)
Advanced(y, x, k) == y = [x EXCEPT !.sent = @ + k, !.seq = @ + 1]

(* A transfer after one message more.                                      *)
LEMMA NextChunk ==
  ASSUME NEW x \in Transfers, NEW k \in Nat, x.sent + k <= MaxSize, x.seq + 1 <= MaxSize,
         NEW y, Advanced(y, x, k)
  PROVE  /\ y \in Transfers /\ y.to = x.to /\ y.size = x.size /\ y.chunk = x.chunk
         /\ y.sent = x.sent + k /\ y.seq = x.seq + 1
<1>1. /\ y.to = x.to /\ y.size = x.size /\ y.chunk = x.chunk
         /\ y.sent = x.sent + k /\ y.seq = x.seq + 1
  BY DEF Transfers, Advanced
<1>2. x.sent \in Nat /\ x.seq \in Nat
  BY DEF Transfers
<1>3. x.sent + k \in 0 .. MaxSize /\ x.seq + 1 \in 0 .. MaxSize
  BY <1>2, SizeAssumption
<1>4. y \in Transfers
  BY <1>3 DEF Transfers, Advanced
<1> QED
  BY <1>1, <1>4

(* Three numbers are added.                                                *)
LEMMA Regroup ==
  \A a, b, c \in Int : (a + b) + c = a + (b + c)
OBVIOUS

(* What is said of the writer's messages on their way to the reader.       *)
LEMMA ChunkNumbers ==
  ASSUME NEW m \in Answers, Len(m.bytes) >= 1
  PROVE  m.seq \in Nat /\ Len(m.bytes) \in Nat /\ First(m) \in Int /\ Past(m) \in Int
<1>1. m.seq \in Nat /\ m.bytes \in Seq(1 .. Total)
  BY SizeAssumption DEF Answers, Bytes
<1>2. Len(m.bytes) \in Nat
  BY <1>1
<1>3. 1 \in 1 .. Len(m.bytes)
  BY <1>2
<1>4. m.bytes[1] \in 1 .. Total
  BY <1>1, <1>3, ElementOfSeq
<1>5. m.bytes[1] \in Int
  BY <1>4, SizeAssumption
<1> QED
  BY <1>1, <1>2, <1>5 DEF First, Past

(* The numbers of a transfer.                                              *)
XferNumbers(x) == x.seq \in Nat /\ x.sent \in Nat /\ x.size \in Nat

(* The writer sends its next message.                                      *)
LEMMA ChunksAppend ==
  ASSUME NEW s \in Seq(Answers), NEW pos \in Nat, NEW n \in Nat, NEW sq \in Nat, NEW x, NEW y,
         XferNumbers(x), XferNumbers(y), Chunks(s, pos, n, sq, x),
         y.seq = x.seq + 1, y.sent >= x.sent, y.size = x.size,
         NEW m \in Answers, IsChunk(m, pos, n, sq, y), m.seq = x.seq, First(m) = pos + x.sent
  PROVE  Chunks(Append(s, m), pos, n, sq, y)
<1> DEFINE t == Append(s, m)
<1>1. /\ Len(t) = Len(s) + 1 /\ t[Len(s) + 1] = m /\ Len(s) \in Nat
      /\ \A i \in 1 .. Len(s) : t[i] = s[i] /\ s[i] \in Answers
  BY ElementOfSeq
<1> HIDE DEF t
<1>2. ASSUME NEW o \in Answers, IsChunk(o, pos, n, sq, x)
      PROVE  IsChunk(o, pos, n, sq, y) /\ Before(o, m)
  <2>1. o.seq \in Nat /\ Len(o.bytes) \in Nat /\ First(o) \in Int /\ Past(o) \in Int
    BY <1>2, ChunkNumbers DEF IsChunk
  <2>2. /\ Past(o) <= pos + x.sent /\ o.seq < x.seq
        /\ (o.seq + 1 = x.seq => Past(o) = pos + x.sent)
    BY <1>2 DEF IsChunk
  <2>a. Past(o) <= First(m) /\ o.seq < m.seq /\ (o.seq + 1 = m.seq => Past(o) = First(m))
    BY <2>2, Zenon
  <2>b. o.seq < y.seq /\ o.seq + 1 # y.seq
    BY <2>1, <2>2 DEF XferNumbers
  <2>c. Past(o) <= pos + y.sent
    BY <2>1, <2>2, SMTT(30) DEF XferNumbers
  <2>3. /\ Past(o) <= pos + y.sent /\ o.seq < y.seq /\ o.seq + 1 # y.seq
        /\ Past(o) <= First(m) /\ o.seq < m.seq /\ (o.seq + 1 = m.seq => Past(o) = First(m))
    BY <2>a, <2>b, <2>c
  <2>4. IsChunk(o, pos, n, sq, y)
    BY <2>3, <1>2, Zenon DEF IsChunk
  <2> QED
    BY <2>3, <2>4 DEF Before
<1>3. ASSUME NEW i \in 1 .. Len(t) PROVE IsChunk(t[i], pos, n, sq, y)
  <2>1. CASE i = Len(s) + 1
    BY <2>1, <1>1
  <2>2. CASE i \in 1 .. Len(s)
    BY <2>2, <1>1, <1>2 DEF Chunks
  <2> QED
    BY <1>1, <2>1, <2>2
<1>4. ASSUME NEW i \in 1 .. Len(t), NEW j \in 1 .. Len(t), i < j PROVE Before(t[i], t[j])
  <2>0. i \in 1 .. Len(s)
    BY <1>1, <1>4
  <2>1. CASE j = Len(s) + 1
    BY <2>0, <2>1, <1>1, <1>2 DEF Chunks
  <2>2. CASE j \in 1 .. Len(s)
    BY <2>0, <2>2, <1>1, <1>4 DEF Chunks
  <2> QED
    BY <1>1, <2>1, <2>2
<1> QED
  BY <1>3, <1>4 DEF Chunks, t

(* The reader takes the message that is due.                               *)
LEMMA ChunksTail ==
  ASSUME NEW s \in Seq(Answers), NEW pos \in Nat, NEW n \in Nat, NEW sq \in Nat, NEW x,
         XferNumbers(x), Chunks(s, pos, n, sq, x), s # <<>>, Head(s).seq = sq
  PROVE  Chunks(Tail(s), pos, n + Len(Head(s).bytes), sq + 1, x)
<1> DEFINE t == Tail(s) m == s[1] k == n + Len(m.bytes)
<1>1. /\ Head(s) = m /\ m \in Answers /\ Len(s) \in Nat /\ Len(s) >= 1 /\ Len(t) = Len(s) - 1
      /\ \A i \in 1 .. Len(t) : t[i] = s[i + 1]
      /\ \A i \in 1 .. Len(s) : s[i] \in Answers
  BY ElementOfSeq
<1>2. IsChunk(m, pos, n, sq, x)
  BY <1>1 DEF Chunks
<1>3. /\ m.seq \in Nat /\ Len(m.bytes) \in Nat /\ First(m) \in Int /\ Past(m) \in Int
  BY <1>1, <1>2, ChunkNumbers DEF IsChunk
<1> HIDE DEF t, m
<1>4. m.seq = sq /\ First(m) = pos + n /\ Past(m) = pos + k
  <2>1. m.seq = sq
    BY <1>1
  <2>2. First(m) = pos + n
    BY <1>2, <2>1 DEF IsChunk
  <2>3. Past(m) = First(m) + Len(m.bytes)
    BY DEF Past
  <2>4. Past(m) = (pos + n) + Len(m.bytes)
    BY <2>2, <2>3
  <2>5. Past(m) = pos + k
    <3>1. pos \in Int /\ n \in Int /\ Len(m.bytes) \in Int
      BY <1>3
    <3> QED
      BY <3>1, <2>4, Regroup, Zenon
  <2> QED
    BY <2>1, <2>2, <2>5
<1>5. ASSUME NEW o \in Answers, IsChunk(o, pos, n, sq, x), Before(m, o)
      PROVE  IsChunk(o, pos, k, sq + 1, x)
  <2>1. o.seq \in Nat /\ Len(o.bytes) \in Nat /\ First(o) \in Int /\ Past(o) \in Int
    BY <1>5, ChunkNumbers DEF IsChunk
  <2> QED
    BY <2>1, <1>3, <1>4, <1>5 DEF IsChunk, Before
<1>6. ASSUME NEW i \in 1 .. Len(t) PROVE IsChunk(t[i], pos, k, sq + 1, x)
  <2>1. i + 1 \in 1 .. Len(s) /\ 1 \in 1 .. Len(s) /\ 1 < i + 1
    BY <1>1
  <2>2. Before(s[1], s[i + 1]) /\ IsChunk(s[i + 1], pos, n, sq, x)
    BY <2>1 DEF Chunks
  <2> QED
    BY <2>1, <2>2, <1>1, <1>5 DEF m
<1>7. ASSUME NEW i \in 1 .. Len(t), NEW j \in 1 .. Len(t), i < j PROVE Before(t[i], t[j])
  <2>1. i + 1 \in 1 .. Len(s) /\ j + 1 \in 1 .. Len(s) /\ i + 1 < j + 1
    BY <1>1, <1>7
  <2>2. Before(s[i + 1], s[j + 1])
    BY <2>1 DEF Chunks
  <2> QED
    BY <2>2, <1>1
<1> QED
  BY <1>1, <1>6, <1>7 DEF Chunks, t

(* Nothing comes after the message marked as the last.                     *)
LEMMA LastChunk ==
  ASSUME NEW s \in Seq(Answers), NEW pos \in Nat, NEW n \in Nat, NEW sq \in Nat, NEW x,
         XferNumbers(x), x.sent <= x.size, Chunks(s, pos, n, sq, x), s # <<>>, Head(s).last
  PROVE  Tail(s) = <<>> /\ x.sent = x.size
<1>1. /\ Head(s) = s[1] /\ s[1] \in Answers /\ Len(s) \in Nat /\ Len(s) >= 1
      /\ Tail(s) \in Seq(Answers) /\ Len(Tail(s)) = Len(s) - 1
      /\ \A i \in 1 .. Len(s) : s[i] \in Answers
  BY ElementOfSeq
<1>2. IsChunk(s[1], pos, n, sq, x)
  BY <1>1 DEF Chunks
<1>3. Past(s[1]) = pos + x.size /\ x.sent = x.size
  BY <1>1, <1>2 DEF IsChunk, XferNumbers
<1>4. ASSUME Len(s) >= 2 PROVE FALSE
  <2>1. Before(s[1], s[2]) /\ IsChunk(s[2], pos, n, sq, x) /\ s[2] \in Answers
    BY <1>1, <1>4 DEF Chunks
  <2>2. Len(s[2].bytes) \in Nat /\ First(s[2]) \in Int
    BY <2>1, ChunkNumbers DEF IsChunk
  <2>3. Past(s[2]) > First(s[2])
    BY <2>1, <2>2 DEF IsChunk, Past
  <2>4. Past(s[1]) <= First(s[2]) /\ Past(s[2]) <= pos + x.sent
    BY <2>1 DEF IsChunk, Before
  <2>5. Past(s[2]) \in Int
    BY <2>2 DEF Past
  <2> QED
    BY <2>2, <2>3, <2>4, <2>5, <1>3 DEF XferNumbers
<1>5. Len(Tail(s)) = 0
  BY <1>1, <1>4
<1> QED
  BY <1>1, <1>3, <1>5, EmptySeq

(* A sequence without its k-th member.                                     *)
LEMMA RemoveIs ==
  ASSUME NEW S, NEW s \in Seq(S), NEW k \in 1 .. Len(s)
  PROVE  /\ Remove(s, k) \in Seq(S) /\ Len(Remove(s, k)) = Len(s) - 1
         /\ \A i \in 1 .. Len(s) - 1 : Remove(s, k)[i] = IF i < k THEN s[i] ELSE s[i + 1]
<1> DEFINE a == SubSeq(s, 1, k - 1) b == SubSeq(s, k + 1, Len(s))
<1>1. /\ a \in Seq(S) /\ Len(a) = k - 1
      /\ \A i \in 1 .. k - 1 : a[i] = s[i]
  OBVIOUS
<1>2. /\ b \in Seq(S) /\ Len(b) = Len(s) - k
      /\ \A i \in 1 .. Len(s) - k : b[i] = s[k + i]
  OBVIOUS
<1>3. Len(s) \in Nat /\ Remove(s, k) = a \o b
  BY DEF Remove
<1> HIDE DEF a, b
<1>4. /\ a \o b \in Seq(S) /\ Len(a \o b) = Len(a) + Len(b)
      /\ \A i \in 1 .. Len(a) + Len(b) : (a \o b)[i] = IF i <= Len(a) THEN a[i] ELSE b[i - Len(a)]
  BY <1>1, <1>2, ConcatProperties
<1>5. ASSUME NEW i \in 1 .. Len(s) - 1
      PROVE  (a \o b)[i] = IF i < k THEN s[i] ELSE s[i + 1]
  <2>1. CASE i < k
    BY <2>1, <1>1, <1>2, <1>3, <1>4
  <2>2. CASE ~(i < k)
    <3>1. i - (k - 1) \in 1 .. Len(s) - k /\ k + (i - (k - 1)) = i + 1
      BY <2>2, <1>3
    <3>2. b[i - (k - 1)] = s[i + 1]
      BY <3>1, <1>2
    <3> QED
      BY <2>2, <3>2, <1>1, <1>2, <1>3, <1>4
  <2> QED
    BY <2>1, <2>2, <1>3
<1> QED
  BY <1>1, <1>2, <1>3, <1>4, <1>5

(* A message is lost: those left are still in order.                       *)
LEMMA ChunksRemove ==
  ASSUME NEW s \in Seq(Answers), NEW k \in 1 .. Len(s), NEW pos, NEW n, NEW sq, NEW x,
         Chunks(s, pos, n, sq, x)
  PROVE  Chunks(Remove(s, k), pos, n, sq, x)
<1> DEFINE t == Remove(s, k) At(i) == IF i < k THEN i ELSE i + 1
<1>1. Len(t) = Len(s) - 1 /\ \A i \in 1 .. Len(s) - 1 : t[i] = IF i < k THEN s[i] ELSE s[i + 1]
  BY RemoveIs
<1>2. Len(s) \in Nat
  OBVIOUS
<1> HIDE DEF t
<1>3. ASSUME NEW i \in 1 .. Len(t) PROVE At(i) \in 1 .. Len(s) /\ t[i] = s[At(i)]
  BY <1>1, <1>2
<1>4. ASSUME NEW i \in 1 .. Len(t), NEW j \in 1 .. Len(t), i < j PROVE At(i) < At(j)
  BY <1>1, <1>2, <1>4
<1> HIDE DEF At
<1>5. ASSUME NEW i \in 1 .. Len(t) PROVE IsChunk(t[i], pos, n, sq, x)
  BY <1>3 DEF Chunks
<1>6. ASSUME NEW i \in 1 .. Len(t), NEW j \in 1 .. Len(t), i < j PROVE Before(t[i], t[j])
  BY <1>3, <1>4, <1>6 DEF Chunks
<1> QED
  BY <1>5, <1>6 DEF Chunks, t

(* Nothing is missing when the next message is sent.                       *)
LEMMA UnbrokenAppend ==
  ASSUME NEW s \in Seq(Answers), NEW sq \in Nat, NEW next \in Nat, NEW m \in Answers,
         Unbroken(s, sq, next), m.seq = next
  PROVE  Unbroken(Append(s, m), sq, next + 1)
<1> DEFINE t == Append(s, m)
<1>1. /\ Len(t) = Len(s) + 1 /\ t[Len(s) + 1] = m /\ Len(s) \in Nat
      /\ \A i \in 1 .. Len(s) : t[i] = s[i]
  OBVIOUS
<1> HIDE DEF t
<1>2. ASSUME NEW i \in 1 .. Len(t) PROVE t[i].seq = sq + i - 1
  <2>1. CASE i = Len(s) + 1
    BY <2>1, <1>1 DEF Unbroken
  <2>2. CASE i \in 1 .. Len(s)
    BY <2>2, <1>1 DEF Unbroken
  <2> QED
    BY <1>1, <2>1, <2>2
<1> QED
  BY <1>1, <1>2 DEF Unbroken, t

(* Nor when the first is received.                                         *)
LEMMA UnbrokenTail ==
  ASSUME NEW s \in Seq(Answers), NEW sq \in Nat, NEW next, Unbroken(s, sq, next), s # <<>>
  PROVE  Unbroken(Tail(s), sq + 1, next)
<1> DEFINE t == Tail(s)
<1>1. /\ Len(s) \in Nat /\ Len(s) >= 1 /\ Len(t) = Len(s) - 1
      /\ \A i \in 1 .. Len(t) : t[i] = s[i + 1]
  OBVIOUS
<1> HIDE DEF t
<1>2. ASSUME NEW i \in 1 .. Len(t) PROVE t[i].seq = (sq + 1) + i - 1
  <2>1. i + 1 \in 1 .. Len(s) /\ s[i + 1].seq = sq + (i + 1) - 1
    BY <1>1 DEF Unbroken
  <2> QED
    BY <2>1, <1>1
<1>3. next = (sq + 1) + Len(t)
  BY <1>1 DEF Unbroken
<1> QED
  BY <1>2, <1>3 DEF Unbroken, t

(* There is at most one reply, and it says the truth.                      *)
LEMMA OneReply ==
  ASSUME PipeInv, trouble = "no", toWriter # <<>>
  PROVE  /\ Tail(toWriter) = <<>> /\ toWriter = <<Head(toWriter)>>
         /\ Head(toWriter) \in Replies /\ Answer(Head(toWriter))
         /\ toServer = <<>> /\ p.writeReq = None /\ Active
<1>1. TypeOK /\ Deep
  BY DEF PipeInv
<1>2. toWriter \in Seq(Replies) /\ Len(toWriter) <= 1
  BY <1>1 DEF Deep, OneToken, TypeOK
<1>3. Tail(toWriter) = <<>> /\ toWriter = <<Head(toWriter)>> /\ Head(toWriter) \in Replies
  BY <1>2, OneMessage
<1>4. Answer(Head(toWriter)) /\ toServer = <<>> /\ p.writeReq = None /\ Active
  BY <1>1 DEF Deep, OneToken, Answered, Resting
<1> QED
  BY <1>3, <1>4

(* The writer's requests.                                                  *)
LEMMA RequestType ==
  ASSUME NEW a \in Nat, NEW b \in Nat, a <= b, b <= Total, b - a <= MaxSize
  PROVE  [kind |-> "write", pos |-> a, size |-> b - a] \in WriteReqs
<1>1. a \in 0 .. Total /\ b - a \in 0 .. MaxSize
  BY SizeAssumption
<1> QED
  BY <1>1 DEF WriteReqs

----------------------------------------------------------------------------
(* The steps of the byte stream.                                           *)

(* The steps of the byte stream.                                           *)
LEMMA StreamBreaks ==
  ASSUME trouble = "no", trouble' # "no"
  PROVE  Stream!Next
<1>1. State # "broken" /\ State' = "broken"
  BY DEF State
<1> QED
  BY <1>1 DEF Stream!Next, Stream!Break

(* The writer is told of more bytes that are taken.                        *)
LEMMA StreamTells ==
  ASSUME TypeOK, told' > told, told' <= Taken, told' \in Nat, UNCHANGED <<goal, p, given>>,
           State' = State
  PROVE  Stream!Next
<1>1. told \in Nat /\ Len(given) + Len(p.pend) \in Nat
  BY NumbersAre DEF Numbers, NumWriter, NumStream
<1>2. told' \in told + 1 .. Len(given) + Len(p.pend)
  BY <1>1 DEF Taken
<1> QED
  BY <1>2 DEF Stream!Next, Stream!Tell, Stream!Taken

(* Some bytes go in and some come out.                                     *)
Moves(g, k, put, get, l) ==
  LET all == From(g, k) \o From(g + k, put) IN
  /\ Len(all) = get + l
  /\ From(0, g + get) = From(0, g) \o SubSeq(all, 1, get)
  /\ From(g + get, l) = SubSeq(all, get + 1, get + l)

(* Bytes that come in at one end and go out at the other are in order.     *)
LEMMA CarryIs ==
  \A g, k, put, get, l \in Nat : get + l = k + put => Moves(g, k, put, get, l)
<1> SUFFICES ASSUME NEW g \in Nat, NEW k \in Nat, NEW put \in Nat, NEW get \in Nat,
  NEW l \in Nat,
                    get + l = k + put
             PROVE  Moves(g, k, put, get, l)
  OBVIOUS
<1>1. k + put \in Nat /\ g \in Int /\ 0 \in Nat /\ 0 + g = g /\ get \in 0 .. k + put
  OBVIOUS
<1>2. From(g, k) \o From(g + k, put) = From(g, k + put)
  BY FromConcat, ZenonT(60)
<1>3. Len(From(g, k + put)) = k + put
  BY <1>1, FromType
<1>4. /\ SubSeq(From(g, k + put), 1, get) = From(g, get)
      /\ SubSeq(From(g, k + put), get + 1, k + put) = From(g + get, (k + put) - get)
  BY <1>1, FromSub
<1>5. From(0, g) \o From(0 + g, get) = From(0, g + get)
  BY <1>1, FromConcat, ZenonT(60)
<1>6. (k + put) - get = l
  OBVIOUS
<1> QED
  BY <1>1, <1>2, <1>3, <1>4, <1>5, <1>6, Zenon DEF Moves

(* The pipe takes bytes or the reader gets some, or neither.               *)
LEMMA StreamCarries ==
  ASSUME TypeOK, Ordered, TypeOK', Ordered', Len(given) <= Len(given'), Taken <= Taken',
         told' = told, goal' = goal, State' = State
  PROVE  Stream!Next \/ UNCHANGED Stream!vars
<1>1. Len(given) \in Nat /\ Len(p.pend) \in Nat /\ goal \in Nat
  BY NumbersAre DEF Numbers, NumWriter, NumStream
<1>2. Len(given') \in Nat /\ Len(p'.pend) \in Nat
  <2>1. given' \in Seq(1 .. Total) /\ p'.pend \in Seq(1 .. Total)
    BY DEF TypeOK, Bytes, PipeInfo
  <2> QED
    BY <2>1
<1>3. /\ given = From(0, Len(given)) /\ p.pend = From(Len(given), Len(p.pend))
      /\ given' = From(0, Len(given')) /\ p'.pend = From(Len(given'), Len(p'.pend))
      /\ Len(given) + Len(p.pend) <= Len(given') + Len(p'.pend)
      /\ Len(given') + Len(p'.pend) <= goal
  BY DEF Ordered, Taken
<1>4. PICK g, k, h, l : g = Len(given) /\ k = Len(p.pend) /\ h = Len(given') /\ l = Len(p'.pend)
  OBVIOUS
<1>5. PICK put, get : put = (h + l) - (g + k) /\ get = h - g
  OBVIOUS
<1>6. /\ g \in Nat /\ h \in Nat /\ k \in Nat /\ l \in Nat
      /\ g <= h /\ g + k <= h + l /\ h + l <= goal
  BY <1>1, <1>2, <1>3, <1>4
<1>7. PICK all : all = p.pend \o From(g + k, put)
  OBVIOUS
<1>8. given' = given \o SubSeq(all, 1, get) /\ p'.pend = SubSeq(all, get + 1, Len(all))
  <2>1. put \in Nat /\ get \in Nat /\ g + get = h /\ get + l = k + put
    BY <1>5, <1>6
  <2>2. Moves(g, k, put, get, l)
    BY <1>6, <2>1, CarryIs
  <2>3. all = From(g, k) \o From(g + k, put)
    BY <1>3, <1>4, <1>7, Zenon
  <2>4. given' = From(0, g + get) /\ given = From(0, g) /\ p'.pend = From(g + get, l)
    BY <1>3, <1>4, <2>1, Zenon
  <2> QED
    BY <2>2, <2>3, <2>4, Zenon DEF Moves
<1>9. put \in 0 .. goal - (g + k) /\ get \in 0 .. k + put
  BY <1>1, <1>5, <1>6
<1>10. CASE put + get = 0
  <2>1. h = g /\ l = k
    BY <1>5, <1>6, <1>9, <1>10
  <2> QED
    BY <2>1, <1>3, <1>4 DEF Stream!vars
<1>11. CASE put + get > 0
  <2>1. Stream!Taken = g + k
    BY <1>4 DEF Stream!Taken
  <2>2. all = p.pend \o Stream!From(Stream!Taken, put)
    BY <1>7, <2>1 DEF Stream!From, From
  <2>3. Stream!Carry(put, get)
    BY <1>8, <1>11, <2>2 DEF Stream!Carry
  <2> QED
    BY <2>1, <2>3, <1>4, <1>9 DEF Stream!Next
<1> QED
  BY <1>6, <1>9, <1>10, <1>11

(* Nothing is sent.                                                        *)
LEMMA NothingJoined ==
  ASSUME NEW S, NEW s \in Seq(S)
  PROVE  s \o <<>> = s /\ <<>> \o s = s
OBVIOUS

(* Bytes are added to the buffer.                                          *)
LEMMA Joined ==
  ASSUME NEW a \in Bytes, NEW b \in Bytes
  PROVE  /\ a \o b \in Bytes /\ Len(a \o b) = Len(a) + Len(b)
         /\ b # <<>> => a \o b # <<>>
<1>1. a \in Seq(1 .. Total) /\ b \in Seq(1 .. Total)
  BY DEF Bytes
<1>2. a \o b \in Seq(1 .. Total) /\ Len(a \o b) = Len(a) + Len(b)
  BY <1>1, ConcatProperties
<1>3. Len(a) \in Nat /\ Len(b) \in Nat /\ (b # <<>> => Len(b) # 0)
  BY <1>1, EmptySeq
<1>4. ASSUME b # <<>>, a \o b = <<>> PROVE FALSE
  <2>1. Len(a \o b) = 0
    BY <1>4
  <2> QED
    BY <1>2, <1>3, <1>4, <2>1
<1> QED
  BY <1>2, <1>4 DEF Bytes

(* The first message to the reader.                                        *)
LEMMA HeadOfReader ==
  ASSUME TypeOK, toReader # <<>>
  PROVE  /\ Head(toReader) = toReader[1] /\ toReader[1] \in Answers /\ 1 \in 1 .. Len(toReader)
         /\ Tail(toReader) \in Seq(Answers) /\ (Len(toReader) = 1 => Tail(toReader) = <<>>)
<1>1. toReader \in Seq(Answers)
  BY DEF TypeOK
<1>2. Len(toReader) \in Nat /\ Len(toReader) >= 1
  BY <1>1, EmptySeq
<1>3. 1 \in 1 .. Len(toReader) /\ Head(toReader) = toReader[1]
        /\ Tail(toReader) \in Seq(Answers)
  BY <1>1, <1>2
<1>4. toReader[1] \in Answers
  BY <1>1, <1>3, ElementOfSeq
<1>5. ASSUME Len(toReader) = 1 PROVE Tail(toReader) = <<>>
  <2>1. Len(toReader) <= 1
    BY <1>5
  <2> QED
    BY <1>1, <2>1, OneMessage
<1> QED
  BY <1>3, <1>4, <1>5

(* There is one number up to one.                                          *)
LEMMA OnlyOne ==
  \A n \in Nat : \A i \in 1 .. n : n <= 1 => i = 1 /\ n = 1
OBVIOUS

(* A sum does not change when its terms move.                              *)
LEMMA Shifted ==
  \A a, b, k \in Int : (a + k) + (b - k) = a + b
OBVIOUS

----------------------------------------------------------------------------
(* What the server's procedures leave behind.                              *)

(* The server's answers, field by field.                                   *)
LEMMA TfrsAre ==
  ASSUME NEW n \in Nat, n >= 1, NEW k \in Tfrs(n)
  PROVE  k \in 1 .. n
BY SizeAssumption DEF Tfrs, Least

(* The fields of an outcome.                                               *)
LEMMA OutIs ==
  ASSUME NEW x, NEW w, NEW r
  PROVE  Out(x, w, r).p = x /\ Out(x, w, r).w = w /\ Out(x, w, r).r = r
BY DEF Out

(* What becomes of a write that meets no reader.                           *)
Repeats(q, m, x, w) ==
  q.WritePos = m.pos /\ x = [q EXCEPT !.writeReq = None] /\ w = <<Reply("already", m.size)>>
Holds(q, m, x, w) ==
  q.WritePos # m.pos /\ q.got = q.max /\ x = [q EXCEPT !.writeReq = m] /\ w = <<>>
Stores(q, m, x, w) ==
  /\ q.WritePos # m.pos
  /\ \E n \in 1 .. m.size : /\ q.got + n <= q.max /\ w = <<Reply("done", n)>>
                            /\ x = Store([q EXCEPT !.writeReq = None], m.pos, From(m.pos, n))
Awaits(q, m, x, w) ==
  /\ q.WritePos # m.pos
  /\ \E n \in 1 .. m.size : /\ q.got + n <= q.max /\ w = <<Sizes(n, n, "DataPort")>>
                            /\ x = [q EXCEPT !.writeReq = None, !.data = [pos |-> m.pos, size |-> n]]
Unread(q, m, x, w) == Repeats(q, m, x, w) \/ Holds(q, m, x, w)
  \/ Stores(q, m, x, w) \/ Awaits(q, m, x, w)

(* DoPipeWrite() with no reader repeats, holds, stores or awaits.          *)
LEMMA UnreadIs ==
  ASSUME NEW q \in PipeInfo, q.got <= q.max, q.readReq = None,
         NEW m \in WriteReqs, m.size >= 1, NEW o \in DoPipeWrite(q, m)
  PROVE  \E x, w : o = Out(x, w, <<>>) /\ Unread(q, m, x, w)
<1>1. q.got \in Nat /\ q.max \in Nat /\ m.size \in Nat
  <2>1. q.got \in Nat /\ q.max \in BufSizes /\ m.size \in 0 .. MaxSize
    BY DEF PipeInfo, WriteReqs
  <2>2. q.max \in Nat
    BY <2>1, SizeAssumption
  <2>3. m.size \in Nat
    BY <2>1
  <2> QED
    BY <2>1, <2>2, <2>3
<1>2. CASE q.WritePos = m.pos
  BY <1>2 DEF DoPipeWrite, Unread, Repeats
<1>3. CASE q.WritePos # m.pos
  <2> DEFINE room == Least(m.size, q.max - q.got)
  <2>1. /\ room \in Nat /\ room <= m.size /\ q.got + room <= q.max
        /\ room = 0 => q.got = q.max
    BY <1>1 DEF Least
  <2> HIDE DEF room
  <2>2. o \in (IF room = 0 THEN {Out([q EXCEPT !.writeReq = m], <<>>, <<>>)}
               ELSE IF Immediate(m) THEN
                 {Out(Store([q EXCEPT !.writeReq = None], m.pos, From(m.pos, room)), <<Reply("done", room)>>, <<>>)}
               ELSE {Out([q EXCEPT !.writeReq = None, !.data = [pos |-> m.pos, size |-> n]],
                         <<Sizes(n, n, "DataPort")>>, <<>>) : n \in Tfrs(room)})
    BY <1>3, Zenon DEF DoPipeWrite, Accept, room
  <2>3. CASE room = 0
    BY <1>3, <2>1, <2>2, <2>3 DEF Unread, Holds
  <2>4. CASE room # 0 /\ Immediate(m)
    <3>1. o = Out(Store([q EXCEPT !.writeReq = None], m.pos, From(m.pos, room)), <<Reply("done", room)>>, <<>>)
      BY <2>2, <2>4
    <3>2. room \in 1 .. m.size
      BY <1>1, <2>1, <2>4
    <3> QED
      BY <1>3, <2>1, <3>1, <3>2, Zenon DEF Unread, Stores
  <2>5. CASE room # 0 /\ ~Immediate(m)
    <3>1. PICK n \in Tfrs(room) : o = Out([q EXCEPT !.writeReq = None, !.data = [pos |-> m.pos, size |-> n]],
                                          <<Sizes(n, n, "DataPort")>>, <<>>)
      BY <2>2, <2>5
    <3>2. n \in 1 .. room
      BY <2>1, <2>5, TfrsAre
    <3>3. n \in 1 .. m.size /\ q.got + n <= q.max
      BY <1>1, <2>1, <3>2
    <3> QED
      BY <1>3, <3>1, <3>3, Zenon DEF Unread, Awaits
  <2> QED
    BY <2>3, <2>4, <2>5
<1> QED
  BY <1>2, <1>3

(* And of one that meets a reader.                                         *)
Met(q, m) == [q EXCEPT !.readReq = None, !.writeReq = None, !.ack = TRUE, !.ackPos = m.pos]

(* The read is answered with the data, or the writer is told where to send *)
(* it.                                                                     *)
Exchanges(o, q, r, m) ==
  \E n \in 1 .. m.size :
    /\ n <= r.size
    /\ \/ o = Out(Met(q, m), <<>>, <<ToReader("data", From(m.pos, n))>>)
       \/ \E first \in 1 .. n : o = Out(Met(q, m), <<Sizes(n, first, r.port)>>, <<>>)

(* ExchangeData() answers one of the two and waits for the ReadAck.        *)
LEMMA ExchangeIs ==
  ASSUME NEW q, NEW m \in WriteReqs, m.size >= 1, NEW r \in Requests,
           NEW o \in ExchangeData(q, r, m)
  PROVE  Exchanges(o, q, r, m)
<1> DEFINE n == Least(m.size, r.size)
<1>1. n \in 1 .. m.size /\ n <= r.size /\ n \in Nat /\ n >= 1
  BY SizeAssumption DEF Least, WriteReqs, Requests
<1> HIDE DEF n
<1>2. o \in (IF Immediate(m) THEN {Out(Met(q, m), <<>>, <<ToReader("data", From(m.pos, n))>>)}
             ELSE {Out(Met(q, m), <<Sizes(n, first, r.port)>>, <<>>) : first \in Tfrs(n)})
  BY Zenon DEF ExchangeData, Met, n
<1>3. CASE Immediate(m)
  <2>1. o = Out(Met(q, m), <<>>, <<ToReader("data", From(m.pos, n))>>)
    BY <1>2, <1>3
  <2> QED
    BY <1>1, <2>1, Zenon DEF Exchanges
<1>4. CASE ~Immediate(m)
  <2>1. PICK first \in Tfrs(n) : o = Out(Met(q, m), <<Sizes(n, first, r.port)>>, <<>>)
    BY <1>2, <1>4
  <2>2. first \in 1 .. n
    BY <1>1, TfrsAre
  <2> QED
    BY <1>1, <2>1, <2>2, Zenon DEF Exchanges
<1> QED
  BY <1>3, <1>4

(* The fields of the PipeInfo that the server leaves behind.               *)
Counted(q) == Len(q.pend) <= q.got /\ (q.pend = <<>> => q.got = 0) /\ q.got <= q.max
NoneInVain(q) ==
  /\ q.readReq # None => q.pend = <<>> /\ q.writeReq = None /\ q.open
  /\ q.writeReq # None => q.got = q.max
  /\ Counted(q)

(* The server after a write of n bytes it has stored.                      *)
AfterStore(x, q, pos, n) ==
  /\ x \in PipeInfo /\ NoneInVain(x)
  /\ x.pend = q.pend \o From(pos, n) /\ Len(x.pend) = Len(q.pend) + n /\ x.pend # <<>>
  /\ x.WritePos = pos /\ x.writeReq = None
  /\ x.readReq = None /\ x.data = q.data /\ x.open = q.open /\ x.ack = q.ack
       /\ x.ackPos = q.ackPos

(* The fields after bytes are stored: nobody waits in vain.                *)
LEMMA StoreIs ==
  ASSUME NEW q \in PipeInfo, NEW pos \in Nat, NEW n \in Nat, n >= 1, pos + n <= Total,
         q.got + n <= q.max, Counted(q), q.readReq = None
  PROVE  AfterStore(Store([q EXCEPT !.writeReq = None], pos, From(pos, n)), q, pos, n)
<1>1. From(pos, n) \in Bytes /\ Len(From(pos, n)) = n /\ pos \in 0 .. Total
  <2>1. pos \in 0 .. Total /\ pos \in Int
    BY SizeAssumption
  <2>2. Len(From(pos, n)) = n
    BY <2>1, FromType
  <2>3. From(pos, n) \in Bytes
    BY FromBytes
  <2> QED
    BY <2>1, <2>2, <2>3
<1> DEFINE x == Store([q EXCEPT !.writeReq = None], pos, From(pos, n))
<1>2. q.pend \in Bytes /\ q.got \in Nat /\ q.max \in BufSizes
  BY DEF PipeInfo
<1>3. From(pos, n) # <<>>
  BY <1>1, Len(<<>>) = 0
<1>4. PICK s : s = q.pend \o From(pos, n)
  OBVIOUS
<1>5. s \in Bytes /\ Len(s) = Len(q.pend) + n /\ s # <<>>
  BY <1>1, <1>2, <1>3, <1>4, Joined
<1>6. q.got + n \in Nat
  BY <1>2
<1>7. x = [[q EXCEPT !.writeReq = None] EXCEPT !.pend = s, !.got = @ + n, !.WritePos = pos]
  BY <1>1, <1>4 DEF Store
<1>8. /\ x \in PipeInfo /\ x.pend = s /\ x.got = q.got + n /\ x.max = q.max
      /\ x.WritePos = pos /\ x.writeReq = None
      /\ x.readReq = q.readReq /\ x.data = q.data /\ x.open = q.open /\ x.ack = q.ack
           /\ x.ackPos = q.ackPos
  BY <1>1, <1>5, <1>6, <1>7 DEF PipeInfo
<1>9. Len(q.pend) \in Nat /\ Len(q.pend) <= q.got
  BY <1>2 DEF NoneInVain, Counted, Bytes
<1>10. Len(x.pend) <= x.got /\ x.got <= x.max
  BY <1>2, <1>5, <1>8, <1>9
<1> QED
  BY <1>4, <1>5, <1>8, <1>10 DEF NoneInVain, Counted, AfterStore

(* The server after a write of n bytes it waits for.                       *)
AfterAwait(x, q, pos, n) ==
  /\ x \in PipeInfo /\ NoneInVain(x) /\ x.data # None /\ x.data.pos = pos /\ x.data.size = n
  /\ x.pend = q.pend /\ x.got = q.got /\ x.max = q.max /\ x.WritePos = q.WritePos
  /\ x.writeReq = None /\ x.readReq = None /\ x.open = q.open /\ x.ack = q.ack
       /\ x.ackPos = q.ackPos

(* The fields when a delivery is awaited.                                  *)
LEMMA AwaitIs ==
  ASSUME NEW q \in PipeInfo, NEW pos \in Nat, NEW n \in 1 .. MaxSize, pos \in 0 .. Total,
         Counted(q), q.readReq = None
  PROVE  AfterAwait([q EXCEPT !.writeReq = None, !.data = [pos |-> pos, size |-> n]], q, pos, n)
<1> DEFINE x == [q EXCEPT !.writeReq = None, !.data = [pos |-> pos, size |-> n]]
<1>1. PICK d : d = [pos |-> pos, size |-> n]
  OBVIOUS
<1>2. d \in Deliveries /\ d # None /\ d.pos = pos /\ d.size = n
  BY <1>1, NoneAssumption DEF Deliveries
<1>3. x = [q EXCEPT !.writeReq = None, !.data = d]
  BY <1>1
<1>4. /\ x \in PipeInfo /\ x.data = d
      /\ x.pend = q.pend /\ x.got = q.got /\ x.max = q.max /\ x.WritePos = q.WritePos
      /\ x.writeReq = None /\ x.readReq = q.readReq /\ x.open = q.open /\ x.ack = q.ack
           /\ x.ackPos = q.ackPos
  BY <1>2, <1>3 DEF PipeInfo
<1> QED
  BY <1>2, <1>4 DEF NoneInVain, Counted, AfterAwait

(* The server after a write there is no room for.                          *)
AfterHold(x, q, m) ==
  /\ x \in PipeInfo /\ NoneInVain(x) /\ x.writeReq = m
  /\ x.pend = q.pend /\ x.got = q.got /\ x.max = q.max /\ x.WritePos = q.WritePos
  /\ x.data = q.data /\ x.readReq = None /\ x.open = q.open /\ x.ack = q.ack
       /\ x.ackPos = q.ackPos

(* The fields when the write is kept.                                      *)
LEMMA HoldIs ==
  ASSUME NEW q \in PipeInfo, NEW m \in WriteReqs, Counted(q), q.readReq = None, q.got = q.max
  PROVE  AfterHold([q EXCEPT !.writeReq = m], q, m)
<1> DEFINE x == [q EXCEPT !.writeReq = m]
<1>1. /\ x \in PipeInfo /\ x.writeReq = m
      /\ x.pend = q.pend /\ x.got = q.got /\ x.max = q.max /\ x.WritePos = q.WritePos
      /\ x.data = q.data /\ x.readReq = q.readReq /\ x.open = q.open /\ x.ack = q.ack
           /\ x.ackPos = q.ackPos
  BY DEF PipeInfo
<1> QED
  BY <1>1 DEF NoneInVain, Counted, AfterHold

(* The server after a write it has taken already.                          *)
AfterRepeat(x, q) ==
  /\ x \in PipeInfo /\ NoneInVain(x) /\ x.writeReq = None
  /\ x.pend = q.pend /\ x.got = q.got /\ x.max = q.max /\ x.WritePos = q.WritePos
  /\ x.data = q.data /\ x.readReq = q.readReq /\ x.open = q.open /\ x.ack = q.ack
       /\ x.ackPos = q.ackPos

(* The fields when the write is known already.                             *)
LEMMA RepeatIs ==
  ASSUME NEW q \in PipeInfo, Counted(q), (q.readReq # None => q.pend = <<>> /\ q.open)
  PROVE  AfterRepeat([q EXCEPT !.writeReq = None], q)
<1> DEFINE x == [q EXCEPT !.writeReq = None]
<1>1. /\ x \in PipeInfo /\ x.writeReq = None
      /\ x.pend = q.pend /\ x.got = q.got /\ x.max = q.max /\ x.WritePos = q.WritePos
      /\ x.data = q.data /\ x.readReq = q.readReq /\ x.open = q.open /\ x.ack = q.ack
           /\ x.ackPos = q.ackPos
  BY DEF PipeInfo
<1> QED
  BY <1>1 DEF NoneInVain, Counted, AfterRepeat

(* The server after a write and a read have met.                           *)
AfterMeeting(x, q, m) ==
  /\ x \in PipeInfo /\ NoneInVain(x) /\ x.writeReq = None /\ x.readReq = None /\ x.ack
       /\ x.ackPos = m.pos
  /\ x.pend = q.pend /\ x.got = q.got /\ x.max = q.max /\ x.WritePos = q.WritePos
  /\ x.data = q.data /\ x.open = q.open

(* The fields when an exchange begins.                                     *)
LEMMA MetIs ==
  ASSUME NEW q \in PipeInfo, Counted(q), NEW m \in WriteReqs
  PROVE  AfterMeeting(Met(q, m), q, m)
<1> DEFINE x == Met(q, m)
<1>1. m.pos \in 0 .. Total
  BY DEF WriteReqs
<1>2. /\ x \in PipeInfo /\ x.writeReq = None /\ x.readReq = None /\ x.ack = TRUE
           /\ x.ackPos = m.pos
      /\ x.pend = q.pend /\ x.got = q.got /\ x.max = q.max /\ x.WritePos = q.WritePos
      /\ x.data = q.data /\ x.open = q.open
  BY <1>1 DEF PipeInfo, Met
<1> QED
  BY <1>2 DEF NoneInVain, Counted, AfterMeeting

(* The server after the ReadAck of an exchange.                            *)
AfterAck(x, q, n) ==
  /\ x \in PipeInfo /\ NoneInVain(x) /\ x.ack = FALSE
  /\ q.ack /\ n > 0 => x.WritePos = q.ackPos
  /\ ~(q.ack /\ n > 0) => x.WritePos = q.WritePos
  /\ x.pend = q.pend /\ x.got = q.got /\ x.max = q.max /\ x.ackPos = q.ackPos
  /\ x.data = q.data /\ x.open = q.open /\ x.writeReq = q.writeReq /\ x.readReq = q.readReq

(* The fields when it ends.                                                *)
LEMMA AckedIs ==
  ASSUME NEW q \in PipeInfo, NoneInVain(q), NEW n
  PROVE  AfterAck(Acked(q, n), q, n)
<1> DEFINE x == Acked(q, n)
<1>1. PICK pos : pos = IF q.ack /\ n > 0 THEN q.ackPos ELSE q.WritePos
  OBVIOUS
<1>2. pos \in 0 .. Total
  BY <1>1 DEF PipeInfo
<1>3. x = [q EXCEPT !.ack = FALSE, !.WritePos = pos]
  BY <1>1 DEF Acked
<1>4. /\ x \in PipeInfo /\ x.ack = FALSE
      /\ x.WritePos = pos
      /\ x.pend = q.pend /\ x.got = q.got /\ x.max = q.max /\ x.ackPos = q.ackPos
      /\ x.data = q.data /\ x.open = q.open /\ x.writeReq = q.writeReq /\ x.readReq = q.readReq
  BY <1>2, <1>3 DEF PipeInfo
<1> QED
  BY <1>1, <1>4 DEF NoneInVain, Counted, AfterAck

(* What a ReadAck of n bytes leaves of the buffer.                         *)
Rest(q, n) ==
  LET kept == SubSeq(q.pend, n + 1, Len(q.pend)) IN
  [q EXCEPT !.pend = kept, !.got = IF kept = <<>> THEN 0 ELSE @]

(* The server after the ReadAck of bytes of its buffer.                    *)
AfterDrop(x, q, n) ==
  /\ x \in PipeInfo /\ x.pend = SubSeq(q.pend, n + 1, Len(q.pend))
  /\ Len(x.pend) = Len(q.pend) - n
  /\ Counted(x)
  /\ x.max = q.max /\ x.ackPos = q.ackPos /\ x.ack = q.ack /\ x.WritePos = q.WritePos
  /\ x.data = q.data /\ x.open = q.open /\ x.writeReq = q.writeReq /\ x.readReq = None

(* The fields when bytes leave the buffer.                                 *)
LEMMA RestIs ==
  ASSUME NEW q \in PipeInfo, q.readReq = None, Counted(q), NEW n \in 1 .. Len(q.pend)
  PROVE  AfterDrop(Rest(q, n), q, n)
<1> DEFINE x == Rest(q, n)
<1>1. q.pend \in Bytes /\ q.got \in Nat /\ q.max \in BufSizes /\ Len(q.pend) <= q.got
        /\ q.got <= q.max
  BY DEF PipeInfo, Counted
<1>2. PICK s : s = SubSeq(q.pend, n + 1, Len(q.pend))
  OBVIOUS
<1>3. /\ s \in Bytes /\ Len(s) \in Nat /\ Len(s) <= Len(q.pend)
      /\ Len(s) = Len(q.pend) - n
  <2>1. q.pend \in Seq(1 .. Total) /\ Len(q.pend) \in Nat
    BY <1>1 DEF Bytes
  <2>2. n + 1 \in Int /\ Len(q.pend) \in Int
          /\ \A i \in n + 1 .. Len(q.pend) : q.pend[i] \in 1 .. Total
    <3>1. ASSUME NEW i \in n + 1 .. Len(q.pend) PROVE q.pend[i] \in 1 .. Total
      <4>1. i \in 1 .. Len(q.pend)
        BY <2>1
      <4> QED
        BY <4>1, <2>1, ElementOfSeq
    <3> QED
      BY <2>1, <3>1
  <2>3. s \in Seq(1 .. Total)
          /\ Len(s) = IF n + 1 <= Len(q.pend) THEN Len(q.pend) - (n + 1) + 1 ELSE 0
    <3> DEFINE S == 1 .. Total k == Len(q.pend) m == n + 1 t == q.pend
    <3>1. m \in Int /\ k \in Int /\ \A i \in m .. k : t[i] \in S
      BY <2>2
    <3> HIDE DEF S, k, m, t
    <3>2. SubSeq(t, m, k) \in Seq(S) /\ Len(SubSeq(t, m, k)) = IF m <= k THEN k - m + 1 ELSE 0
      BY <3>1, SubSeqProperties
    <3> QED
      BY <3>2, <1>2 DEF S, k, m, t
  <2>4. Len(s) = Len(q.pend) - n /\ Len(s) \in Nat /\ Len(s) <= Len(q.pend)
    BY <2>1, <2>3
  <2> QED
    BY <2>3, <2>4 DEF Bytes
<1>4. PICK g : g = IF s = <<>> THEN 0 ELSE q.got
  OBVIOUS
<1>5. g \in Nat /\ Len(s) <= g /\ g <= q.max /\ (s = <<>> => g = 0)
  <2>0. q.max \in Nat
    BY <1>1, SizeAssumption
  <2>1. Len(q.pend) \in Nat /\ q.max \in Nat
    BY <1>1, <2>0 DEF Bytes
  <2>2. CASE s = <<>>
    BY <2>1, <2>2, <1>4, <1>1
  <2>3. CASE s # <<>>
    BY <2>1, <2>3, <1>1, <1>3, <1>4
  <2> QED
    BY <2>2, <2>3
<1>6. x = [q EXCEPT !.pend = s, !.got = g]
  BY <1>2, <1>4 DEF Rest
<1>7. /\ x \in PipeInfo /\ x.pend = s /\ x.got = g
      /\ x.max = q.max /\ x.ackPos = q.ackPos /\ x.ack = q.ack /\ x.WritePos = q.WritePos
      /\ x.data = q.data /\ x.open = q.open /\ x.writeReq = q.writeReq /\ x.readReq = q.readReq
  BY <1>1, <1>3, <1>5, <1>6 DEF PipeInfo
<1> QED
  BY <1>2, <1>3, <1>5, <1>7 DEF Counted, AfterDrop

(* A write without a reader leaves the buffer consistent.                  *)
LEMMA UnreadLeaves ==
  ASSUME NEW q \in PipeInfo, Counted(q), q.readReq = None,
         NEW m \in WriteReqs, m.size >= 1, m.pos + m.size <= Total,
         NEW x, NEW w, Unread(q, m, x, w)
  PROVE  x \in PipeInfo /\ NoneInVain(x) /\ w \in Seq(Replies)
<1>1. m.pos \in Nat /\ m.pos \in 0 .. Total /\ m.size \in 1 .. MaxSize /\ m.size \in Nat
  BY SizeAssumption DEF WriteReqs
<1>2. /\ Reply("already", m.size) \in Replies
      /\ \A n \in 1 .. m.size : Reply("done", n) \in Replies
           /\ Sizes(n, n, "DataPort") \in Replies
  BY <1>1, SizeAssumption DEF Reply, Sizes, Replies, Places
<1>3. CASE Repeats(q, m, x, w)
  BY <1>2, <1>3, RepeatIs DEF Repeats, AfterRepeat
<1>4. CASE Holds(q, m, x, w)
  BY <1>4, HoldIs DEF Holds, AfterHold
<1>5. CASE Stores(q, m, x, w)
  <2>1. PICK n \in 1 .. m.size : /\ q.got + n <= q.max /\ w = <<Reply("done", n)>>
                                 /\ x = Store([q EXCEPT !.writeReq = None], m.pos, From(m.pos, n))
    BY <1>5 DEF Stores
  <2>2. n \in Nat /\ n >= 1 /\ m.pos + n <= Total
    BY <1>1, SizeAssumption
  <2>3. x \in PipeInfo /\ NoneInVain(x)
    BY <1>1, <2>1, <2>2, StoreIs DEF AfterStore
  <2> QED
    BY <1>2, <2>1, <2>3
<1>6. CASE Awaits(q, m, x, w)
  <2>1. PICK n \in 1 .. m.size : /\ q.got + n <= q.max /\ w = <<Sizes(n, n, "DataPort")>>
                                 /\ x = [q EXCEPT !.writeReq = None, !.data = [pos |-> m.pos, size |-> n]]
    BY <1>6 DEF Awaits
  <2>2. n \in 1 .. MaxSize
    BY <1>1, SizeAssumption
  <2>3. x \in PipeInfo /\ NoneInVain(x)
    BY <1>1, <2>1, <2>2, AwaitIs DEF AfterAwait
  <2> QED
    BY <1>2, <2>1, <2>3
<1> QED
  BY <1>3, <1>4, <1>5, <1>6 DEF Unread

(* What a ReadAck can lead to.                                             *)
Failed    == err \in {"timeout", "sequence"}
Confirmed == IF Failed THEN -1 ELSE Len(res)
AckReply  == IF p.ack THEN <<Reply("done", Confirmed)>> ELSE <<>>
OnlyAcks(o)  == (Confirmed <= 0 \/ p.pend = <<>>)
  /\ o = Out(Acked(p, Confirmed), AckReply, <<>>)
OnlyDrops(o) == /\ p.pend # <<>> /\ Confirmed \in 1 .. Len(p.pend) /\ p.writeReq = None
                /\ o = Out(Rest(Acked(p, Confirmed), Confirmed), AckReply, <<>>)
Resumes(o)   == /\ p.pend # <<>> /\ Confirmed \in 1 .. Len(p.pend) /\ p.writeReq # None
  /\ p.writeReq = TheWrite
                /\ \E x, w : /\ Unread(Rest(Acked(p, Confirmed), Confirmed), TheWrite, x, w)
                             /\ o = Out(x, AckReply \o w, <<>>)

----------------------------------------------------------------------------
(* What a ReadAck can lead to.                                             *)

(* The writer's request is one the server can be asked.                    *)
LEMMA RequestIs ==
  ASSUME TypeOK, Deep, Active
  PROVE  TheWrite \in WriteReqs /\ TheWrite.size >= 1 /\ TheWrite.pos = told
           /\ TheWrite.size = goal - told
         /\ goal - told \in Nat /\ goal - told \in 1 .. MaxSize /\ told \in Nat /\ goal <= Total
              /\ told \in 0 .. Total
<1>1. told \in Nat /\ goal \in Nat /\ told < goal /\ goal - told <= MaxSize /\ goal <= Total
        /\ MaxSize \in Nat
  BY NumbersAre, SizeAssumption DEF Deep, Asking, Numbers, NumWriter, TypeOK
<1>2. TheWrite \in WriteReqs
  BY <1>1, RequestType DEF TheWrite
<1>3. TheWrite.pos = told /\ TheWrite.size = goal - told
  BY DEF TheWrite
<1> QED
  BY <1>1, <1>2, <1>3 DEF TypeOK

(* DoReadAck() acknowledges, drops bytes, or drops bytes and goes on with  *)
(* the write it kept.                                                      *)
LEMMA ReadAckIs ==
  ASSUME PipeInv, trouble = "no", rpc = "ack", NEW o \in DoReadAck(p, Confirmed)
  PROVE  OnlyAcks(o) \/ (p.pend # <<>> /\ ~Failed /\ (OnlyDrops(o) \/ Resumes(o)))
<1>0. TypeOK /\ Deep /\ NoWaitInVain /\ Numbers
  BY NumbersAre DEF PipeInv
<1>1. TypeOK /\ Deep /\ Numbers /\ NoneInVain(p) /\ p \in PipeInfo /\ p.readReq = None
  <2>1. p.readReq = None
    BY <1>0 DEF Deep, ReaderAck
  <2>2. p \in PipeInfo /\ p.got <= p.max
    BY <1>0 DEF TypeOK
  <2> QED
    BY <1>0, <2>1, <2>2 DEF NoneInVain, Counted, NoWaitInVain
<1> DEFINE n == Confirmed W == AckReply
<1>2. n \in Int /\ (Failed => n = -1) /\ (~Failed => n = Len(res))
  BY <1>1 DEF Confirmed, Numbers, NumReader
<1>3. CASE n <= 0 \/ p.pend = <<>>
  <2>1. o = Out(Acked(p, n), W, <<>>)
    BY <1>3 DEF DoReadAck, AckReply
  <2> QED
    BY <1>3, <2>1 DEF OnlyAcks
<1>4. CASE ~(n <= 0 \/ p.pend = <<>>)
  <2>1. ~Failed /\ n = Len(res) /\ n >= 1 /\ p.pend # <<>>
    BY <1>2, <1>4
  <2>2. err = "none"
    BY <1>1, <2>1 DEF Failed, TypeOK, Deep, ReaderAck
  <2>3. n \in 1 .. Len(p.pend)
    <3>1. ~Live
      BY <1>1, <2>1 DEF Deep, Exchanging
    <3>2. Len(res) <= Len(p.pend)
      BY <1>1, <2>2, <3>1 DEF Deep, ReaderAck
    <3> QED
      BY <1>1, <1>2, <2>1, <3>2 DEF Numbers, NumStream
  <2> DEFINE q == Acked(p, n) d == Rest(q, n)
  <2>4. /\ q \in PipeInfo /\ q.pend = p.pend /\ q.got = p.got /\ q.max = p.max
             /\ q.readReq = None /\ q.writeReq = p.writeReq
    BY <1>1, AckedIs DEF AfterAck
  <2>5. /\ d \in PipeInfo /\ d.got <= d.max /\ d.readReq = None /\ d.writeReq = p.writeReq
    BY <1>1, <2>3, <2>4, RestIs DEF NoneInVain, Counted, AfterDrop
  <2>6. PICK e : e \in Dropped(q, n) /\ o = [e EXCEPT !.w = W \o @]
    BY <1>4 DEF DoReadAck, AckReply
  <2>7. e \in (IF d.writeReq = None THEN {Out(d, <<>>, <<>>)} ELSE DoPipeWrite(d, d.writeReq))
    BY <2>6 DEF Dropped, Rest
  <2>8. CASE p.writeReq = None
    <3>1. e = Out(d, <<>>, <<>>)
      BY <2>5, <2>7, <2>8
    <3> HIDE DEF q, d, n, W
    <3>2. o = Out(d, W \o <<>>, <<>>)
      BY <2>6, <3>1 DEF Out
    <3>3. W \o <<>> = W
      BY DEF AckReply, W
    <3>4. OnlyDrops(o)
      BY <2>1, <2>3, <2>8, <3>2, <3>3, Zenon DEF OnlyDrops, d, q, n, W
    <3> QED
      BY <2>1, <3>4
  <2>9. CASE p.writeReq # None
    <3>1. Active /\ p.writeReq = TheWrite
      BY <1>1, <2>9 DEF Deep, Resting, Asking
    <3>2. e \in DoPipeWrite(d, TheWrite)
      BY <2>5, <2>7, <2>9, <3>1
    <3>3. TheWrite \in WriteReqs /\ TheWrite.size >= 1
      BY <1>1, <3>1, RequestIs
    <3> HIDE DEF q, d, n, W
    <3>4. PICK x, w : e = Out(x, w, <<>>) /\ Unread(d, TheWrite, x, w)
      BY <2>5, <3>2, <3>3, UnreadIs
    <3>5. o = Out(x, W \o w, <<>>)
      BY <2>6, <3>4 DEF Out
    <3>6. Resumes(o)
      BY <2>1, <2>3, <2>9, <3>1, <3>4, <3>5, Zenon DEF Resumes, d, q, n, W
    <3> QED
      BY <2>1, <3>6
  <2> QED
    BY <2>8, <2>9
<1> QED
  BY <1>3, <1>4

(* It leaves the buffer consistent.                                        *)
LEMMA ReadAckLeaves ==
  ASSUME PipeInv, trouble = "no", rpc = "ack", NEW o \in DoReadAck(p, Confirmed)
  PROVE  o.p \in PipeInfo /\ NoneInVain(o.p) /\ o.w \in Seq(Replies) /\ o.r = <<>>
<1>0. TypeOK /\ Deep /\ NoWaitInVain /\ Numbers
  BY NumbersAre DEF PipeInv
<1>1. TypeOK /\ Deep /\ Numbers /\ NoneInVain(p) /\ p \in PipeInfo /\ p.readReq = None
  <2>1. p.readReq = None
    BY <1>0 DEF Deep, ReaderAck
  <2>2. p \in PipeInfo /\ p.got <= p.max
    BY <1>0 DEF TypeOK
  <2> QED
    BY <1>0, <2>1, <2>2 DEF NoneInVain, Counted, NoWaitInVain
<1> DEFINE n == Confirmed W == AckReply q == Acked(p, n) d == Rest(q, n)
<1>2. W \in Seq(Replies)
  <2>1. n \in -1 .. MaxSize
    BY <1>1, SizeAssumption DEF Confirmed, Numbers, NumReader, TypeOK, Waits, NoWant
  <2>2. Reply("done", n) \in Replies
    BY <2>1 DEF Reply, Replies, Places
  <2> QED
    BY <2>2 DEF AckReply
<1>3. q \in PipeInfo /\ NoneInVain(q) /\ q.pend = p.pend /\ q.readReq = None
  BY <1>1, AckedIs DEF AfterAck
<1>4. CASE OnlyAcks(o)
  BY <1>2, <1>3, <1>4, OutIs DEF OnlyAcks
<1>5. ASSUME Confirmed \in 1 .. Len(p.pend)
      PROVE  d \in PipeInfo /\ Counted(d) /\ d.readReq = None /\ d.writeReq = p.writeReq
  <2>1. n \in 1 .. Len(q.pend) /\ Counted(q) /\ q.writeReq = p.writeReq
    BY <1>1, <1>3, <1>5, AckedIs DEF NoneInVain, AfterAck
  <2> QED
    BY <1>3, <2>1, RestIs DEF AfterDrop
<1> HIDE DEF n, W, q, d
<1>6. CASE OnlyDrops(o)
  <2>1. o = Out(d, W, <<>>) /\ d \in PipeInfo /\ Counted(d) /\ d.readReq = None
          /\ d.writeReq = None
    BY <1>5, <1>6 DEF OnlyDrops, d, q, n, W
  <2>2. NoneInVain(d)
    BY <2>1 DEF NoneInVain
  <2> QED
    BY <1>2, <2>1, <2>2, OutIs
<1>7. CASE Resumes(o)
  <2>1. PICK x, w : Unread(d, TheWrite, x, w) /\ o = Out(x, W \o w, <<>>)
    BY <1>7, Zenon DEF Resumes, d, q, n, W
  <2>2. d \in PipeInfo /\ Counted(d) /\ d.readReq = None /\ p.writeReq = TheWrite
    BY <1>5, <1>7 DEF Resumes
  <2>3. Active
    BY <1>1, <1>7 DEF Resumes, Deep, Resting
  <2>4. /\ TheWrite \in WriteReqs /\ TheWrite.size >= 1 /\ TheWrite.pos = told
             /\ TheWrite.size = goal - told
        /\ told \in Nat /\ goal <= Total /\ goal - told \in Nat
    BY <1>1, <2>3, RequestIs
  <2>5. TheWrite.pos + TheWrite.size <= Total
    BY <1>1, <2>4, SizeAssumption DEF Numbers, NumWriter
  <2>6. x \in PipeInfo /\ NoneInVain(x) /\ w \in Seq(Replies)
    BY <2>1, <2>2, <2>4, <2>5, UnreadLeaves
  <2>7. W \o w \in Seq(Replies)
    BY <1>2, <2>6, ConcatProperties
  <2> QED
    BY <2>1, <2>6, <2>7 DEF Out
<1> QED
  BY <1>4, <1>6, <1>7, ReadAckIs

(* A ReadAck keeps what must hold whatever becomes of the protocol: when it*)
(* harms, something was lost.                                              *)
LEMMA ReadAckSound ==
  ASSUME PipeInv, trouble = "no", ReadAck
  PROVE  TypeOK' /\ NoWaitInVain' /\ OnlyByLoss'
<1>1. TypeOK /\ Deep /\ OnlyByLoss /\ rpc = "ack" /\ toReader = <<>>
  BY DEF PipeInv, Deep, ReaderAck, ReadAck
<1>2. PICK o \in DoReadAck(p, Confirmed) : Serve(o)
  BY DEF ReadAck, Confirmed, Failed
<1>3. o.p \in PipeInfo /\ NoneInVain(o.p) /\ o.w \in Seq(Replies) /\ o.r = <<>>
  BY <1>1, ReadAckLeaves
<1>4. /\ p' = o.p /\ toWriter' = toWriter \o o.w /\ toReader' = <<>>
  BY <1>1, <1>2, <1>3 DEF Serve
<1>5. /\ UNCHANGED <<wpc, told, goal, xfer, port, toServer, toData, lost, left>>
           /\ stale' = FALSE
      /\ trouble' = IF p.ack /\ stale THEN "stale" ELSE IF Failed /\ res # <<>>
           /\ ~Again THEN "repeated" ELSE trouble
  BY DEF ReadAck, writer, losses, Failed
<1>6. /\ res' = <<>> /\ seq' = 0 /\ err' = "none"
      /\ \/ rpc' = "request" /\ want' = want /\ given' = given /\ eof' = eof
         \/ rpc' = "idle" /\ want' = NoWant /\ given' = given \o res
              /\ eof' = (eof \/ err = "eof")
  BY DEF ReadAck, AskAgain
<1>7. toWriter' \in Seq(Replies)
  <2>1. toWriter \in Seq(Replies)
    BY <1>1 DEF TypeOK
  <2> QED
    BY <1>3, <1>4, <2>1, ConcatProperties
<1>8. given' \in Bytes /\ eof' \in BOOLEAN
  <2>1. given \in Bytes /\ res \in Bytes /\ eof \in BOOLEAN
    BY <1>1 DEF TypeOK
  <2>2. given \o res \in Bytes
    BY <2>1, Joined
  <2> QED
    BY <1>6, <2>1, <2>2
<1>9. want' \in Waits \cup {NoWant} /\ res' \in Bytes /\ Len(res') <= want'.size
        /\ seq' \in 0 .. MaxSize
  <2>1. want' \in Waits \cup {NoWant} /\ res' \in Bytes /\ Len(res') = 0
    BY <1>1, <1>6 DEF TypeOK, Bytes
  <2>2. 0 <= want'.size
    BY <2>1, SizeAssumption DEF Waits, NoWant
  <2> QED
    BY <1>6, <2>1, <2>2, SizeAssumption
<1>10. p' \in PipeInfo /\ p'.got <= p'.max /\ NoneInVain(p')
  BY <1>3, <1>4 DEF NoneInVain, Counted
<1>11. rpc' \in {"idle", "request", "data", "ack"}
         /\ err' \in {"none", "timeout", "sequence", "eof"}
       /\ stale' \in BOOLEAN
            /\ trouble' \in {"no", "already", "stale", "garbage", "repeated", "wild"}
       /\ toReader' \in Seq(Answers)
  <2>1. rpc' \in {"idle", "request", "data", "ack"}
          /\ err' \in {"none", "timeout", "sequence", "eof"}
    BY <1>6
  <2>2. stale' \in BOOLEAN
          /\ trouble' \in {"no", "already", "stale", "garbage", "repeated", "wild"}
    BY <1>5
  <2>3. toReader' \in Seq(Answers)
    BY <1>4
  <2> QED
    BY <2>1, <2>2, <2>3
<1>12. TypeOK'
  BY <1>1, <1>5, <1>7, <1>8, <1>9, <1>10, <1>11 DEF TypeOK
<1>13. NoWaitInVain'
  BY <1>10 DEF NoneInVain, Counted, NoWaitInVain
<1>14. OnlyByLoss'
  <2>1. trouble' = "stale" => lost \cap {"sizes", "data"} # {}
    BY <1>1, <1>5 DEF Deep, Stale
  <2>2. trouble' = "repeated" => "data" \in lost
    BY <1>1, <1>5 DEF Deep, ReaderAck, Failed, TypeOK
  <2>3. trouble' \in {"stale", "repeated", "no"}
    BY <1>5
  <2> QED
    BY <1>5, <2>1, <2>2, <2>3 DEF OnlyByLoss
<1> QED
  BY <1>12, <1>13, <1>14

(* A write meets a read.                                                   *)
Meets(n) ==
  /\ Active /\ wpc = "reply" /\ Taken = told /\ ~Live /\ toWriter = <<>> /\ p.data = None
       /\ p.pend = <<>>
  /\ toReader = <<>> /\ res = <<>> /\ seq = 0 /\ err = "none" /\ want # NoWant
       /\ rpc \in {"data", "request"}
  /\ n \in 1 .. goal - told /\ n <= want.size
  /\ rpc' = "data" /\ toServer' = <<>> /\ p' = Met(p, TheWrite) /\ stale' = FALSE
  /\ UNCHANGED <<toData, wpc, told, goal, xfer, want, res, seq, err, port, given, eof, lost,
                 left, trouble>>

----------------------------------------------------------------------------
(* The writer.                                                             *)

(* Write() is called.                                                      *)
LEMMA WriteCorrect ==
  ASSUME PipeInv, trouble = "no", NEW n \in 1 .. MaxSize, Write(n)
  PROVE  Correct
<1> USE SizeAssumption, NoneAssumption DEF Deep, Active, Live, Taken, TheWrite, TheClose
<1>i. TypeOK /\ Deep /\ Numbers
  BY NumbersAre DEF PipeInv
<1>u. UNCHANGED <<p, toWriter, toReader, toData, told, rpc, want, res, seq, err, port, given,
                  eof, lost, left, stale, trouble>>
  BY DEF Write, Request, reader, history, losses
<1>e. /\ wpc = "idle" /\ wpc' = "reply" /\ goal' = goal + n /\ goal + n <= Total
           /\ xfer' = NoXfer
      /\ toServer' = Append(toServer, [kind |-> "write", pos |-> told, size |-> (goal + n) - told])
  BY DEF Write, Request
<1>1. /\ wpc = "idle" /\ wpc' = "reply" /\ goal' = goal + n /\ goal + n <= Total
           /\ xfer' = NoXfer
      /\ toServer' = <<TheWrite>>' /\ told = goal
  BY <1>i, <1>u, <1>e DEF Resting, TypeOK
<1>A. TypeOK'
  BY <1>i, <1>u, <1>1 DEF TypeOK, WriteReqs, NoXfer, Transfers, Places
<1>B. NoWaitInVain'
  BY <1>i, <1>u, <1>1 DEF NoWaitInVain, PipeInv
<1>L. OnlyByLoss'
  BY <1>i, <1>u, <1>1 DEF OnlyByLoss, PipeInv
<1>C. Ordered' /\ Placed' /\ Untold'
  BY <1>i, <1>u, <1>1 DEF Ordered, Placed, Untold, PipeInfo, Numbers,
     NumWriter, NumStream
<1>D. Resting' /\ Ending' /\ Asking' /\ OneToken'
  BY <1>i, <1>u, <1>1 DEF Resting, Ending, Asking, OneToken, Numbers,
     NumWriter
<1>F. Answered' /\ Delivering'
  BY <1>i, <1>u, <1>1 DEF Answered, Delivering, Resting, Numbers, NumWriter,
     NumStream
<1>G. Stale'
  BY <1>i, <1>u, <1>1 DEF Stale, Resting, NoXfer, Ports, Numbers, NumFlags
<1>M. Sending'
  BY <1>i, <1>u, <1>1 DEF Stale, Sending, Resting, NoXfer, Ports, Numbers,
     NumWriter, NumXfer, NumPort
<1>K. Exchanging'
  BY <1>i, <1>u, <1>1 DEF Stale, Sending, Exchanging, Resting, NoXfer, Ports,
     Numbers, NumWriter
<1>H. ReaderIdle' /\ ReaderRequest' /\ ReaderData' /\ ReaderAck'
  BY <1>i, <1>u, <1>1 DEF ReaderIdle, ReaderRequest, ReaderData, ReaderAck,
     Numbers, NumReader
<1>J. ToReaderOK'
  BY <1>i, <1>u, <1>1 DEF ToReaderOK, FromServer, FromWriter, Numbers,
     NumReader
<1>S. Stream!Offer
  BY <1>i, <1>u, <1>1 DEF Stream!Offer, State, Ending, TypeOK
<1> QED
  BY <1>A, <1>B, <1>L, <1>C, <1>D, <1>F, <1>G, <1>M, <1>K, <1>H, <1>J, <1>S
     DEF Correct, Stream!Next

(* Close() is called.                                                      *)
LEMMA CloseCorrect ==
  ASSUME PipeInv, trouble = "no", Close
  PROVE  Correct
<1> USE SizeAssumption, NoneAssumption DEF Deep, Active, Live, Taken, TheWrite, TheClose
<1>i. TypeOK /\ Deep /\ Numbers
  BY NumbersAre DEF PipeInv
<1>u. UNCHANGED <<p, toWriter, toReader, toData, told, goal, xfer, rpc, want, res, seq, err,
                  port, given, eof, lost, left, stale, trouble>>
  BY DEF Close, reader, history, losses
<1>e. wpc = "idle" /\ wpc' = "closed" /\ toServer' = Append(toServer, TheClose)
  BY DEF Close
<1>1. /\ wpc = "idle" /\ wpc' = "closed" /\ toServer = <<>> /\ toServer' = <<TheClose>>
      /\ told = goal /\ p.open /\ ~eof
  BY <1>i, <1>u, <1>e DEF Resting, Ending, TypeOK
<1>A. TypeOK'
  BY <1>i, <1>u, <1>1 DEF TypeOK, WriteReqs, NoXfer, Transfers, Places
<1>B. NoWaitInVain'
  BY <1>i, <1>u, <1>1 DEF NoWaitInVain, PipeInv
<1>L. OnlyByLoss'
  BY <1>i, <1>u, <1>1 DEF OnlyByLoss, PipeInv
<1>C. Ordered' /\ Placed' /\ Untold'
  BY <1>i, <1>u, <1>1 DEF Ordered, Placed, Untold, PipeInfo, Numbers,
     NumWriter, NumStream
<1>D. Resting' /\ Ending' /\ Asking' /\ OneToken'
  BY <1>i, <1>u, <1>1 DEF Resting, Ending, Asking, OneToken, Numbers,
     NumWriter
<1>F. Answered' /\ Delivering'
  BY <1>i, <1>u, <1>1 DEF Answered, Delivering, Resting, Numbers, NumWriter,
     NumStream
<1>G. Stale'
  BY <1>i, <1>u, <1>1 DEF Stale, Resting, NoXfer, Ports, Numbers, NumFlags
<1>M. Sending'
  BY <1>i, <1>u, <1>1 DEF Stale, Sending, Resting, NoXfer, Ports, Numbers,
     NumWriter, NumXfer, NumPort
<1>K. Exchanging'
  BY <1>i, <1>u, <1>1 DEF Stale, Sending, Exchanging, Resting, NoXfer, Ports,
     Numbers, NumWriter
<1>H. ReaderIdle' /\ ReaderRequest' /\ ReaderData' /\ ReaderAck'
  BY <1>i, <1>u, <1>1 DEF ReaderIdle, ReaderRequest, ReaderData, ReaderAck,
     Numbers, NumReader
<1>J. ToReaderOK'
  BY <1>i, <1>u, <1>1 DEF ToReaderOK, FromServer, FromWriter, Numbers,
     NumReader
<1>S. Stream!Close
  BY <1>i, <1>u, <1>1 DEF Stream!Close, State
<1> QED
  BY <1>A, <1>B, <1>L, <1>C, <1>D, <1>F, <1>G, <1>M, <1>K, <1>H, <1>J, <1>S
     DEF Correct, Stream!Next

(* The writer is told how many bytes to send and where.                    *)
LEMMA WriteSizesCorrect ==
  ASSUME PipeInv, trouble = "no", WriteSizes
  PROVE  Correct
<1> USE SizeAssumption, NoneAssumption DEF Deep, Active, Live, Taken, TheWrite, TheClose
<1>i. TypeOK /\ Deep /\ Numbers
  BY NumbersAre DEF PipeInv
<1>u. UNCHANGED <<p, toServer, toReader, toData, told, goal, rpc, want, res, seq, err, port,
                  given, eof, lost, left, stale, trouble>>
  BY DEF WriteSizes, Gets, reader, history, losses
<1>e. /\ wpc = "reply" /\ wpc' = "send"
      /\ toWriter # <<>> /\ Head(toWriter).kind = "sizes" /\ toWriter' = Tail(toWriter)
      /\ xfer' = [to |-> Head(toWriter).to, size |-> Head(toWriter).n, chunk |-> Head(toWriter).first, sent |-> 0, seq |-> 0]
  BY DEF WriteSizes, Gets
<1>m. PICK m \in Replies : toWriter = <<m>> /\ Answer(m) /\ m = Head(toWriter)
  BY <1>e, OneReply
<1>1. /\ wpc = "reply" /\ wpc' = "send" /\ toServer = <<>> /\ toWriter = <<m>>
           /\ toWriter' = <<>>
  BY <1>e, <1>m, OneReply
<1>2. /\ m.kind = "sizes" /\ Answer(m)
      /\ xfer' = [to |-> m.to, size |-> m.n, chunk |-> m.first, sent |-> 0, seq |-> 0]
  BY <1>e, <1>m
<1>3. /\ m.kind = "sizes" /\ m.n \in 1 .. goal - told
      /\ \/ m.to = "DataPort" /\ p.data # None /\ m.n = p.data.size /\ m.first = m.n
         \/ /\ m.to = port /\ Live /\ rpc = "data" /\ p.readReq = None /\ m.n <= want.size
            /\ toReader = <<>> /\ res = <<>> /\ seq = 0
  BY <1>1, <1>2 DEF Answer
<1>4. /\ xfer' \in Transfers /\ xfer'.to = m.to /\ xfer'.size = m.n /\ xfer'.chunk = m.first
      /\ xfer'.sent = 0 /\ xfer'.seq = 0
  BY <1>i, <1>2, <1>3, SMTT(30) DEF Answer, Asking, Replies, Transfers,
     TypeOK
<1>5. From(told, 0) = <<>> /\ Len(<<>>) = 0 /\ <<>> \in Bytes
  BY <1>i, FromEmpty DEF TypeOK, Bytes
<1>A. TypeOK'
  BY <1>i, <1>u, <1>1, <1>3, <1>4 DEF TypeOK
<1>B. NoWaitInVain'
  BY <1>i, <1>u, <1>1, <1>3, <1>4 DEF NoWaitInVain, PipeInv
<1>L. OnlyByLoss'
  BY <1>i, <1>u, <1>1, <1>3, <1>4 DEF OnlyByLoss, PipeInv
<1>C. Ordered' /\ Placed' /\ Untold'
  BY <1>i, <1>u, <1>1, <1>3, <1>4 DEF Ordered, Placed, Untold, PipeInfo,
     Numbers, NumWriter, NumStream
<1>D. Resting' /\ Ending' /\ Asking' /\ OneToken'
  BY <1>i, <1>u, <1>1, <1>3, <1>4 DEF Resting, Ending, Asking, OneToken,
     Answer, Numbers, NumWriter
<1>F. Answered' /\ Delivering'
  BY <1>i, <1>u, <1>1, <1>3, <1>4 DEF Answered, Delivering, OneToken,
     NumPort, NumXfer, Ports, Numbers, NumWriter, NumStream
<1>G. Stale'
  <2>1. CASE m.to = "DataPort"
    BY <1>i, <1>u, <1>1, <1>3, <1>4, <2>1 DEF Stale, Sending, Exchanging, Ports, Numbers,
         NumWriter, NumXfer, NumPort
  <2>2. CASE m.to # "DataPort"
    <3>1. m.to = port /\ Live /\ Len(toReader) = 0 /\ p.pend = <<>>
      BY <1>i, <1>3, <2>2 DEF Exchanging, TypeOK
    <3>2. Stale'
      BY <1>i, <1>u, <1>1, <3>1 DEF Stale
    <3>3. Sending'
      BY <1>i, <1>u, <1>1, <1>3, <1>4, <1>5, <2>2, <3>1 DEF Sending, Numbers, NumWriter, NumXfer,
           NumPort
    <3> QED
      BY <3>2, <3>3
  <2> QED
    BY <2>1, <2>2
<1>M. Sending'
  <2>1. CASE m.to = "DataPort"
    BY <1>i, <1>u, <1>1, <1>3, <1>4, <2>1 DEF Stale, Sending, Exchanging, Ports, Numbers,
         NumWriter, NumXfer, NumPort
  <2>2. CASE m.to # "DataPort"
    <3>1. m.to = port /\ Live /\ Len(toReader) = 0 /\ p.pend = <<>>
      BY <1>i, <1>3, <2>2 DEF Exchanging, TypeOK
    <3>2. Stale'
      BY <1>i, <1>u, <1>1, <3>1 DEF Stale
    <3>3. Sending'
      BY <1>i, <1>u, <1>1, <1>3, <1>4, <1>5, <2>2, <3>1 DEF Sending, Numbers, NumWriter, NumXfer,
           NumPort
    <3> QED
      BY <3>2, <3>3
  <2> QED
    BY <2>1, <2>2
<1>K. Exchanging'
  <2>1. CASE m.to = "DataPort"
    BY <1>i, <1>u, <1>1, <1>3, <1>4, <2>1 DEF OneToken, Exchanging, Numbers, NumWriter, NumXfer,
         NumPort
  <2>2. CASE m.to # "DataPort"
    <3>1. Unbroken(toReader, seq, 0)
      BY <1>3, <1>5, <2>2 DEF Unbroken
    <3> QED
      BY <1>i, <1>u, <1>1, <1>3, <1>4, <1>5, <2>2, <3>1 DEF Exchanging, Numbers, NumWriter,
           NumXfer, NumPort
  <2> QED
    BY <2>1, <2>2
<1>H. ReaderIdle' /\ ReaderRequest' /\ ReaderData' /\ ReaderAck'
  BY <1>i, <1>u, <1>1, <1>3, <1>4 DEF ReaderIdle, ReaderRequest, ReaderData,
     ReaderAck, OneToken, Ports, Numbers, NumReader
<1>J. ToReaderOK'
  BY <1>i, <1>u, <1>1, <1>3, <1>4 DEF ToReaderOK, OneToken, FromServer,
     FromWriter, Numbers, NumReader
<1>S. UNCHANGED Stream!vars
  BY <1>i, <1>u, <1>1, <1>3, <1>4 DEF Stream!vars, State
<1> QED
  BY <1>A, <1>B, <1>L, <1>C, <1>D, <1>F, <1>G, <1>M, <1>K, <1>H, <1>J, <1>S
     DEF Correct

(* The writer sends to a port its reader has left.                         *)
LEMMA WriteSendsAstrayCorrect ==
  ASSUME PipeInv, trouble = "no", WriteSends, xfer.to \in Ports, xfer.to # port
  PROVE  Correct
<1> USE SizeAssumption, NoneAssumption DEF Deep, Active, Live, Taken, TheWrite, TheClose
<1>i. TypeOK /\ Deep /\ Numbers
  BY NumbersAre DEF PipeInv
<1>u. UNCHANGED <<p, toServer, toWriter, toReader, toData, told, goal, rpc, want, res, seq,
                  err, port, given, eof, lost, left, stale, trouble>>
  BY <1>i DEF Delivering, WriteSends, reader, history, losses, TypeOK, Ports
<1>n. PICK n \in Int : n = Least(xfer.chunk, xfer.size - xfer.sent)
  BY <1>i DEF NumXfer, Least, Numbers
<1>1. /\ wpc = "send" /\ toServer = <<>> /\ p.writeReq = None
      /\ wpc' = IF xfer.sent + n = xfer.size THEN "confirm" ELSE "send"
  BY <1>i, <1>n DEF WriteSends, Asking
<1>2. Advanced(xfer', xfer, n)
  BY <1>n DEF WriteSends, Advanced
<1>b. xfer.seq <= xfer.sent /\ xfer.sent < xfer.size
  BY <1>i DEF Sending, WriteSends
<1>3. n \in 1 .. xfer.size - xfer.sent /\ xfer.seq < xfer.size /\ xfer.sent < xfer.size
  BY <1>i, <1>n, <1>b DEF Least, NumXfer, Numbers
<1>c. xfer \in Transfers /\ xfer.size \in 0 .. MaxSize
  BY <1>i DEF TypeOK, Transfers
<1>d4. n \in Nat /\ xfer.sent + n <= MaxSize /\ xfer.seq + 1 <= MaxSize
  BY <1>i, <1>3, <1>c DEF NumXfer, Numbers
<1>4. /\ xfer' \in Transfers /\ xfer'.to = xfer.to /\ xfer'.size = xfer.size
      /\ xfer'.chunk = xfer.chunk /\ xfer'.sent = xfer.sent + n /\ xfer'.seq = xfer.seq + 1
  BY <1>i, <1>2, <1>3, <1>c, <1>d4, NextChunk
<1>A. TypeOK'
  BY <1>i, <1>u, <1>1, <1>3, <1>4 DEF TypeOK
<1>B. NoWaitInVain'
  BY <1>i, <1>u, <1>1, <1>3, <1>4 DEF NoWaitInVain, PipeInv
<1>L. OnlyByLoss'
  BY <1>i, <1>u, <1>1, <1>3, <1>4 DEF OnlyByLoss, PipeInv
<1>C. Ordered' /\ Placed' /\ Untold'
  BY <1>i, <1>u, <1>1, <1>3, <1>4 DEF Ordered, Placed, Untold, Numbers,
     NumWriter, NumStream
<1>D. Resting' /\ Ending' /\ Asking' /\ OneToken'
  BY <1>i, <1>u, <1>1, <1>3, <1>4 DEF Resting, Ending, Asking, OneToken,
     Numbers, NumWriter
<1>F. Answered' /\ Delivering'
  BY <1>i, <1>u, <1>1, <1>3, <1>4 DEF Answered, Delivering, Ports, Answer,
     Numbers, NumWriter, NumStream
<1>G. Stale'
  BY <1>i, <1>u, <1>1, <1>3, <1>4 DEF Stale, Ports, Numbers, NumFlags
<1>M. Sending'
  <2>1. xfer.size \in 1 .. goal - told /\ xfer.sent <= xfer.size /\ xfer.seq <= xfer.sent
          /\ p.pend = <<>>
    BY <1>i, <1>1, <1>3 DEF Sending
  <2>2. /\ xfer.sent + n <= xfer.size /\ xfer.seq + 1 <= xfer.sent + n
        /\ ((wpc' = "send") <=> (xfer.sent + n < xfer.size))
    BY <1>i, <1>1, <1>3, <2>1 DEF Numbers, NumXfer
  <2>3. Live /\ xfer.to # port => rpc = "ack" /\ err = "sequence" /\ "data" \in lost
          /\ toReader = <<>>
    BY <1>i, <1>1 DEF Sending
  <2>4. xfer.seq + 1 # 0
    BY <1>i DEF Numbers, NumXfer
  <2> QED
    BY <1>u, <1>1, <1>4, <2>1, <2>2, <2>3, <2>4 DEF Sending
<1>K. Exchanging'
  BY <1>i, <1>u, <1>1, <1>3, <1>4 DEF Stale, Sending, Exchanging, Ports,
     Numbers, NumWriter
<1>H. ReaderIdle' /\ ReaderRequest' /\ ReaderData' /\ ReaderAck'
  BY <1>i, <1>u, <1>1, <1>3, <1>4 DEF ReaderIdle, ReaderRequest, ReaderData,
     ReaderAck, Numbers, NumReader
<1>J. ToReaderOK'
  BY <1>i, <1>u, <1>1, <1>3, <1>4 DEF ToReaderOK, FromServer, FromWriter,
     Sending, Numbers, NumReader
<1>S. UNCHANGED Stream!vars
  BY <1>i, <1>u, <1>1, <1>3, <1>4 DEF Stream!vars, State
<1> QED
  BY <1>A, <1>B, <1>L, <1>C, <1>D, <1>F, <1>G, <1>M, <1>K, <1>H, <1>J, <1>S
     DEF Correct

(* The writer sends to the server's own port.                              *)
LEMMA WriteSendsDeliversCorrect ==
  ASSUME PipeInv, trouble = "no", WriteSends, xfer.to = "DataPort"
  PROVE  Correct
<1> USE SizeAssumption, NoneAssumption DEF Deep, Active, Live, Taken, TheWrite, TheClose
<1>i. TypeOK /\ Deep /\ Numbers
  BY NumbersAre DEF PipeInv
<1>u. UNCHANGED <<p, toServer, toWriter, toReader, told, goal, rpc, want, res, seq, err, port,
                  given, eof, lost, left, stale, trouble>>
  BY <1>i DEF Delivering, WriteSends, reader, history, losses, TypeOK, Ports
<1>0. /\ p.data # None /\ p.data.size = xfer.size /\ xfer.chunk = xfer.size
      /\ xfer.sent = 0 /\ xfer.seq = 0 /\ toData = <<>>
  BY <1>i DEF Delivering, WriteSends, Ports, NumXfer, Numbers
<1>d. p.data \in Deliveries
  BY <1>i, <1>0 DEF TypeOK, PipeInfo
<1>n. PICK n \in Int : n = Least(xfer.chunk, xfer.size - xfer.sent)
  BY <1>i DEF NumXfer, Least, Numbers
<1>1. /\ wpc = "send" /\ toServer = <<>> /\ p.writeReq = None
      /\ wpc' = IF xfer.sent + n = xfer.size THEN "confirm" ELSE "send"
  BY <1>i, <1>n DEF WriteSends, Asking
<1>2. Advanced(xfer', xfer, n)
  BY <1>n DEF WriteSends, Advanced
<1>b. xfer.seq <= xfer.sent /\ xfer.sent < xfer.size
  BY <1>i, <1>0, <1>d DEF Deliveries
<1>3. n \in 1 .. xfer.size - xfer.sent /\ xfer.seq < xfer.size /\ xfer.sent < xfer.size
  BY <1>i, <1>n, <1>b DEF Least, NumXfer, Numbers
<1>c. xfer \in Transfers /\ xfer.size \in 0 .. MaxSize
  BY <1>i DEF TypeOK, Transfers
<1>d4. n \in Nat /\ xfer.sent + n <= MaxSize /\ xfer.seq + 1 <= MaxSize
  BY <1>i, <1>3, <1>c DEF NumXfer, Numbers
<1>4. /\ xfer' \in Transfers /\ xfer'.to = xfer.to /\ xfer'.size = xfer.size
      /\ xfer'.chunk = xfer.chunk /\ xfer'.sent = xfer.sent + n /\ xfer'.seq = xfer.seq + 1
  BY <1>i, <1>2, <1>3, <1>c, <1>d4, NextChunk
<1>p. p.data.size \in Nat /\ told + p.data.size <= Total /\ told \in Nat
  BY <1>i, <1>0, <1>d DEF Deliveries, Delivering, TypeOK, NumWriter, Numbers
<1>5. n = xfer.size /\ From(told, p.data.size) \in Bytes
  BY <1>i, <1>0, <1>n, <1>p, FromBytes DEF Least, NumXfer, Numbers
<1>7. told + xfer.sent = told /\ xfer.to \notin Ports
  BY <1>i, <1>0 DEF NumWriter, Ports, Numbers
<1>6. toData' = <<From(told, p.data.size)>>
  BY <1>i, <1>0, <1>n, <1>5, <1>7 DEF WriteSends
<1>A. TypeOK'
  BY <1>i, <1>u, <1>0, <1>1, <1>3, <1>4, <1>5, <1>6 DEF TypeOK
<1>B. NoWaitInVain'
  BY <1>i, <1>u, <1>0, <1>1, <1>3, <1>4, <1>5, <1>6 DEF NoWaitInVain, PipeInv
<1>L. OnlyByLoss'
  BY <1>i, <1>u, <1>0, <1>1, <1>3, <1>4, <1>5, <1>6 DEF OnlyByLoss, PipeInv
<1>C. Ordered' /\ Placed' /\ Untold'
  BY <1>i, <1>u, <1>0, <1>1, <1>3, <1>4, <1>5, <1>6 DEF Ordered, Placed,
     Untold, Numbers, NumWriter, NumStream
<1>D. Resting' /\ Ending' /\ Asking' /\ OneToken'
  BY <1>i, <1>u, <1>0, <1>1, <1>3, <1>4, <1>5, <1>6 DEF Resting, Ending,
     Asking, OneToken, Numbers, NumWriter
<1>F. Answered' /\ Delivering'
  BY <1>i, <1>u, <1>0, <1>1, <1>3, <1>4, <1>5, <1>6 DEF Answered, Delivering,
     Ports, Answer, OneToken, Numbers, NumWriter, NumStream
<1>G. Stale'
  BY <1>i, <1>u, <1>0, <1>1, <1>3, <1>4, <1>5, <1>6 DEF Stale, Ports,
     OneToken, Numbers, NumFlags
<1>M. Sending'
  BY <1>i, <1>u, <1>0, <1>1, <1>3, <1>4, <1>5, <1>6, <1>7 DEF Stale, Sending
<1>K. Exchanging'
  BY <1>i, <1>u, <1>0, <1>1, <1>3, <1>4, <1>5, <1>6 DEF Stale, Sending,
     Exchanging, Ports, OneToken, Numbers, NumWriter
<1>H. ReaderIdle' /\ ReaderRequest' /\ ReaderData' /\ ReaderAck'
  BY <1>i, <1>u, <1>0, <1>1, <1>3, <1>4, <1>5, <1>6 DEF ReaderIdle,
     ReaderRequest, ReaderData, ReaderAck, Numbers, NumReader
<1>J. ToReaderOK'
  BY <1>i, <1>u, <1>0, <1>1, <1>3, <1>4, <1>5, <1>6 DEF ToReaderOK,
     FromServer, FromWriter, OneToken, Numbers, NumReader
<1>S. UNCHANGED Stream!vars
  BY <1>i, <1>u, <1>0, <1>1, <1>3, <1>4, <1>5, <1>6 DEF Stream!vars, State
<1> QED
  BY <1>A, <1>B, <1>L, <1>C, <1>D, <1>F, <1>G, <1>M, <1>K, <1>H, <1>J, <1>S
     DEF Correct

(* The writer sends the next message to the reader.                        *)
LEMMA WriteSendsOnCorrect ==
  ASSUME PipeInv, trouble = "no", WriteSends, xfer.to = port
  PROVE  Correct
<1> USE SizeAssumption, NoneAssumption DEF Deep, Active, Live, Taken, TheWrite, TheClose
<1>i. TypeOK /\ Deep /\ Numbers
  BY NumbersAre DEF PipeInv
<1>u. UNCHANGED <<p, toServer, toWriter, toData, told, goal, rpc, want, res, seq, err, port,
                  given, eof, lost, left, stale, trouble>>
  BY <1>i DEF Delivering, WriteSends, reader, history, losses, TypeOK,
     NumPort, Numbers
<1>z. wpc = "send" /\ xfer.to \in Ports
  BY <1>i DEF WriteSends, NumPort, Numbers
<1>n. PICK n \in Int : n = Least(xfer.chunk, xfer.size - xfer.sent)
  BY <1>i DEF NumXfer, Least, Numbers
<1>1. /\ wpc = "send" /\ toServer = <<>> /\ p.writeReq = None
      /\ wpc' = IF xfer.sent + n = xfer.size THEN "confirm" ELSE "send"
  BY <1>i, <1>n DEF WriteSends, Asking
<1>2. Advanced(xfer', xfer, n)
  BY <1>n DEF WriteSends, Advanced
<1>b. xfer.seq <= xfer.sent /\ xfer.sent < xfer.size
  BY <1>i, <1>z DEF Sending, WriteSends
<1>3. n \in 1 .. xfer.size - xfer.sent /\ xfer.seq < xfer.size /\ xfer.sent < xfer.size
  BY <1>i, <1>n, <1>b DEF Least, NumXfer, Numbers
<1>c. xfer \in Transfers /\ xfer.size \in 0 .. MaxSize
  BY <1>i DEF TypeOK, Transfers
<1>d4. n \in Nat /\ xfer.sent + n <= MaxSize /\ xfer.seq + 1 <= MaxSize
  BY <1>i, <1>3, <1>c DEF NumXfer, Numbers
<1>4. /\ xfer' \in Transfers /\ xfer'.to = xfer.to /\ xfer'.size = xfer.size
      /\ xfer'.chunk = xfer.chunk /\ xfer'.sent = xfer.sent + n /\ xfer'.seq = xfer.seq + 1
  BY <1>i, <1>2, <1>3, <1>c, <1>d4, NextChunk
<1>0. /\ Live /\ rpc = "data" /\ p.readReq = None /\ p.pend = <<>> /\ Taken = told
      /\ xfer.size \in 1 .. goal - told /\ xfer.to \in Ports
  BY <1>i, <1>z, <1>1 DEF Sending, Exchanging
<1>r. /\ xfer.size <= want.size /\ res = From(told, Len(res)) /\ Len(res) < xfer.size
           /\ Len(res) <= xfer.sent
      /\ seq <= xfer.seq /\ (seq = xfer.seq => Len(res) = xfer.sent)
  BY <1>i, <1>z, <1>0 DEF Sending
<1>x. xfer.sent \in Nat /\ xfer.size \in Nat /\ xfer.seq \in Nat /\ n \in Nat
  BY <1>i, <1>3 DEF NumXfer, Numbers
<1>y. seq \in Nat /\ Len(res) \in Nat /\ Len(toReader) \in Nat
  BY <1>i DEF NumReader, Numbers
<1>t. told \in Nat /\ goal \in Nat /\ goal <= Total
  BY <1>i DEF NumWriter, TypeOK, Numbers
<1>p. PICK a : a = told + xfer.sent
  OBVIOUS
<1>b1. a \in Nat /\ a \in Int /\ n \in Nat /\ a + n <= Total /\ 1 \in 1 .. n
  BY <1>p, <1>0, <1>3, <1>x, <1>t
<1>b2. From(a, n) \in Bytes /\ Len(From(a, n)) = n /\ From(a, n)[1] = a + 1
  BY <1>b1, FromType, FromBytes
<1>m. PICK m : m = [kind |-> "data", bytes |-> From(a, n), seq |-> xfer.seq, last |-> xfer.sent + n = xfer.size]
  OBVIOUS
<1>5. toReader' = Append(toReader, m)
  BY <1>n, <1>m, <1>p, <1>i DEF WriteSends
<1>m1. m.kind = "data" /\ m.bytes = From(a, n) /\ m.seq = xfer.seq
         /\ (m.last <=> xfer.sent + n = xfer.size)
  BY <1>m
<1>m2. /\ First(m) = a /\ Len(m.bytes) = n /\ Past(m) = a + n
  BY <1>m1, <1>b1, <1>b2 DEF First, Past
<1>m3. xfer.seq \in 0 .. MaxSize
  BY <1>i, <1>c, <1>3 DEF NumXfer, Numbers
<1>6. m \in Answers
  BY <1>m, <1>b2, <1>m3 DEF Answers
<1>fw. FromWriter'
  <2>1. Chunks(toReader, told, Len(res), seq, xfer)
    <3>1. CASE toReader = <<>>
      BY <3>1 DEF Chunks
    <3>2. CASE toReader # <<>>
      BY <1>i, <1>0, <1>z, <3>2 DEF Sending, FromWriter
    <3> QED
      BY <3>1, <3>2
  <2>2. IsChunk(m, told, Len(res), seq, xfer')
    <3>1. told + Len(res) <= told + xfer.sent /\ a = told + xfer.sent
      BY <1>r, <1>x, <1>y, <1>t, <1>p
    <3>5. (xfer.sent + n = xfer.size) <=> (a + n = told + xfer.size)
      BY <1>x, <1>t, <3>1, SMTT(30)
    <3>2. a + n = told + xfer'.sent /\ (m.last <=> a + n = told + xfer'.size)
      <4>1. a + n = told + xfer'.sent
        BY <1>4, <1>x, <1>t, <3>1
      <4>2. m.last <=> a + n = told + xfer'.size
        BY <1>4, <1>m1, <3>5, Zenon
      <4> QED
        BY <4>1, <4>2
    <3>3. m.seq < xfer'.seq /\ seq <= m.seq /\ (seq = m.seq => a = told + Len(res))
      BY <1>4, <1>m1, <1>x, <1>y, <1>r, <3>1
    <3>4. m.bytes = From(First(m), Len(m.bytes)) /\ Len(m.bytes) >= 1
      BY <1>m1, <1>m2, <1>3
    <3> QED
      BY <3>1, <3>2, <3>3, <3>4, <1>m1, <1>m2 DEF IsChunk
  <2>3. XferNumbers(xfer) /\ XferNumbers(xfer')
    BY <1>x, <1>4 DEF XferNumbers
  <2>4. toReader \in Seq(Answers)
    BY <1>i DEF TypeOK
  <2>5. Chunks(toReader', told, Len(res), seq, xfer')
    <3>1. /\ xfer'.seq = xfer.seq + 1 /\ xfer'.sent >= xfer.sent /\ xfer'.size = xfer.size
          /\ m.seq = xfer.seq /\ First(m) = told + xfer.sent
      BY <1>4, <1>x, <1>m1, <1>m2, <1>p
    <3> QED
      BY <3>1, <2>1, <2>2, <2>3, <2>4, <1>5, <1>6, <1>t, <1>y, ChunksAppend
  <2> QED
    BY <1>u, <1>0, <1>1, <1>4, <2>5 DEF FromWriter
<1>A. TypeOK'
  BY <1>i, <1>u, <1>1, <1>3, <1>4, <1>0, <1>5, <1>6 DEF TypeOK
<1>B. NoWaitInVain'
  BY <1>i, <1>u, <1>1, <1>3, <1>4, <1>0, <1>5, <1>6 DEF NoWaitInVain, PipeInv
<1>L. OnlyByLoss'
  BY <1>i, <1>u, <1>1, <1>3, <1>4, <1>0, <1>5, <1>6 DEF OnlyByLoss, PipeInv
<1>C. Ordered' /\ Placed' /\ Untold'
  BY <1>i, <1>u, <1>1, <1>3, <1>4, <1>0, <1>5, <1>6 DEF Ordered, Placed,
     Untold, Numbers, NumWriter, NumStream
<1>D. Resting' /\ Ending' /\ Asking' /\ OneToken'
  BY <1>i, <1>u, <1>1, <1>3, <1>4, <1>0, <1>5, <1>6 DEF Resting, Ending,
     Asking, OneToken, Numbers, NumWriter
<1>F. Answered' /\ Delivering'
  BY <1>i, <1>u, <1>1, <1>3, <1>4, <1>0, <1>5, <1>6 DEF Answered, Delivering,
     Ports, Answer, Numbers, NumWriter, NumStream
<1>G. Stale'
  BY <1>i, <1>u, <1>1, <1>3, <1>4, <1>0, <1>5, <1>6 DEF Stale, Numbers,
     NumFlags
<1>M. Sending'
  <2>1. xfer.seq <= xfer.sent
    BY <1>i, <1>z DEF Sending
  <2>2. /\ xfer.sent + n <= xfer.size /\ xfer.seq + 1 <= xfer.sent + n
        /\ ((wpc' = "send") <=> (xfer.sent + n < xfer.size))
        /\ seq <= xfer.seq + 1 /\ seq # xfer.seq + 1 /\ Len(res) <= xfer.sent + n
    BY <1>1, <1>3, <1>r, <2>1, <1>x, <1>y, SMTT(30)
  <2> QED
    BY <1>u, <1>1, <1>4, <1>0, <1>r, <2>2, <1>fw, <1>x DEF Sending
<1>K. Exchanging'
  <2>1. "data" \notin lost => Unbroken(toReader, seq, xfer.seq)
    BY <1>i, <1>1, <1>0 DEF Exchanging
  <2>2. "data" \notin lost => Unbroken(toReader', seq, xfer.seq + 1)
    BY <1>5, <2>1, <1>m1, <1>6, <1>x, <1>y, <1>i, UnbrokenAppend DEF TypeOK
  <2>3. p.ackPos = told /\ toWriter = <<>>
    BY <1>i, <1>1, <1>0 DEF Exchanging
  <2> QED
    BY <1>u, <1>0, <1>1, <1>4, <2>2, <2>3, <1>fw DEF Exchanging
<1>H. ReaderIdle' /\ ReaderRequest' /\ ReaderData' /\ ReaderAck'
  BY <1>i, <1>u, <1>1, <1>3, <1>4, <1>0, <1>5, <1>6 DEF ReaderIdle,
     ReaderRequest, ReaderData, ReaderAck, Numbers, NumReader
<1>J. ToReaderOK'
  BY <1>i, <1>u, <1>1, <1>3, <1>4, <1>0, <1>5, <1>6, <1>fw DEF ToReaderOK,
     Numbers, NumReader
<1>S. UNCHANGED Stream!vars
  BY <1>i, <1>u, <1>1, <1>3, <1>4, <1>0, <1>5, <1>6 DEF Stream!vars, State
<1> QED
  BY <1>A, <1>B, <1>L, <1>C, <1>D, <1>F, <1>G, <1>M, <1>K, <1>H, <1>J, <1>S
     DEF Correct

(* The writer sends a message.                                             *)
LEMMA WriteSendsCorrect ==
  ASSUME PipeInv, trouble = "no", WriteSends
  PROVE  Correct
<1>1. wpc = "send" /\ xfer.to \in Places
  BY DEF WriteSends, PipeInv, TypeOK, Transfers
<1>2. xfer.to # "none"
  BY <1>1 DEF PipeInv, Deep, Delivering, Ports
<1>3. CASE xfer.to = "DataPort"
  BY <1>3, WriteSendsDeliversCorrect
<1>4. CASE xfer.to = port
  BY <1>4, WriteSendsOnCorrect
<1>5. CASE xfer.to \in Ports /\ xfer.to # port
  BY <1>5, WriteSendsAstrayCorrect
<1> QED
  BY <1>1, <1>2, <1>3, <1>4, <1>5 DEF Places

(* The writer is told that all that was taken is written.                  *)
LEMMA WrittenCorrect ==
  ASSUME PipeInv, trouble = "no", Active, ~Live, toServer = <<>>, p.writeReq = None,
         p.data = None, toWriter' = <<>>, wpc # "send", NEW n \in Nat,
         n >= 1, told + n = Taken, p.WritePos # told + n, Written(n), UNCHANGED trouble
  PROVE  Correct
<1> USE SizeAssumption, NoneAssumption DEF Deep, Active, Live, Taken, TheWrite, TheClose
<1>i. TypeOK /\ Deep /\ Numbers
  BY NumbersAre DEF PipeInv
<1>u. UNCHANGED <<p, toReader, toData, goal, rpc, want, res, seq, err, port, given, eof, lost,
                  left, stale, trouble>>
  BY DEF Written, reader, history, losses
<1>1. /\ told' = told + n /\ told' = Taken /\ Taken > told /\ told' \in Nat /\ xfer' = NoXfer
           /\ toWriter' = <<>>
      /\ wpc' = IF told + n < goal THEN "reply" ELSE "idle"
  BY <1>i DEF Written, Request, NumWriter, Numbers
<1>2. toServer' = IF told + n < goal THEN <<TheWrite>>' ELSE <<>>
  BY <1>i, <1>1 DEF Written, Request
<1>t. toServer' \in Seq(WriteReqs) /\ xfer' \in Transfers /\ told' \in 0 .. Total
        /\ goal \in told' .. Total
  <2>1. told' <= goal /\ goal - told' <= MaxSize /\ goal <= Total /\ told' \in Nat
          /\ goal \in Nat
    <3>1. goal - told <= MaxSize
      BY <1>i DEF Asking
    <3>2. Taken <= goal /\ goal <= Total
      BY <1>i DEF Ordered, TypeOK
    <3> QED
      BY <1>i, <1>1, <3>1, <3>2 DEF NumWriter, Numbers
  <2>2. NoXfer \in Transfers
    BY DEF NoXfer, Transfers, Places
  <2>3. ASSUME told' < goal PROVE TheWrite' \in WriteReqs
    <3>1. goal' = goal
      BY <1>u
    <3>2. [kind |-> "write", pos |-> told', size |-> goal - told'] \in WriteReqs
      BY <2>1, RequestType
    <3> QED
      BY <3>1, <3>2
  <2>4. told + n < goal => TheWrite' \in WriteReqs
    BY <2>3, <1>1
  <2>5. toServer' \in Seq(WriteReqs)
    BY <2>4, <1>2
  <2> QED
    BY <1>1, <2>1, <2>2, <2>5
<1>3. told' <= goal /\ goal - told' <= MaxSize /\ goal <= Total /\ p.WritePos # told'
  BY <1>i, <1>1 DEF Ordered, Asking, NumWriter, TypeOK, Numbers
<1>A. TypeOK'
  BY <1>i, <1>u, <1>1, <1>2, <1>3, <1>t DEF TypeOK
<1>B. NoWaitInVain'
  BY <1>i, <1>u, <1>1, <1>2, <1>3 DEF NoWaitInVain, PipeInv
<1>L. OnlyByLoss'
  BY <1>i, <1>u, <1>1, <1>2, <1>3 DEF OnlyByLoss, PipeInv
<1>C. Ordered' /\ Placed' /\ Untold'
  BY <1>i, <1>u, <1>1, <1>2, <1>3 DEF Ordered, Placed, Untold, PipeInfo,
     Numbers, NumWriter, NumStream
<1>D. Resting' /\ Ending' /\ Asking' /\ OneToken'
  <2>1. CASE told + n < goal
    <3>1. wpc' = "reply" /\ toServer' = <<TheWrite>>'
      BY <1>1, <1>2, <2>1
    <3>2. told' < goal'
      BY <1>u, <1>1, <2>1
    <3>3. wpc' # "closed" /\ Active' /\ goal' - told' <= MaxSize
      BY <1>u, <1>3, <3>1
    <3>4. p.open /\ ~eof
      BY <1>i DEF Ending
    <3>5. Resting' /\ Ending'
      BY <1>u, <3>3, <3>4 DEF Resting, Ending
    <3>6. Asking'
      BY <1>u, <1>1, <3>1, <3>2, <3>3 DEF Asking
    <3>7. OneToken'
      BY <1>u, <1>1 DEF OneToken
    <3> QED
      BY <3>5, <3>6, <3>7
  <2>2. CASE ~(told + n < goal)
    <3>1. told' = goal /\ toServer' = <<>> /\ wpc' = "idle"
      BY <1>i, <1>1, <1>2, <1>3, <2>2 DEF Numbers, NumWriter
    <3> QED
      BY <1>i, <1>u, <1>1, <3>1 DEF Resting, Ending, Asking, OneToken, Delivering
  <2> QED
    BY <2>1, <2>2
<1>F. Answered' /\ Delivering'
  BY <1>i, <1>u, <1>1, <1>2, <1>3 DEF Answered, Delivering, OneToken,
     Numbers, NumWriter, NumStream
<1>G. Stale'
  BY <1>i, <1>u, <1>1, <1>2, <1>3 DEF Stale, OneToken, NoXfer, Ports,
     NumStream, Ordered, NumWriter, Numbers, NumFlags
<1>M. Sending'
  BY <1>i, <1>u, <1>1, <1>2, <1>3 DEF Stale, Sending, NoXfer, Ports, Numbers,
     NumWriter, NumXfer, NumPort
<1>K. Exchanging'
  BY <1>i, <1>u, <1>1, <1>2, <1>3 DEF Stale, Sending, Exchanging, NoXfer,
     Ports, Numbers, NumWriter
<1>H. ReaderIdle' /\ ReaderRequest' /\ ReaderData' /\ ReaderAck'
  BY <1>i, <1>u, <1>1, <1>2, <1>3 DEF ReaderIdle, ReaderRequest, ReaderData,
     ReaderAck, Numbers, NumReader
<1>J. ToReaderOK'
  BY <1>i, <1>u, <1>1, <1>2, <1>3 DEF ToReaderOK, OneToken, FromServer,
     FromWriter, Numbers, NumReader
<1>S. Stream!Next
  BY <1>i, <1>u, <1>1, <1>2, <1>3, StreamTells DEF State, Ending, TypeOK
<1> QED
  BY <1>A, <1>B, <1>L, <1>C, <1>D, <1>F, <1>G, <1>M, <1>K, <1>H, <1>J, <1>S
     DEF Correct, Stream!Next

(* The writer asks again.                                                  *)
LEMMA RetryCorrect ==
  ASSUME PipeInv, trouble = "no", Active, toServer = <<>>, p.writeReq = None,
         p.data = None, toWriter' = <<>>, wpc # "send", (p.ack => stale'),
         stale' \in BOOLEAN, (stale' => p.ack /\ lost \cap {"sizes", "data"} # {}),
         (stale' /\ p.pend = <<>> => Taken = told),
         (Taken > told => "done" \in lost),
           (Live => toReader = <<>> /\ rpc # "ack" /\ ("data" \in lost \/ res = <<>>)), Retry
  PROVE  Correct
<1> USE SizeAssumption, NoneAssumption DEF Deep, Active, Live, Taken, TheWrite, TheClose
<1>i. TypeOK /\ Deep /\ Numbers
  BY NumbersAre DEF PipeInv
<1>u. UNCHANGED <<p, toReader, toData, told, goal, rpc, want, res, seq, err, port, given, eof,
                  lost, left, trouble>>
  BY DEF Retry, Request, reader, history, losses
<1>1. xfer' = NoXfer /\ wpc' = "reply" /\ toServer' = <<TheWrite>> /\ toWriter' = <<>>
  BY <1>i DEF Retry, Request
<1>2. told \in Nat /\ goal \in Nat /\ told <= goal /\ goal <= Total /\ goal - told <= MaxSize
  BY <1>i DEF Asking, NumWriter, TypeOK, Numbers
<1>3. TheWrite \in WriteReqs
  BY <1>2, RequestType
<1>4. NoXfer \in Transfers
  BY DEF NoXfer, Transfers, Places
<1>5. toServer' \in Seq(WriteReqs) /\ xfer' \in Transfers
  BY <1>1, <1>3, <1>4
<1>A. TypeOK'
  BY <1>i, <1>u, <1>1, <1>5 DEF TypeOK
<1>B. NoWaitInVain'
  BY <1>i, <1>u, <1>1, <1>5 DEF NoWaitInVain, PipeInv
<1>L. OnlyByLoss'
  BY <1>i, <1>u, <1>1, <1>5 DEF OnlyByLoss, PipeInv
<1>C. Ordered' /\ Placed' /\ Untold'
  BY <1>i, <1>u, <1>1, <1>5 DEF Ordered, Placed, Untold, PipeInfo, Numbers,
     NumWriter, NumStream
<1>D. Resting' /\ Ending' /\ Asking' /\ OneToken'
  BY <1>i, <1>u, <1>1, <1>5 DEF Resting, Ending, Asking, OneToken, Ending,
     Numbers, NumWriter
<1>F. Answered' /\ Delivering'
  BY <1>i, <1>u, <1>1, <1>5 DEF Answered, Delivering, OneToken, Numbers,
     NumWriter, NumStream
<1>G. Stale'
  BY <1>i, <1>u, <1>1, <1>5 DEF Stale, OneToken, NoXfer, Ports, Numbers,
     NumFlags
<1>M. Sending'
  BY <1>i, <1>u, <1>1, <1>5 DEF Stale, Sending, NoXfer, Ports, Numbers,
     NumWriter, NumXfer, NumPort
<1>K. Exchanging'
  BY <1>i, <1>u, <1>1, <1>5 DEF Stale, Sending, Exchanging, NoXfer, Ports,
     Numbers, NumWriter
<1>H. ReaderIdle' /\ ReaderRequest' /\ ReaderData' /\ ReaderAck'
  BY <1>i, <1>u, <1>1, <1>5 DEF ReaderIdle, ReaderRequest, ReaderData,
     ReaderAck, Numbers, NumReader
<1>J. ToReaderOK'
  BY <1>i, <1>u, <1>1, <1>5 DEF ToReaderOK, OneToken, FromServer, FromWriter,
     Numbers, NumReader
<1>S. UNCHANGED Stream!vars
  BY <1>i, <1>u, <1>1, <1>5 DEF Stream!vars, State
<1> QED
  BY <1>A, <1>B, <1>L, <1>C, <1>D, <1>F, <1>G, <1>M, <1>K, <1>H, <1>J, <1>S
     DEF Correct

(* The server tells the writer to try again.                               *)
LEMMA WriteTimesOutCorrect ==
  ASSUME PipeInv, trouble = "no", WriteTimesOut
  PROVE  Correct
<1>1. TypeOK /\ Deep
  BY DEF PipeInv
<1>2. /\ wpc = "reply" /\ toWriter # <<>> /\ Head(toWriter).kind = "timeout"
      /\ toWriter' = Tail(toWriter) /\ Retry /\ stale' = stale
  BY DEF WriteTimesOut, Gets
<1>3. toServer = <<>> /\ p.writeReq = None /\ p.data = None /\ toWriter' = <<>> /\ Active
        /\ ~Live
  BY <1>1, <1>2, OneReply DEF Deep, OneToken
<1>4. /\ stale \in BOOLEAN /\ p.ack \in BOOLEAN
      /\ stale => p.ack /\ lost \cap {"sizes", "data"} # {}
      /\ stale /\ p.pend = <<>> => Taken = told
  BY <1>1, NumbersAre DEF Deep, Stale, Numbers, NumFlags
<1>5. Taken > told => "done" \in lost
  BY <1>1, <1>2 DEF Deep, Untold
<1> QED
  BY <1>2, <1>3, <1>4, <1>5, RetryCorrect DEF Live

(* The writer's GetMsg() times out: something was lost.                    *)
LEMMA WriteGivesUpCorrect ==
  ASSUME PipeInv, trouble = "no", WriteGivesUp
  PROVE  Correct
<1>1. TypeOK /\ Deep /\ Numbers
  BY NumbersAre DEF PipeInv
<1>2. /\ wpc \in {"reply", "confirm"} /\ toServer = <<>> /\ toWriter = <<>>
      /\ p.writeReq = None /\ p.data = None /\ Retry /\ stale' = p.ack /\ toWriter' = toWriter
      /\ p.ack => toReader = <<>> /\ rpc # "ack"
  BY DEF WriteGivesUp
<1>3. /\ stale \in BOOLEAN /\ p.ack \in BOOLEAN
      /\ stale => p.ack /\ lost \cap {"sizes", "data"} # {}
      /\ stale /\ p.pend = <<>> => Taken = told
  BY <1>1 DEF Deep, Stale, Numbers, NumFlags
<1>4. ASSUME Live, "data" \notin lost
      PROVE  "sizes" \in lost /\ res = <<>>
  <2>1. ASSUME wpc = "confirm" PROVE FALSE
    <3>1. xfer.to = port /\ rpc = "data" /\ xfer.to \in Ports
            /\ Unbroken(toReader, seq, xfer.seq)
      BY <1>1, <1>2, <1>4, <2>1 DEF Deep, Exchanging, Live
    <3>2. seq = xfer.seq
      BY <1>1, <1>2, <1>4, <3>1 DEF Unbroken, Live, Numbers, NumReader, NumXfer
    <3>3. Len(res) = xfer.sent /\ Len(res) < xfer.size /\ ~(xfer.sent < xfer.size)
      BY <1>1, <1>4, <2>1, <3>1, <3>2 DEF Deep, Sending
    <3> QED
      BY <3>3
  <2>2. wpc = "reply" /\ rpc # "ack" /\ toReader = <<>>
    BY <1>2, <1>4, <2>1 DEF Live
  <2>3. "sizes" \in lost
    BY <1>1, <1>2, <1>4, <2>2 DEF Deep, Exchanging
  <2>4. res = <<>>
    BY <1>1, <1>4, <2>2 DEF Deep, ReaderIdle, ReaderRequest, ReaderData, TypeOK
  <2> QED
    BY <2>3, <2>4
<1>5. Active
  BY <1>2 DEF Active
<1>6. Live => Taken = told
  BY <1>1 DEF Deep, Exchanging
<1>7. p.ack => lost \cap {"sizes", "data"} # {}
  BY <1>3, <1>4 DEF Live
<1>8. p.ack /\ p.pend = <<>> => Taken = told
  BY <1>3, <1>6 DEF Live
<1>9. Live => toReader = <<>> /\ rpc # "ack" /\ ("data" \in lost \/ res = <<>>)
  BY <1>2, <1>4 DEF Live
<1>10. toWriter' = <<>> /\ wpc # "send"
  BY <1>2
<1>11. Taken > told => "done" \in lost
  BY <1>1, <1>2 DEF Deep, Untold
<1> QED
  BY <1>2, <1>3, <1>5, <1>11, <1>7, <1>8, <1>9, <1>10, RetryCorrect

(* The server confirms the transfer, or says it failed.                    *)
LEMMA WriteConfirmedCorrect ==
  ASSUME PipeInv, trouble = "no", WriteConfirmed
  PROVE  Correct
<1>1. TypeOK /\ Deep /\ Numbers
  BY NumbersAre DEF PipeInv
<1>2. PICK m \in Replies : m = Head(toWriter) /\ Answer(m)
  BY OneReply DEF WriteConfirmed, Gets
<1>3. /\ wpc = "confirm" /\ toWriter # <<>> /\ m.kind = "done" /\ toWriter' = Tail(toWriter)
      /\ \/ m.n = xfer.sent /\ Written(m.n) /\ UNCHANGED trouble
         \/ m.n # xfer.sent /\ Retry /\ UNCHANGED stale
  BY <1>2 DEF WriteConfirmed, Gets
<1>4. /\ toServer = <<>> /\ p.writeReq = None /\ p.data = None /\ toWriter' = <<>> /\ Active
           /\ ~Live
      /\ wpc # "send"
  BY <1>1, <1>2, <1>3, OneReply DEF Deep, OneToken
<1>5. CASE m.n = xfer.sent
  <2>1. m.n \in Nat /\ m.n = Taken - told /\ m.n >= 1
    BY <1>1, <1>2, <1>3, <1>5 DEF Answer, Numbers, NumXfer
  <2>2. told + m.n = Taken /\ Taken > told
    BY <1>1, <2>1 DEF Numbers, NumWriter, NumStream, Taken
  <2>3. p.WritePos # told + m.n
    BY <1>1, <2>1, <2>2 DEF Deep, Placed, Numbers, NumWriter
  <2> QED
    BY <1>3, <1>4, <1>5, <2>1, <2>2, <2>3, WrittenCorrect
<1>6. CASE m.n # xfer.sent
  <2>1. /\ stale \in BOOLEAN /\ p.ack \in BOOLEAN
        /\ stale => p.ack /\ lost \cap {"sizes", "data"} # {}
        /\ stale /\ p.pend = <<>> => Taken = told
    BY <1>1 DEF Deep, Stale, Numbers, NumFlags
  <2>2. m.n = -1
    BY <1>2, <1>3, <1>6 DEF Answer
  <2>3. Taken > told => "done" \in lost
    BY <1>1, <1>2, <2>2 DEF Deep, Untold
  <2> QED
    BY <1>3, <1>4, <1>6, <2>1, <2>3, RetryCorrect DEF Live
<1> QED
  BY <1>5, <1>6

(* The first reply ends the write, for good or ill.                        *)
LEMMA WriteDoneCorrect ==
  ASSUME PipeInv, trouble = "no", WriteDone
  PROVE  Correct
<1>1. TypeOK /\ Deep /\ Numbers
  BY NumbersAre DEF PipeInv
<1>2. PICK m \in Replies : m = Head(toWriter) /\ Answer(m)
  BY OneReply DEF WriteDone, Gets
<1>3. /\ wpc = "reply" /\ toWriter # <<>> /\ m.kind \in {"done", "already"}
      /\ toWriter' = Tail(toWriter)
  BY <1>2 DEF WriteDone, Gets
<1>4. /\ toServer = <<>> /\ p.writeReq = None /\ p.data = None /\ toWriter' = <<>> /\ Active
           /\ ~Live
      /\ wpc # "send"
  BY <1>1, <1>2, <1>3, OneReply DEF Deep, OneToken
<1>7. m.n \in Int
  BY SizeAssumption DEF Replies
<1>5. CASE m.n >= 0
  <2>1. Written(m.n) /\ UNCHANGED trouble
    BY <1>2, <1>5, <1>7 DEF WriteDone
  <2>2. m.n \in Nat
    BY <1>5 DEF Replies
  <2>3. told + m.n = Taken /\ m.n >= 1
    <3>1. m.n # -1
      BY <1>5
    <3>2. CASE m.kind = "done"
      <4>1. m.n = Taken - told /\ m.n >= 1
        BY <1>2, <3>1, <3>2 DEF Answer
      <4> QED
        BY <4>1, <1>1 DEF Numbers, NumWriter, NumStream, Taken
    <3>3. CASE m.kind = "already"
      <4>1. m.n = goal - told /\ Taken = goal
        BY <1>2, <3>3 DEF Answer
      <4>2. told < goal
        BY <1>1, <1>4 DEF Deep, Asking
      <4> QED
        BY <4>1, <4>2, <1>1 DEF Numbers, NumWriter
    <3> QED
      BY <1>3, <3>2, <3>3
  <2>4. Taken > told
    BY <1>1, <2>2, <2>3 DEF Numbers, NumWriter
  <2>5. p.WritePos # told + m.n
    BY <1>1, <2>2, <2>3, <2>4 DEF Deep, Placed, Numbers, NumWriter
  <2> QED
    BY <1>4, <2>1, <2>2, <2>3, <2>5, WrittenCorrect
<1>6. CASE ~(m.n >= 0)
  <2>1. /\ trouble' = "wild"
        /\ UNCHANGED <<p, writer, reader, toServer, toReader, toData, given, eof, stale,
                       losses>>
    BY <1>2, <1>6 DEF WriteDone
  <2>2. "sizes" \in lost
    <3>1. m.kind # "already"
      <4>1. m.kind = "already" => m.n = goal - told /\ told < goal
        BY <1>1, <1>2, <1>4 DEF Answer, Deep, Asking
      <4> QED
        BY <4>1, <1>6, <1>1 DEF Numbers, NumWriter
    <3>2. ~(m.n = Taken - told /\ m.n >= 1)
      BY <1>6, <1>7
    <3> QED
      BY <1>2, <1>3, <3>1, <3>2 DEF Answer
  <2>3. TypeOK' /\ NoWaitInVain'
    BY <1>1, <1>4, <2>1 DEF TypeOK, PipeInv, NoWaitInVain, writer, reader, losses
  <2>4. OnlyByLoss'
    BY <2>1, <2>2 DEF OnlyByLoss, losses
  <2>5. Stream!Next
    BY <2>1, StreamBreaks
  <2> QED
    BY <2>1, <2>3, <2>4, <2>5 DEF Correct
<1> QED
  BY <1>5, <1>6

----------------------------------------------------------------------------
(* The server.                                                             *)

(* The server closes the pipe.                                             *)
LEMMA ServeCloseCorrect ==
  ASSUME PipeInv, trouble = "no", ServeClose
  PROVE  Correct
<1> USE SizeAssumption, NoneAssumption DEF Deep, Active, Live, Taken, TheWrite, TheClose
<1>i. TypeOK /\ Deep /\ Numbers
  BY NumbersAre DEF PipeInv
<1>u. UNCHANGED <<toData, wpc, told, goal, xfer, rpc, want, res, seq, err, port, given, eof,
                  lost, left, stale, trouble>>
  BY DEF ServeClose, writer, reader, history, losses
<1>0. toServer # <<>> /\ Head(toServer).kind = "close" /\ toServer' = Tail(toServer)
        /\ p.data = None
      /\ Serve(DoPipeClose(p))
  BY DEF ServeClose, Idle
<1>1. wpc = "closed" /\ toServer = <<TheClose>> /\ p.open /\ toServer' = <<>> /\ toWriter = <<>>
  BY <1>i, <1>0 DEF Asking, Resting
<1>w. p.writeReq = None
  BY <1>i, <1>1 DEF Resting
<1>2. /\ p' = [p EXCEPT !.open = FALSE, !.readReq = None, !.writeReq = None]
      /\ toReader' = toReader \o (IF p.readReq # None THEN <<ToReader("eof", <<>>)>> ELSE <<>>)
      /\ toWriter' = toWriter \o <<>>
  BY <1>0, <1>w DEF DoPipeClose, Serve, Out
<1>e. PICK e : e = [kind |-> "eof", bytes |-> <<>>, seq |-> 0, last |-> TRUE]
  OBVIOUS
<1>e1. e \in Answers /\ e.kind = "eof" /\ e.seq = 0
  BY <1>e DEF Answers, Bytes
<1>3. /\ p' \in PipeInfo /\ ~p'.open /\ p'.readReq = None
      /\ p'.writeReq = p.writeReq /\ p'.data = p.data /\ p'.pend = p.pend /\ p'.got = p.got
           /\ p'.max = p.max /\ p'.ack = p.ack /\ p'.ackPos = p.ackPos
                /\ p'.WritePos = p.WritePos
  BY <1>i, <1>w, <1>2 DEF TypeOK, PipeInfo
<1>4. p.readReq # None => rpc = "data" /\ toReader = <<>> /\ res = <<>> /\ seq = 0
        /\ p.pend = <<>>
  BY <1>i DEF TypeOK, ReaderIdle, ReaderRequest, ReaderData, ReaderAck,
     NoWaitInVain, PipeInv
<1>q. toReader \in Seq(Answers) /\ toWriter \in Seq(Replies)
  BY <1>i DEF TypeOK
<1>5. /\ toReader' = IF p.readReq # None THEN <<e>> ELSE toReader
      /\ toWriter' = <<>>
  BY <1>2, <1>e, <1>4, <1>1, <1>q, NothingJoined DEF ToReader
<1>A. TypeOK'
  BY <1>i, <1>u, <1>1, <1>e1, <1>3, <1>4, <1>5 DEF TypeOK
<1>B. NoWaitInVain'
  BY <1>i, <1>u, <1>1, <1>e1, <1>3, <1>4, <1>5 DEF NoWaitInVain, PipeInv
<1>L. OnlyByLoss'
  BY <1>i, <1>u, <1>1, <1>e1, <1>3, <1>4, <1>5 DEF OnlyByLoss, PipeInv
<1>C. Ordered' /\ Placed' /\ Untold'
  BY <1>i, <1>u, <1>1, <1>e1, <1>3, <1>4, <1>5 DEF Ordered, Placed, Untold,
     PipeInfo, Numbers, NumWriter, NumStream
<1>D. Resting' /\ Ending' /\ Asking' /\ OneToken'
  BY <1>i, <1>u, <1>1, <1>e1, <1>3, <1>4, <1>5 DEF Resting, Ending, Asking,
     OneToken, Numbers, NumWriter
<1>F. Answered' /\ Delivering'
  BY <1>i, <1>u, <1>1, <1>e1, <1>3, <1>4, <1>5 DEF Answered, Delivering,
     OneToken, Numbers, NumWriter, NumStream
<1>G. Stale'
  BY <1>i, <1>u, <1>1, <1>e1, <1>3, <1>4, <1>5 DEF Stale, OneToken, NoXfer,
     Ports, Numbers, NumFlags
<1>M. Sending'
  BY <1>i, <1>u, <1>1, <1>e1, <1>3, <1>4, <1>5 DEF Stale, Sending, Resting,
     NoXfer, Ports, Numbers, NumWriter, NumXfer, NumPort
<1>K. Exchanging'
  BY <1>i, <1>u, <1>1, <1>e1, <1>3, <1>4, <1>5 DEF Stale, Sending,
     Exchanging, Resting, NoXfer, Ports, Numbers, NumWriter
<1>H. ReaderIdle' /\ ReaderRequest' /\ ReaderData' /\ ReaderAck'
  BY <1>i, <1>u, <1>1, <1>e1, <1>3, <1>4, <1>5 DEF ReaderIdle, ReaderRequest,
     ReaderData, ReaderAck, Numbers, NumReader
<1>J. ToReaderOK'
  BY <1>i, <1>u, <1>1, <1>e1, <1>3, <1>4, <1>5 DEF ToReaderOK, Resting,
     OneToken, FromServer, FromWriter, Numbers, NumReader
<1>S. UNCHANGED Stream!vars
  BY <1>i, <1>u, <1>1, <1>e1, <1>3, <1>4, <1>5 DEF Stream!vars, State
<1> QED
  BY <1>A, <1>B, <1>L, <1>C, <1>D, <1>F, <1>G, <1>M, <1>K, <1>H, <1>J, <1>S
     DEF Correct

(* The delivery the server waited for comes in.                            *)
LEMMA ServeDataCorrect ==
  ASSUME PipeInv, trouble = "no", ServeData
  PROVE  Correct
<1> USE SizeAssumption, NoneAssumption DEF Deep, Active, Live, Taken, TheWrite, TheClose
<1>i. TypeOK /\ Deep /\ Numbers
  BY NumbersAre DEF PipeInv
<1>u. UNCHANGED <<toServer, wpc, told, goal, xfer, rpc, want, res, seq, err, port, given, eof,
                  lost, left, stale, trouble>>
  BY DEF ServeData, writer, reader, history, losses
<1>0. p.data # None /\ toData # <<>> /\ toData' = Tail(toData)
      /\ Serve(Out(Store([p EXCEPT !.data = None], p.data.pos, Head(toData)), <<Reply("done", Len(Head(toData)))>>, <<>>))
  BY DEF ServeData, Idle
<1>1. /\ wpc = "confirm" /\ p.data.pos = told /\ Taken = told /\ p.data.size <= goal - told
           /\ p.got + p.data.size <= p.max
      /\ xfer.sent = xfer.size /\ xfer.size = p.data.size
           /\ toData = <<From(told, p.data.size)>>
      /\ xfer.to = "DataPort" /\ ~Live /\ p.readReq = None /\ p.data # None
  BY <1>i, <1>0 DEF Delivering, Resting, OneToken
<1>dd. p.data \in Deliveries
  BY <1>i, <1>0 DEF TypeOK, PipeInfo
<1>n. PICK n : n = p.data.size
  OBVIOUS
<1>2. n \in 1 .. MaxSize /\ n \in Nat /\ n >= 1 /\ told \in Nat /\ told + n <= goal
        /\ goal <= Total /\ xfer.sent = n
  BY <1>i, <1>dd, <1>n, <1>1 DEF Deliveries, NumWriter, TypeOK, Numbers
<1>by. PICK b : b = From(told, n)
  OBVIOUS
<1>b0. told + n <= Total /\ told \in Int /\ told \in Nat /\ n \in Nat
  BY <1>i, <1>2 DEF NumWriter, Numbers
<1>b1. From(told, n) \in Bytes /\ Len(From(told, n)) = n
  BY <1>b0, FromBytes, FromType
<1>3. b \in Bytes /\ Len(b) = n
  BY <1>by, <1>b1
<1>4. toData' = <<>> /\ Head(toData) = b
  BY <1>0, <1>1, <1>n, <1>by
<1>5. /\ p' = [[p EXCEPT !.data = None] EXCEPT !.pend = @ \o b, !.got = @ + n, !.WritePos = told]
      /\ toWriter' = toWriter \o <<Reply("done", n)>> /\ toReader' = toReader \o <<>>
  BY <1>0, <1>1, <1>3, <1>4 DEF Serve, Out, Store
<1>w. toWriter = <<>>
  BY <1>i, <1>1 DEF OneToken, Answered, Answer
<1>e0. b # <<>>
  BY <1>2, <1>3
<1>6. p.pend \o b \in Bytes /\ Len(p.pend \o b) = Len(p.pend) + n /\ p.pend \o b # <<>>
  BY <1>i, <1>3, <1>e0, Joined DEF TypeOK, PipeInfo
<1>q. p.got + n \in Nat /\ told \in 0 .. Total
  BY <1>i, <1>2 DEF NumBuffer, TypeOK, Numbers
<1>7. /\ p' \in PipeInfo /\ p'.pend = p.pend \o b /\ p'.got = p.got + n /\ p'.WritePos = told
           /\ p'.data = None
      /\ p'.readReq = p.readReq /\ p'.writeReq = p.writeReq /\ p'.max = p.max
           /\ p'.open = p.open /\ p'.ack = p.ack /\ p'.ackPos = p.ackPos
      /\ p'.pend # <<>> /\ Len(p'.pend) = Len(p.pend) + n
  BY <1>i, <1>5, <1>6, <1>q DEF TypeOK, PipeInfo
<1>r. Reply("done", n) \in Replies /\ Reply("done", n).kind = "done" /\ Reply("done", n).n = n
  BY <1>2 DEF Reply, Replies, Places
<1>p. PICK r : r = Reply("done", n)
  OBVIOUS
<1>8. r \in Replies /\ r.kind = "done" /\ r.n = n
  BY <1>r, <1>p
<1>ss. toReader \in Seq(Answers) /\ <<r>> \in Seq(Replies)
  BY <1>i, <1>8 DEF TypeOK
<1>k0. given' = given /\ Len(p'.pend) = Len(p.pend) + n /\ Len(given) + Len(p.pend) = told
         /\ told + n <= goal
       /\ n >= 1 /\ n \in Nat /\ told \in Nat /\ goal \in Nat /\ Len(given) \in Nat
            /\ Len(p.pend) \in Nat
  BY <1>i, <1>u, <1>1, <1>2, <1>7 DEF NumStream, NumWriter, Numbers
<1>k1. /\ Taken' = Taken + n /\ n = Taken' - told /\ Taken' > told /\ Taken' <= goal
  BY <1>k0
<1>9. toWriter' = <<r>> /\ toReader' = toReader
  BY <1>5, <1>w, <1>p, <1>ss, NothingJoined
<1>A. TypeOK'
  BY <1>i, <1>u, <1>1, <1>2, <1>3, <1>4, <1>7, <1>8, <1>9 DEF TypeOK
<1>B. NoWaitInVain'
  <2>1. p.got \in Nat /\ Len(p.pend) \in Nat /\ Len(p.pend) <= p.got
    BY <1>i DEF NoWaitInVain, PipeInv, Numbers, NumBuffer, NumStream
  <2>2. Len(p'.pend) <= p'.got
    BY <1>2, <1>7, <2>1
  <2>3. p'.readReq = None /\ p'.writeReq = None
    BY <1>i, <1>1, <1>7 DEF Delivering, OneToken, Asking
  <2> QED
    BY <1>7, <2>2, <2>3 DEF NoWaitInVain
<1>L. OnlyByLoss'
  BY <1>i, <1>u, <1>1, <1>2, <1>3, <1>4, <1>7, <1>8, <1>9 DEF OnlyByLoss,
     PipeInv
<1>C. Ordered' /\ Placed' /\ Untold'
  <2>1. From(Len(given), Len(p.pend)) \o From(Len(given) + Len(p.pend), n) = From(Len(given), Len(p.pend) + n)
    <3>1. Len(given) \in Nat /\ Len(p.pend) \in Nat /\ n \in Nat
      BY <1>i, <1>2 DEF Numbers, NumStream
    <3> QED
      BY <3>1, FromConcat, ZenonT(60)
  <2>2. p'.pend = From(Len(given), Len(p'.pend))
    <3>1. told = Len(given) + Len(p.pend) /\ p.pend = From(Len(given), Len(p.pend))
      BY <1>i, <1>1 DEF Ordered
    <3> QED
      <4>1. p'.pend = p.pend \o From(told, n) /\ Len(p'.pend) = Len(p.pend) + n
        BY <1>7, <1>by
      <4> QED
        BY <4>1, <2>1, <3>1, Zenon
  <2> QED
    <3>1. Ordered'
      <4>1. told' = told /\ goal' = goal /\ given' = given
        BY <1>u
      <4>2. told <= Taken' /\ Taken' <= goal
        BY <1>k0, <1>k1
      <4>3. given = From(0, Len(given))
        BY <1>i DEF Ordered
      <4> QED
        BY <4>1, <4>2, <4>3, <2>2, Zenon DEF Ordered
    <3>2. p'.WritePos = told /\ told' = told
      BY <1>u, <1>7
    <3>3. Placed'
      BY <1>k0, <1>k1, <3>2 DEF Placed
    <3>4. Untold'
      BY <1>k0, <1>8, <1>9 DEF Untold
    <3> QED
      BY <3>1, <3>3, <3>4
<1>D. Resting' /\ Ending' /\ Asking' /\ OneToken'
  BY <1>i, <1>u, <1>1, <1>2, <1>3, <1>4, <1>7, <1>8, <1>9 DEF Resting,
     Ending, Asking, OneToken, Numbers, NumWriter
<1>F. Answered' /\ Delivering'
  <2>0. Answer(r)'
    <3>1. r.n = Taken' - told' /\ r.n >= 1 /\ r.n = xfer'.sent
      BY <1>u, <1>2, <1>8, <1>k0, <1>k1
    <3>2. r.kind = "done" /\ wpc' = "confirm"
      BY <1>u, <1>1, <1>8
    <3> QED
      BY <3>1, <3>2 DEF Answer
  <2>1. Answered'
    BY <2>0, <1>9 DEF Answered
  <2>2. Delivering'
    BY <1>i, <1>u, <1>1, <1>4, <1>7 DEF Delivering
  <2> QED
    BY <2>1, <2>2
<1>G. Stale'
  BY <1>i, <1>u, <1>1, <1>2, <1>3, <1>4, <1>7, <1>8, <1>9 DEF Stale,
     OneToken, NoXfer, Ports, Numbers, NumFlags
<1>M. Sending'
  BY <1>i, <1>u, <1>1, <1>2, <1>3, <1>4, <1>7, <1>8, <1>9 DEF Stale, Sending,
     Ports, Numbers, NumWriter, NumXfer, NumPort
<1>K. Exchanging'
  BY <1>i, <1>u, <1>1, <1>2, <1>3, <1>4, <1>7, <1>8, <1>9 DEF Stale, Sending,
     Exchanging, Ports, Numbers, NumWriter
<1>H. ReaderIdle' /\ ReaderRequest' /\ ReaderData' /\ ReaderAck'
  BY <1>i, <1>u, <1>1, <1>2, <1>3, <1>4, <1>7, <1>8, <1>9 DEF ReaderIdle,
     ReaderRequest, ReaderData, ReaderAck, Ending, NumStream, Numbers,
     NumReader
<1>J. ToReaderOK'
  BY <1>i, <1>u, <1>1, <1>2, <1>3, <1>4, <1>7, <1>8, <1>9 DEF ToReaderOK,
     OneToken, Ending, NumStream, FromServer, FromWriter, Numbers, NumReader
<1>S. Stream!Next \/ UNCHANGED Stream!vars
  BY <1>i, <1>u, <1>1, <1>2, <1>3, <1>4, <1>7, <1>8, <1>9, <1>A, <1>C,
     StreamCarries DEF State, NumStream
<1> QED
  BY <1>A, <1>B, <1>L, <1>C, <1>D, <1>F, <1>G, <1>M, <1>K, <1>H, <1>J, <1>S
     DEF Correct

(* It does not come in time.                                               *)
LEMMA DataTimesOutCorrect ==
  ASSUME PipeInv, trouble = "no", DataTimesOut
  PROVE  Correct
<1>1. TypeOK /\ Deep
  BY DEF PipeInv
<1>2. /\ p.data # None /\ toData = <<>> /\ toWriter = <<>> /\ wpc # "send"
           /\ trouble' = "garbage"
      /\ UNCHANGED <<p, writer, reader, network, given, eof, stale, losses>>
  BY DEF DataTimesOut, Idle
<1>3. wpc \in {"reply", "confirm"}
  BY <1>1, <1>2 DEF Deep, Resting, Active
<1>4. lost \cap {"sizes", "data"} # {}
  BY <1>1, <1>2, <1>3 DEF Deep, Delivering
<1>5. TypeOK' /\ NoWaitInVain'
  BY <1>1, <1>2 DEF TypeOK, PipeInv, NoWaitInVain, writer, reader, network, losses
<1>6. OnlyByLoss'
  BY <1>2, <1>4 DEF OnlyByLoss, losses
<1>7. Stream!Next
  BY <1>2, StreamBreaks
<1> QED
  BY <1>2, <1>5, <1>6, <1>7 DEF Correct

(* A read has waited for too long.                                         *)
LEMMA ReadReqTimesOutCorrect ==
  ASSUME PipeInv, trouble = "no", ReadReqTimesOut
  PROVE  Correct
<1> USE SizeAssumption, NoneAssumption DEF Deep, Active, Live, Taken, TheWrite, TheClose
<1>i. TypeOK /\ Deep /\ Numbers
  BY NumbersAre DEF PipeInv
<1>u. UNCHANGED <<toServer, toData, wpc, told, goal, xfer, rpc, want, res, seq, err, port,
                  given, eof, lost, left, stale, trouble>>
  BY DEF ReadReqTimesOut, writer, reader, history, losses
<1>0. /\ p.data = None /\ toServer = <<>> /\ toWriter = <<>> /\ toReader = <<>>
           /\ rpc \notin {"request", "ack"}
      /\ p.readReq # None
           /\ Serve(Out([p EXCEPT !.readReq = None], <<>>, <<ToReader("timeout", <<>>)>>))
  BY DEF ReadReqTimesOut, Silence, Idle
<1>1. /\ rpc = "data" /\ p.readReq # None /\ toServer = <<>> /\ toWriter = <<>>
           /\ toReader = <<>> /\ p.data = None
      /\ res = <<>> /\ seq = 0
  BY <1>i, <1>0 DEF ReaderIdle, ReaderData, TypeOK
<1>2. /\ p' = [p EXCEPT !.readReq = None]
      /\ toReader' = toReader \o <<ToReader("timeout", <<>>)>>
      /\ toWriter' = toWriter \o <<>>
  BY <1>0 DEF Serve, Out
<1>e. PICK e : e = [kind |-> "timeout", bytes |-> <<>>, seq |-> 0, last |-> TRUE]
  OBVIOUS
<1>e1. e \in Answers /\ e.kind = "timeout" /\ e.seq = 0
  BY <1>e DEF Answers, Bytes
<1>3. /\ p' \in PipeInfo /\ p'.readReq = None
      /\ p'.writeReq = p.writeReq /\ p'.data = p.data /\ p'.pend = p.pend /\ p'.got = p.got
           /\ p'.max = p.max /\ p'.open = p.open /\ p'.ack = p.ack /\ p'.ackPos = p.ackPos
                /\ p'.WritePos = p.WritePos
  BY <1>i, <1>2 DEF TypeOK, PipeInfo
<1>4. wpc = "send" => ~Live
  BY <1>i, <1>1 DEF Sending, Delivering
<1>q. toReader \in Seq(Answers) /\ toWriter \in Seq(Replies) /\ <<e>> \in Seq(Answers)
  BY <1>i, <1>e1 DEF TypeOK
<1>5. toReader' = <<e>> /\ toWriter' = <<>>
  BY <1>2, <1>e, <1>1, <1>q, NothingJoined DEF ToReader
<1>A. TypeOK'
  BY <1>i, <1>u, <1>1, <1>e1, <1>3, <1>4, <1>5 DEF TypeOK
<1>B. NoWaitInVain'
  BY <1>i, <1>u, <1>1, <1>e1, <1>3, <1>4, <1>5 DEF NoWaitInVain, PipeInv
<1>L. OnlyByLoss'
  BY <1>i, <1>u, <1>1, <1>e1, <1>3, <1>4, <1>5 DEF OnlyByLoss, PipeInv
<1>C. Ordered' /\ Placed' /\ Untold'
  BY <1>i, <1>u, <1>1, <1>e1, <1>3, <1>4, <1>5 DEF Ordered, Placed, Untold,
     PipeInfo, Numbers, NumWriter, NumStream
<1>D. Resting' /\ Ending' /\ Asking' /\ OneToken'
  BY <1>i, <1>u, <1>1, <1>e1, <1>3, <1>4, <1>5 DEF Resting, Ending, Asking,
     OneToken, Numbers, NumWriter
<1>F. Answered' /\ Delivering'
  BY <1>i, <1>u, <1>1, <1>e1, <1>3, <1>4, <1>5 DEF Answered, Delivering,
     OneToken, Numbers, NumWriter, NumStream
<1>G. Stale'
  BY <1>i, <1>u, <1>1, <1>e1, <1>3, <1>4, <1>5 DEF Stale, OneToken, NoXfer,
     Ports, Numbers, NumFlags
<1>M. Sending'
  BY <1>i, <1>u, <1>1, <1>e1, <1>3, <1>4, <1>5 DEF Stale, Sending, Resting,
     NoXfer, Ports, Numbers, NumWriter, NumXfer, NumPort
<1>K. Exchanging'
  BY <1>i, <1>u, <1>1, <1>e1, <1>3, <1>4, <1>5 DEF Stale, Sending,
     Exchanging, Resting, NoXfer, Ports, Numbers, NumWriter
<1>H. ReaderIdle' /\ ReaderRequest' /\ ReaderData' /\ ReaderAck'
  BY <1>i, <1>u, <1>1, <1>e1, <1>3, <1>4, <1>5 DEF ReaderIdle, ReaderRequest,
     ReaderData, ReaderAck, Numbers, NumReader
<1>J. ToReaderOK'
  BY <1>i, <1>u, <1>1, <1>e1, <1>3, <1>4, <1>5 DEF ToReaderOK, Resting,
     OneToken, FromServer, FromWriter, Numbers, NumReader
<1>S. UNCHANGED Stream!vars
  BY <1>i, <1>u, <1>1, <1>e1, <1>3, <1>4, <1>5 DEF Stream!vars, State
<1> QED
  BY <1>A, <1>B, <1>L, <1>C, <1>D, <1>F, <1>G, <1>M, <1>K, <1>H, <1>J, <1>S
     DEF Correct

(* A write has waited for too long.                                        *)
LEMMA WriteReqTimesOutCorrect ==
  ASSUME PipeInv, trouble = "no", WriteReqTimesOut
  PROVE  Correct
<1> USE SizeAssumption, NoneAssumption DEF Deep, Active, Live, Taken, TheWrite, TheClose
<1>i. TypeOK /\ Deep /\ Numbers
  BY NumbersAre DEF PipeInv
<1>u. UNCHANGED <<toServer, toData, wpc, told, goal, xfer, rpc, want, res, seq, err, port,
                  given, eof, lost, left, stale, trouble>>
  BY DEF WriteReqTimesOut, writer, reader, history, losses
<1>0. /\ p.data = None /\ toServer = <<>> /\ toWriter = <<>> /\ toReader = <<>>
      /\ p.writeReq # None
           /\ Serve(Out([p EXCEPT !.writeReq = None], <<Reply("timeout", 0)>>, <<>>))
  BY DEF WriteReqTimesOut, Silence, Idle
<1>1. /\ p.writeReq # None /\ toServer = <<>> /\ toWriter = <<>> /\ toReader = <<>>
           /\ p.data = None
      /\ wpc = "reply" /\ ~Live /\ Taken = told
  BY <1>i, <1>0 DEF OneToken, Asking, Resting
<1>2. /\ p' = [p EXCEPT !.writeReq = None]
      /\ toReader' = toReader \o <<>>
      /\ toWriter' = toWriter \o <<Reply("timeout", 0)>>
  BY <1>0 DEF Serve, Out
<1>e. PICK r : r = Reply("timeout", 0)
  OBVIOUS
<1>e2. 0 \in -1 .. MaxSize /\ "none" \in Places
  BY DEF Places
<1>e1. r \in Replies /\ r.kind = "timeout"
  BY <1>e, <1>e2 DEF Reply, Replies
<1>3. /\ p' \in PipeInfo /\ p'.writeReq = None
      /\ p'.readReq = p.readReq /\ p'.data = p.data /\ p'.pend = p.pend /\ p'.got = p.got
           /\ p'.max = p.max /\ p'.open = p.open /\ p'.ack = p.ack /\ p'.ackPos = p.ackPos
                /\ p'.WritePos = p.WritePos
  BY <1>i, <1>2 DEF TypeOK, PipeInfo
<1>q. toReader \in Seq(Answers) /\ toWriter \in Seq(Replies) /\ <<r>> \in Seq(Replies)
  BY <1>i, <1>e1 DEF TypeOK
<1>5. toWriter' = <<r>> /\ toReader' = <<>>
  BY <1>2, <1>e, <1>1, <1>q, NothingJoined
<1>A. TypeOK'
  BY <1>i, <1>u, <1>1, <1>e1, <1>3, <1>5 DEF TypeOK
<1>B. NoWaitInVain'
  BY <1>i, <1>u, <1>1, <1>e1, <1>3, <1>5 DEF NoWaitInVain, PipeInv
<1>L. OnlyByLoss'
  BY <1>i, <1>u, <1>1, <1>e1, <1>3, <1>5 DEF OnlyByLoss, PipeInv
<1>C. Ordered' /\ Placed' /\ Untold'
  BY <1>i, <1>u, <1>1, <1>e1, <1>3, <1>5 DEF Ordered, Placed, Untold,
     PipeInfo, Numbers, NumWriter, NumStream
<1>D. Resting' /\ Ending' /\ Asking' /\ OneToken'
  BY <1>i, <1>u, <1>1, <1>e1, <1>3, <1>5 DEF Resting, Ending, Asking,
     OneToken, Numbers, NumWriter
<1>F. Answered' /\ Delivering'
  BY <1>i, <1>u, <1>1, <1>e1, <1>3, <1>5 DEF Answered, Delivering, OneToken,
     Answer, Numbers, NumWriter, NumStream
<1>G. Stale'
  BY <1>i, <1>u, <1>1, <1>e1, <1>3, <1>5 DEF Stale, OneToken, NoXfer, Ports,
     Numbers, NumFlags
<1>M. Sending'
  BY <1>i, <1>u, <1>1, <1>e1, <1>3, <1>5 DEF Stale, Sending, Resting, NoXfer,
     Ports, Numbers, NumWriter, NumXfer, NumPort
<1>K. Exchanging'
  BY <1>i, <1>u, <1>1, <1>e1, <1>3, <1>5 DEF Stale, Sending, Exchanging,
     Resting, NoXfer, Ports, Numbers, NumWriter
<1>H. ReaderIdle' /\ ReaderRequest' /\ ReaderData' /\ ReaderAck'
  BY <1>i, <1>u, <1>1, <1>e1, <1>3, <1>5 DEF ReaderIdle, ReaderRequest,
     ReaderData, ReaderAck, Numbers, NumReader
<1>J. ToReaderOK'
  BY <1>i, <1>u, <1>1, <1>e1, <1>3, <1>5 DEF ToReaderOK, Resting, OneToken,
     FromServer, FromWriter, Numbers, NumReader
<1>S. UNCHANGED Stream!vars
  BY <1>i, <1>u, <1>1, <1>e1, <1>3, <1>5 DEF Stream!vars, State
<1> QED
  BY <1>A, <1>B, <1>L, <1>C, <1>D, <1>F, <1>G, <1>M, <1>K, <1>H, <1>J, <1>S
     DEF Correct

----------------------------------------------------------------------------
(* The reader.                                                             *)

(* Read() is called.                                                       *)
LEMMA ReadCorrect ==
  ASSUME PipeInv, trouble = "no", NEW n \in 1 .. MaxSize, NEW w \in Timeouts,
         Read(n, w)
  PROVE  Correct
<1> USE SizeAssumption, NoneAssumption DEF Deep, Active, Live, Taken, TheWrite, TheClose
<1>i. TypeOK /\ Deep /\ Numbers
  BY NumbersAre DEF PipeInv
<1>u. UNCHANGED <<p, toServer, toWriter, toReader, toData, wpc, told, goal, xfer, port, given,
                  eof, lost, left, stale, trouble>>
  BY DEF Read, writer, network, history, losses
<1>1. /\ rpc = "idle" /\ rpc' = "request" /\ res' = <<>> /\ res = <<>> /\ seq' = 0 /\ seq = 0
           /\ err' = "none"
      /\ toReader = <<>> /\ p.readReq = None /\ ~p.ack /\ want' = [size |-> n, wait |-> w]
  BY <1>i DEF Read, AskAgain, ReaderIdle
<1>3. Len(res') = 0 /\ 0 <= n /\ n \in Nat
  BY <1>1
<1>2. want' \in Waits /\ want' # NoWant /\ res' \in Bytes /\ Len(res') <= want'.size
        /\ want'.size >= 1
  BY <1>1, <1>3 DEF Waits, NoWant, Bytes
<1>A. TypeOK'
  BY <1>i, <1>u, <1>1, <1>2 DEF TypeOK
<1>B. NoWaitInVain'
  BY <1>i, <1>u, <1>1, <1>2 DEF NoWaitInVain, PipeInv
<1>L. OnlyByLoss'
  BY <1>i, <1>u, <1>1, <1>2 DEF OnlyByLoss, PipeInv
<1>C. Ordered' /\ Placed' /\ Untold'
  BY <1>i, <1>u, <1>1, <1>2 DEF Ordered, Placed, Untold, Numbers, NumWriter,
     NumStream
<1>D. Resting' /\ Ending' /\ Asking' /\ OneToken'
  BY <1>i, <1>u, <1>1, <1>2 DEF Resting, Ending, Asking, OneToken, Numbers,
     NumWriter
<1>F. Answered' /\ Delivering'
  BY <1>i, <1>u, <1>1, <1>2 DEF Answered, Delivering, Answer, OneToken,
     Numbers, NumWriter, NumStream
<1>G. Stale'
  BY <1>i, <1>u, <1>1, <1>2 DEF Stale, Numbers, NumFlags
<1>M. Sending'
  BY <1>i, <1>u, <1>1, <1>2 DEF Stale, Sending, Numbers, NumWriter, NumXfer,
     NumPort
<1>K. Exchanging'
  BY <1>i, <1>u, <1>1, <1>2 DEF Stale, Sending, Exchanging, Numbers,
     NumWriter
<1>H. ReaderIdle' /\ ReaderRequest' /\ ReaderData' /\ ReaderAck'
  BY <1>i, <1>u, <1>1, <1>2 DEF ReaderIdle, ReaderRequest, ReaderData,
     ReaderAck, Numbers, NumReader
<1>J. ToReaderOK'
  BY <1>i, <1>u, <1>1, <1>2 DEF ToReaderOK, FromServer, FromWriter, Numbers,
     NumReader
<1>S. UNCHANGED Stream!vars
  BY <1>i, <1>u, <1>1, <1>2 DEF Stream!vars, State
<1> QED
  BY <1>A, <1>B, <1>L, <1>C, <1>D, <1>F, <1>G, <1>M, <1>K, <1>H, <1>J, <1>S
     DEF Correct

(* The reader sees a message missing.                                      *)
LEMMA ReadOutOfSequenceCorrect ==
  ASSUME PipeInv, trouble = "no", ReadOutOfSequence
  PROVE  Correct
<1> USE SizeAssumption, NoneAssumption DEF Deep, Active, Live, Taken, TheWrite, TheClose
<1>i. TypeOK /\ Deep /\ Numbers
  BY NumbersAre DEF PipeInv
<1>u. UNCHANGED <<p, toServer, toWriter, toData, wpc, told, goal, xfer, want, res, seq, given,
                  eof, lost, left, stale, trouble>>
  BY DEF ReadOutOfSequence, writer, history, losses
<1>0. /\ rpc = "data" /\ toReader # <<>> /\ toReader[1].seq # seq /\ toReader' = <<>>
           /\ rpc' = "ack" /\ err' = "sequence"
      /\ port' \in Ports \ {port} /\ 1 \in 1 .. Len(toReader) /\ Len(toReader) \in Nat
  BY <1>i, HeadOfReader DEF ReadOutOfSequence, Receives, NumReader, Numbers
<1>1. rpc = "data" /\ toReader # <<>> /\ toReader' = <<>> /\ rpc' = "ack" /\ err' = "sequence"
      /\ port' \in Ports /\ port' # port
  BY <1>0
<1>2. ~FromServer(toReader[1])
  BY <1>0, HeadOfReader, <1>i DEF FromServer, ReadOutOfSequence, Receives
<1>3. FromWriter /\ p.readReq = None
  BY <1>0, <1>2, <1>i DEF ToReaderOK
<1>4. Live /\ wpc \in {"send", "confirm"} /\ xfer.to = port /\ p.readReq = None
  BY <1>3 DEF FromWriter
<1>5. "data" \in lost
  BY <1>i, <1>0, <1>4 DEF Exchanging, Unbroken, NumReader, Numbers
<1>6. want # NoWant
  BY <1>i, <1>1 DEF ReaderData
<1>A. TypeOK'
  BY <1>i, <1>u, <1>1, <1>4, <1>5, <1>6 DEF TypeOK
<1>B. NoWaitInVain'
  BY <1>i, <1>u, <1>1, <1>4, <1>5, <1>6 DEF NoWaitInVain, PipeInv
<1>L. OnlyByLoss'
  BY <1>i, <1>u, <1>1, <1>4, <1>5, <1>6 DEF OnlyByLoss, PipeInv
<1>C. Ordered' /\ Placed' /\ Untold'
  BY <1>i, <1>u, <1>1, <1>4, <1>5, <1>6 DEF Ordered, Placed, Untold, Numbers,
     NumWriter, NumStream
<1>D. Resting' /\ Ending' /\ Asking' /\ OneToken'
  BY <1>i, <1>u, <1>1, <1>4, <1>5, <1>6 DEF Resting, Ending, Asking,
     OneToken, Numbers, NumWriter
<1>F. Answered' /\ Delivering'
  BY <1>i, <1>u, <1>1, <1>4, <1>5, <1>6 DEF Answered, Delivering, Answer,
     OneToken, Numbers, NumWriter, NumStream
<1>G. Stale'
  BY <1>i, <1>u, <1>1, <1>4, <1>5, <1>6 DEF Stale, Numbers, NumFlags
<1>M. Sending'
  BY <1>i, <1>u, <1>1, <1>4, <1>5, <1>6 DEF Stale, Sending
<1>K. Exchanging'
  BY <1>i, <1>u, <1>1, <1>4, <1>5, <1>6 DEF Stale, Sending, Exchanging,
     Numbers, NumWriter
<1>H. ReaderIdle' /\ ReaderRequest' /\ ReaderData' /\ ReaderAck'
  BY <1>i, <1>u, <1>1, <1>4, <1>5, <1>6 DEF ReaderIdle, ReaderRequest,
     ReaderData, ReaderAck, ReaderData, Numbers, NumReader
<1>J. ToReaderOK'
  BY <1>i, <1>u, <1>1, <1>4, <1>5, <1>6 DEF ToReaderOK, Numbers, NumReader
<1>S. UNCHANGED Stream!vars
  BY <1>i, <1>u, <1>1, <1>4, <1>5, <1>6 DEF Stream!vars, State
<1> QED
  BY <1>A, <1>B, <1>L, <1>C, <1>D, <1>F, <1>G, <1>M, <1>K, <1>H, <1>J, <1>S
     DEF Correct

(* The reader sees the end of file.                                        *)
LEMMA ReadEofCorrect ==
  ASSUME PipeInv, trouble = "no", ReadEof
  PROVE  Correct
<1> USE SizeAssumption, NoneAssumption DEF Deep, Active, Live, Taken, TheWrite, TheClose
<1>i. TypeOK /\ Deep /\ Numbers
  BY NumbersAre DEF PipeInv
<1>u. UNCHANGED <<p, toServer, toWriter, toData, wpc, told, goal, xfer, want, res, seq, port,
                  given, eof, lost, left, stale, trouble>>
  BY DEF ReadEof, writer, history, losses
<1>0. /\ rpc = "data" /\ toReader # <<>> /\ toReader[1].kind = "eof"
           /\ toReader' = Tail(toReader) /\ rpc' = "ack" /\ err' = "eof"
      /\ 1 \in 1 .. Len(toReader) /\ (Len(toReader) = 1 => Tail(toReader) = <<>>)
  BY <1>i, HeadOfReader DEF ReadEof, Receives
<1>2. ~FromWriter
  BY <1>0 DEF FromWriter, Chunks, IsChunk
<1>3. FromServer(toReader[1]) /\ p.readReq = None
  BY <1>0, <1>2, <1>i DEF ToReaderOK
<1>1. /\ rpc = "data" /\ toReader # <<>> /\ toReader' = <<>> /\ rpc' = "ack" /\ err' = "eof"
      /\ p.readReq = None /\ res = <<>> /\ ~p.open /\ p.pend = <<>> /\ wpc = "closed" /\ ~Live
  BY <1>i, <1>0, <1>3 DEF FromServer, Ending, Resting
<1>6. want # NoWant
  BY <1>i, <1>1 DEF ReaderData
<1>A. TypeOK'
  BY <1>i, <1>u, <1>1, <1>6 DEF TypeOK
<1>B. NoWaitInVain'
  BY <1>i, <1>u, <1>1, <1>6 DEF NoWaitInVain, PipeInv
<1>L. OnlyByLoss'
  BY <1>i, <1>u, <1>1, <1>6 DEF OnlyByLoss, PipeInv
<1>C. Ordered' /\ Placed' /\ Untold'
  BY <1>i, <1>u, <1>1, <1>6 DEF Ordered, Placed, Untold, Numbers, NumWriter,
     NumStream
<1>D. Resting' /\ Ending' /\ Asking' /\ OneToken'
  BY <1>i, <1>u, <1>1, <1>6 DEF Resting, Ending, Asking, OneToken, Numbers,
     NumWriter
<1>F. Answered' /\ Delivering'
  BY <1>i, <1>u, <1>1, <1>6 DEF Answered, Delivering, Answer, OneToken,
     Numbers, NumWriter, NumStream
<1>G. Stale'
  BY <1>i, <1>u, <1>1, <1>6 DEF Stale, Numbers, NumFlags
<1>M. Sending'
  BY <1>i, <1>u, <1>1, <1>6 DEF Stale, Sending, Numbers, NumWriter, NumXfer,
     NumPort
<1>K. Exchanging'
  BY <1>i, <1>u, <1>1, <1>6 DEF Stale, Sending, Exchanging, Numbers,
     NumWriter
<1>H. ReaderIdle' /\ ReaderRequest' /\ ReaderData' /\ ReaderAck'
  BY <1>i, <1>u, <1>1, <1>6 DEF ReaderIdle, ReaderRequest, ReaderData,
     ReaderAck, Numbers, NumReader
<1>J. ToReaderOK'
  BY <1>i, <1>u, <1>1, <1>6 DEF ToReaderOK, Numbers, NumReader
<1>S. UNCHANGED Stream!vars
  BY <1>i, <1>u, <1>1, <1>6 DEF Stream!vars, State
<1> QED
  BY <1>A, <1>B, <1>L, <1>C, <1>D, <1>F, <1>G, <1>M, <1>K, <1>H, <1>J, <1>S
     DEF Correct

(* The time of the reader is up.                                           *)
LEMMA ExpiresCorrect ==
  ASSUME PipeInv, trouble = "no", rpc = "data", p.readReq = None, toReader' = <<>>,
         (toWriter # <<>> /\ Head(toWriter).kind = "sizes" => Head(toWriter).to = "DataPort"),
         (wpc = "send" => ~Live), (res # <<>> => "data" \in lost),
         (Live /\ wpc = "reply" /\ toWriter = <<>> => "sizes" \in lost),
         (Live /\ wpc # "reply" => "data" \in lost), Expires
  PROVE  Correct
<1> USE SizeAssumption, NoneAssumption DEF Deep, Active, Live, Taken, TheWrite, TheClose
<1>i. TypeOK /\ Deep /\ Numbers
  BY NumbersAre DEF PipeInv
<1>u. UNCHANGED <<p, toServer, toWriter, toData, wpc, told, goal, xfer, want, port, given, eof,
                  lost, left, stale, trouble>>
  BY DEF Expires, writer, history, losses
<1>1. /\ rpc = "data" /\ p.readReq = None /\ toReader' = <<>> /\ want # NoWant /\ err = "none"
      /\ \/ rpc' = "request" /\ res' = <<>> /\ seq' = 0 /\ err' = "none"
         \/ rpc' = "ack" /\ res' = res /\ seq' = seq /\ err' = "timeout"
  BY <1>i DEF Expires, AskAgain, ReaderData
<1>pp. port \in Ports
  BY <1>i DEF NumPort, Numbers
<1>x. From(told, 0) = <<>> /\ Len(<<>>) = 0
  BY <1>i, FromEmpty DEF NumWriter, Numbers
<1>w0. want.size \in Nat /\ 0 \in 0 .. MaxSize /\ <<>> \in Bytes /\ Len(<<>>) = 0
         /\ 0 <= want.size
  BY <1>i DEF NumReader, Bytes, Numbers
<1>2. /\ res' \in Bytes /\ Len(res') <= want.size /\ seq' \in 0 .. MaxSize
      /\ res' # <<>> => "data" \in lost /\ rpc' = "ack"
  BY <1>i, <1>1, <1>w0 DEF TypeOK
<1>A. TypeOK'
  BY <1>i, <1>u, <1>1, <1>2 DEF TypeOK
<1>B. NoWaitInVain'
  BY <1>i, <1>u, <1>1, <1>2 DEF NoWaitInVain, PipeInv
<1>L. OnlyByLoss'
  BY <1>i, <1>u, <1>1, <1>2 DEF OnlyByLoss, PipeInv
<1>C. Ordered' /\ Placed' /\ Untold'
  BY <1>i, <1>u, <1>1, <1>2 DEF Ordered, Placed, Untold, Numbers, NumWriter,
     NumStream
<1>D. Resting' /\ Ending' /\ Asking' /\ OneToken'
  BY <1>i, <1>u, <1>1, <1>2 DEF Resting, Ending, Asking, OneToken, Numbers,
     NumWriter
<1>F. Answered' /\ Delivering'
  BY <1>i, <1>u, <1>1, <1>2 DEF Answered, Delivering, Answer, OneToken,
     NumPort, Numbers, NumWriter, NumStream
<1>G. Stale'
  BY <1>i, <1>u, <1>1, <1>2 DEF Stale, Numbers, NumFlags
<1>M. Sending'
  <2>1. ASSUME Live, rpc' = "request", xfer.to = port, wpc = "confirm"
        PROVE  /\ xfer.size <= want.size /\ res' = From(told, Len(res'))
                    /\ Len(res') < xfer.size /\ Len(res') <= xfer.sent
               /\ seq' <= xfer.seq /\ (seq' = xfer.seq => Len(res') = xfer.sent)
    <3>1. res' = <<>> /\ seq' = 0 /\ Len(res') = 0 /\ res' = From(told, 0)
      BY <1>1, <1>x, <2>1
    <3>2. xfer.size \in 1 .. goal - told /\ xfer.size <= want.size
            /\ (xfer.seq = 0 => xfer.sent = 0)
      BY <1>i, <1>1, <2>1, <1>pp DEF Sending
    <3> QED
      BY <3>1, <3>2, <1>i DEF Numbers, NumXfer
  <2> QED
    BY <1>i, <1>u, <1>1, <1>2, <2>1 DEF Sending
<1>K. Exchanging'
  BY <1>i, <1>u, <1>1, <1>2 DEF Stale, Sending, Exchanging
<1>H. ReaderIdle' /\ ReaderRequest' /\ ReaderData' /\ ReaderAck'
  BY <1>i, <1>u, <1>1, <1>2 DEF ReaderIdle, ReaderRequest, ReaderData,
     ReaderAck, Numbers, NumReader
<1>J. ToReaderOK'
  BY <1>i, <1>u, <1>1, <1>2 DEF ToReaderOK, Numbers, NumReader
<1>S. UNCHANGED Stream!vars
  BY <1>i, <1>u, <1>1, <1>2 DEF Stream!vars, State
<1> QED
  BY <1>A, <1>B, <1>L, <1>C, <1>D, <1>F, <1>G, <1>M, <1>K, <1>H, <1>J, <1>S
     DEF Correct

(* The server tells it so.                                                 *)
LEMMA ReadTimesOutCorrect ==
  ASSUME PipeInv, trouble = "no", ReadTimesOut
  PROVE  Correct
<1>1. TypeOK /\ Deep
  BY DEF PipeInv
<1>2. /\ rpc = "data" /\ toReader # <<>> /\ toReader[1].kind = "timeout"
           /\ toReader' = Tail(toReader) /\ Expires
      /\ 1 \in 1 .. Len(toReader) /\ (Len(toReader) = 1 => Tail(toReader) = <<>>)
  BY <1>1, HeadOfReader DEF ReadTimesOut, Receives
<1>3. ~FromWriter
  BY <1>2 DEF FromWriter, Chunks, IsChunk
<1>4. FromServer(toReader[1]) /\ p.readReq = None
  BY <1>1, <1>2, <1>3 DEF Deep, ToReaderOK
<1>5. toReader' = <<>> /\ res = <<>> /\ (wpc = "send" => ~Live)
  BY <1>2, <1>4 DEF FromServer
<1>6. /\ Live /\ wpc = "reply" /\ toWriter = <<>> => "sizes" \in lost
      /\ Live /\ wpc # "reply" => "data" \in lost
  BY <1>1, <1>2, <1>3 DEF Deep, Exchanging
<1>7. toWriter # <<>> /\ Head(toWriter).kind = "sizes" => Head(toWriter).to = "DataPort"
  BY <1>1, <1>2 DEF Deep, Answered, Answer
<1> QED
  BY <1>2, <1>4, <1>5, <1>6, <1>7, ExpiresCorrect

(* Or its own GetMsg().                                                    *)
LEMMA ReadGivesUpCorrect ==
  ASSUME PipeInv, trouble = "no", ReadGivesUp
  PROVE  Correct
<1>1. TypeOK /\ Deep /\ Numbers
  BY NumbersAre DEF PipeInv
<1>2. /\ rpc = "data" /\ toReader = <<>> /\ p.readReq = None /\ wpc # "send" /\ toReader' = <<>>
           /\ Expires
      /\ \A i \in 1 .. Len(toWriter) : toWriter[i].kind # "sizes"
  BY DEF ReadGivesUp
<1>3. ASSUME Live, "data" \notin lost, wpc = "confirm", xfer.to = port
      PROVE  FALSE
  <2>1. xfer.to \in Ports /\ Unbroken(toReader, seq, xfer.seq)
    BY <1>1, <1>2, <1>3 DEF Deep, Exchanging, Numbers, NumPort
  <2>2. seq = xfer.seq
    BY <1>1, <1>2, <2>1 DEF Unbroken, Numbers, NumReader, NumXfer
  <2>3. Len(res) = xfer.sent /\ Len(res) < xfer.size /\ ~(xfer.sent < xfer.size)
    BY <1>1, <1>2, <1>3, <2>1, <2>2 DEF Deep, Sending
  <2> QED
    BY <2>3
<1>4. Live /\ wpc # "reply" => "data" \in lost
  BY <1>1, <1>2, <1>3 DEF Deep, Exchanging, Active
<1>5. res # <<>> => "data" \in lost
  BY <1>1, <1>2, <1>3 DEF Deep, ReaderData
<1>6. Live /\ wpc = "reply" /\ toWriter = <<>> => "sizes" \in lost
  BY <1>1, <1>2 DEF Deep, Exchanging
<1>7. toWriter # <<>> => Head(toWriter).kind # "sizes"
  <2>1. ASSUME toWriter # <<>> PROVE 1 \in 1 .. Len(toWriter) /\ Head(toWriter) = toWriter[1]
    <3>1. toWriter \in Seq(Replies)
      BY <1>1 DEF TypeOK
    <3> QED
      BY <2>1, <3>1, EmptySeq
  <2> QED
    BY <1>2, <2>1
<1> QED
  BY <1>2, <1>4, <1>5, <1>6, <1>7, ExpiresCorrect

(* The reader gets data from the server.                                   *)
LEMMA ReadFromServerCorrect ==
  ASSUME PipeInv, trouble = "no", FromServer(toReader[1]), ReadData
  PROVE  Correct
<1> USE SizeAssumption, NoneAssumption DEF Deep, Active, Live, Taken, TheWrite, TheClose
<1>i. TypeOK /\ Deep /\ Numbers
  BY NumbersAre DEF PipeInv
<1>u. UNCHANGED <<p, toServer, toWriter, toData, wpc, told, goal, xfer, want, err, port, given,
                  eof, lost, left, stale, trouble>>
  BY DEF ReadData, writer, history, losses
<1>m. PICK m : m = toReader[1]
  OBVIOUS
<1>h. toReader # <<>> /\ rpc = "data" /\ Head(toReader) = m /\ m \in Answers
  BY <1>i, <1>m, HeadOfReader DEF ReadData, Receives
<1>0. /\ m.kind = "data" /\ m.seq = seq /\ toReader' = Tail(toReader) /\ res' = res \o m.bytes
           /\ seq' = seq + 1
      /\ rpc' = (IF m.last THEN "ack" ELSE "data") /\ p.readReq = None /\ want # NoWant
           /\ err = "none"
  BY <1>i, <1>h DEF ReadData, Receives, ReaderData, ToReaderOK
<1>1. /\ Len(toReader) = 1 /\ res = <<>> /\ seq = 0 /\ m.seq = 0 /\ m.last /\ toReader # <<>>
           /\ m.kind = "data"
      /\ m.bytes = From(Len(given), Len(m.bytes)) /\ Len(m.bytes) \in 1 .. want.size
  BY <1>m, <1>0, <1>h DEF FromServer
<1>by. m.bytes \in Bytes /\ Len(m.bytes) \in Nat
  BY <1>h DEF Answers, Bytes
<1>t. toReader' = <<>>
  BY <1>i, <1>0, <1>1, HeadOfReader
<1>v. res' = m.bytes
  BY <1>0, <1>1, <1>by, NothingJoined DEF Bytes
<1>z. want.size <= MaxSize /\ MaxSize \in Nat
  BY <1>i DEF TypeOK, Waits, NoWant
<1>2. /\ rpc = "data" /\ toReader # <<>> /\ toReader' = <<>> /\ rpc' = "ack" /\ p.readReq = None
           /\ want # NoWant /\ err = "none"
      /\ res' \in Bytes /\ res' # <<>> /\ Len(res') \in 1 .. want.size /\ seq' \in 0 .. MaxSize
      /\ res' = From(Len(given), Len(res'))
  BY <1>i, <1>h, <1>0, <1>1, <1>by, <1>t, <1>v, <1>z DEF NumReader, Numbers
<1>3. /\ Live => wpc = "reply" /\ toWriter = <<>> /\ Len(res') <= goal - told
      /\ ~Live => Len(res') <= Len(p.pend)
  BY <1>m, <1>0, <1>v DEF FromServer
<1>A. TypeOK'
  BY <1>i, <1>u, <1>2, <1>3 DEF TypeOK
<1>B. NoWaitInVain'
  BY <1>i, <1>u, <1>2, <1>3 DEF NoWaitInVain, PipeInv
<1>L. OnlyByLoss'
  BY <1>i, <1>u, <1>2, <1>3 DEF OnlyByLoss, PipeInv
<1>C. Ordered' /\ Placed' /\ Untold'
  BY <1>i, <1>u, <1>2, <1>3 DEF Ordered, Placed, Untold, Numbers, NumWriter,
     NumStream
<1>D. Resting' /\ Ending' /\ Asking' /\ OneToken'
  BY <1>i, <1>u, <1>2, <1>3 DEF Resting, Ending, Asking, OneToken, Numbers,
     NumWriter
<1>F. Answered' /\ Delivering'
  BY <1>i, <1>u, <1>2, <1>3 DEF Answered, Delivering, Answer, OneToken,
     NumPort, Numbers, NumWriter, NumStream
<1>G. Stale'
  BY <1>i, <1>u, <1>2, <1>3 DEF Stale, Numbers, NumFlags
<1>M. Sending'
  BY <1>i, <1>u, <1>2, <1>3 DEF Stale, Sending, Numbers, NumWriter, NumXfer,
     NumPort
<1>K. Exchanging'
  BY <1>i, <1>u, <1>2, <1>3 DEF Stale, Sending, Exchanging, Numbers,
     NumWriter
<1>H. ReaderIdle' /\ ReaderRequest' /\ ReaderData' /\ ReaderAck'
  BY <1>i, <1>u, <1>2, <1>3 DEF ReaderIdle, ReaderRequest, ReaderData,
     ReaderAck, Numbers, NumReader
<1>J. ToReaderOK'
  BY <1>i, <1>u, <1>2, <1>3 DEF ToReaderOK, Numbers, NumReader
<1>S. UNCHANGED Stream!vars
  BY <1>i, <1>u, <1>2, <1>3 DEF Stream!vars, State
<1> QED
  BY <1>A, <1>B, <1>L, <1>C, <1>D, <1>F, <1>G, <1>M, <1>K, <1>H, <1>J, <1>S
     DEF Correct

(* The reader gets data from the writer.                                   *)
LEMMA ReadFromWriterCorrect ==
  ASSUME PipeInv, trouble = "no", FromWriter, ReadData
  PROVE  Correct
<1> USE SizeAssumption, NoneAssumption DEF Deep, Active, Live, Taken, TheWrite, TheClose
<1>i. TypeOK /\ Deep /\ Numbers
  BY NumbersAre DEF PipeInv
<1>u. UNCHANGED <<p, toServer, toWriter, toData, wpc, told, goal, xfer, want, err, port, given,
                  eof, lost, left, stale, trouble>>
  BY DEF ReadData, writer, history, losses
<1>m. PICK m : m = toReader[1]
  OBVIOUS
<1>h. toReader # <<>> /\ rpc = "data" /\ Head(toReader) = m /\ m \in Answers
  BY <1>i, <1>m, HeadOfReader DEF ReadData, Receives
<1>0. /\ m.kind = "data" /\ m.seq = seq /\ toReader' = Tail(toReader) /\ res' = res \o m.bytes
           /\ seq' = seq + 1
      /\ rpc' = (IF m.last THEN "ack" ELSE "data") /\ p.readReq = None /\ want # NoWant
           /\ err = "none"
  BY <1>i, <1>h DEF ReadData, Receives, ReaderData, ToReaderOK
<1>k. PICK k : k = Len(m.bytes)
  OBVIOUS
<1>n. PICK n : n = Len(res)
  OBVIOUS
<1>fw. /\ Live /\ wpc \in {"send", "confirm"} /\ xfer.to = port /\ rpc = "data"
       /\ Chunks(toReader, told, Len(res), seq, xfer) /\ port \in Ports
  BY <1>i DEF FromWriter, NumPort, Numbers
<1>1. /\ Live /\ wpc \in {"send", "confirm"} /\ xfer.to = port /\ rpc = "data" /\ p.pend = <<>>
           /\ Taken = told
      /\ xfer.to \in Ports /\ p.readReq = None /\ want # NoWant /\ err = "none" /\ p.pend = <<>>
           /\ toWriter = <<>> /\ Active
  BY <1>i, <1>fw, <1>0 DEF Exchanging
<1>c. IsChunk(m, told, n, seq, xfer)
  BY <1>i, <1>m, <1>n, <1>fw, <1>h, HeadOfReader DEF Chunks
<1>by. m.bytes \in Bytes /\ k \in Nat /\ k >= 1 /\ n \in Nat
  BY <1>h, <1>c, <1>k, <1>n, <1>i DEF Answers, Bytes, IsChunk, NumReader,
     Numbers
<1>f. First(m) \in Int /\ Past(m) = First(m) + k /\ m.seq \in Nat /\ told \in Nat
  BY <1>h, <1>k, <1>by, <1>i, ChunkNumbers DEF NumWriter, Past, Numbers
<1>c2. /\ First(m) = told + n /\ Past(m) <= told + xfer.sent /\ m.seq < xfer.seq
       /\ (m.seq + 1 = xfer.seq => Past(m) = told + xfer.sent)
            /\ (m.last <=> (Past(m) = told + xfer.size))
       /\ m.bytes = From(First(m), k)
  BY <1>c, <1>0, <1>k DEF IsChunk
<1>d. /\ xfer.size \in 1 .. goal - told /\ xfer.sent <= xfer.size /\ xfer.seq <= xfer.sent
           /\ (wpc = "send" <=> xfer.sent < xfer.size)
      /\ xfer.size <= want.size /\ res = From(told, n) /\ n < xfer.size /\ n <= xfer.sent
           /\ seq <= xfer.seq
  BY <1>i, <1>1, <1>n DEF Sending
<1>e1. told \in Nat /\ n \in Nat /\ k \in Nat
  BY <1>by, <1>f
<1>e2. res = From(told, n) /\ m.bytes = From(told + n, k)
  BY <1>c2, <1>d
<1>e3. From(told, n) \o From(told + n, k) = From(told, n + k)
  BY <1>e1, FromConcat, ZenonT(60)
<1>e. res \o m.bytes = From(told, n + k)
  BY <1>e2, <1>e3
<1>g. res \o m.bytes \in Bytes /\ Len(res \o m.bytes) = n + k
  BY <1>i, <1>by, <1>k, <1>n, Joined DEF TypeOK
<1>ln. Len(res') = n + k
  BY <1>0, <1>g
<1>y0. First(m) = told + n /\ Past(m) = First(m) + k /\ told \in Nat /\ n \in Nat /\ k \in Nat
         /\ k >= 1 /\ First(m) \in Int
  BY <1>f, <1>c2, <1>by
<1>y1. Past(m) \in Int /\ Past(m) = told + (n + k)
  BY <1>y0
<1>y2. /\ xfer.sent \in Nat /\ xfer.size \in Nat /\ xfer.seq \in Nat
            /\ Past(m) <= told + xfer.sent
       /\ (m.seq + 1 = xfer.seq => Past(m) = told + xfer.sent)
            /\ (m.last <=> (Past(m) = told + xfer.size))
  BY <1>i, <1>c2 DEF NumXfer, Numbers
<1>y3. n + k \in Nat /\ n + k <= xfer.sent /\ (m.seq + 1 = xfer.seq => n + k = xfer.sent)
  BY <1>y0, <1>y1, <1>y2
<1>y4. m.last <=> (n + k = xfer.size)
  BY <1>y0, <1>y1, <1>y2
<1>y5. m.seq = seq /\ seq' = seq + 1 /\ m.seq < xfer.seq /\ seq \in Nat /\ want.size \in Nat
         /\ goal \in Nat /\ seq <= n
  BY <1>i, <1>0, <1>c2, <1>n, <1>h DEF NumReader, NumWriter, ReaderData,
     Numbers
<1>y6. /\ xfer.size \in 1 .. goal - told /\ xfer.sent <= xfer.size /\ xfer.size <= want.size
  BY <1>d
<1>z. want.size <= MaxSize /\ MaxSize \in Nat
  BY <1>i DEF TypeOK, Waits, NoWant
<1>2. /\ res' \in Bytes /\ res' # <<>> /\ Len(res') \in Nat /\ Len(res') >= 1
           /\ res' = From(told, Len(res'))
  BY <1>0, <1>by, <1>e, <1>g, <1>ln, EmptySeq
<1>3. /\ Len(res') <= xfer.sent /\ xfer.sent <= xfer.size /\ xfer.size <= want.size
           /\ xfer.size <= goal - told
      /\ seq' <= xfer.seq /\ seq' <= Len(res') /\ seq' \in Nat /\ Len(res') <= want.size
  BY <1>y0, <1>y2, <1>y3, <1>y5, <1>y6, <1>ln
<1>4. /\ seq' = xfer.seq => Len(res') = xfer.sent
      /\ m.last <=> (Len(res') = xfer.size)
  BY <1>y2, <1>y3, <1>y4, <1>y5, <1>ln
<1>v0. seq' \in 0 .. MaxSize
  BY <1>2, <1>3, <1>z, <1>i DEF NumReader, Numbers
<1>5. toReader' = Tail(toReader) /\ toReader' \in Seq(Answers)
        /\ rpc' = (IF m.last THEN "ack" ELSE "data") /\ seq' \in 0 .. MaxSize
  BY <1>i, <1>0, <1>h, <1>v0, HeadOfReader
<1>6. m.last => toReader' = <<>> /\ xfer.sent = xfer.size /\ wpc = "confirm"
  <2>1. toReader \in Seq(Answers) /\ told \in Nat /\ Len(res) \in Nat /\ seq \in Nat
          /\ XferNumbers(xfer)
    BY <1>i DEF Numbers, NumReader, NumWriter, NumXfer, XferNumbers, TypeOK
  <2>2. Chunks(toReader, told, Len(res), seq, xfer) /\ toReader # <<>> /\ Head(toReader) = m
          /\ xfer.sent <= xfer.size
    BY <1>fw, <1>h, <1>d
  <2>3. m.last => Tail(toReader) = <<>> /\ xfer.sent = xfer.size
    BY <2>1, <2>2, LastChunk
  <2> QED
    BY <2>3, <1>5, <1>d, <1>1, <1>y2
<1>7. ~m.last => FromWriter'
  <2>1. toReader \in Seq(Answers) /\ told \in Nat /\ Len(res) \in Nat /\ seq \in Nat
          /\ XferNumbers(xfer)
    BY <1>i DEF Numbers, NumReader, NumWriter, NumXfer, XferNumbers, TypeOK
  <2>2. /\ Chunks(toReader, told, Len(res), seq, xfer) /\ toReader # <<>> /\ Head(toReader) = m
             /\ m.seq = seq
    BY <1>fw, <1>h, <1>0
  <2>3. Chunks(Tail(toReader), told, Len(res) + Len(m.bytes), seq + 1, xfer)
    BY <2>1, <2>2, ChunksTail
  <2>4. Chunks(toReader', told, Len(res'), seq', xfer)
    BY <2>3, <1>5, <1>ln, <1>k, <1>n, <1>0
  <2> QED
    BY <2>4, <1>u, <1>1, <1>5 DEF FromWriter
<1>8. "data" \notin lost => Unbroken(toReader', seq', xfer.seq)
  <2>1. toReader \in Seq(Answers) /\ seq \in Nat /\ toReader # <<>>
    BY <1>i, <1>h DEF Numbers, NumReader, TypeOK
  <2>2. "data" \notin lost => Unbroken(toReader, seq, xfer.seq)
    BY <1>i, <1>1, <1>fw DEF Exchanging
  <2>3. "data" \notin lost => Unbroken(Tail(toReader), seq + 1, xfer.seq)
    BY <2>1, <2>2, UnbrokenTail
  <2> QED
    BY <2>3, <1>5, <1>0
<1>A. TypeOK'
  BY <1>i, <1>u, <1>1, <1>2, <1>3, <1>4, <1>5, <1>6, <1>7, <1>8 DEF TypeOK
<1>B. NoWaitInVain'
  BY <1>i, <1>u, <1>1, <1>2, <1>3, <1>4, <1>5, <1>6, <1>7, <1>8 DEF
     NoWaitInVain, PipeInv
<1>L. OnlyByLoss'
  BY <1>i, <1>u, <1>1, <1>2, <1>3, <1>4, <1>5, <1>6, <1>7, <1>8 DEF
     OnlyByLoss, PipeInv
<1>C. Ordered' /\ Placed' /\ Untold'
  BY <1>i, <1>u, <1>1, <1>2, <1>3, <1>4, <1>5, <1>6, <1>7, <1>8 DEF Ordered,
     Placed, Untold, Numbers, NumWriter, NumStream
<1>D. Resting' /\ Ending' /\ Asking' /\ OneToken'
  BY <1>i, <1>u, <1>1, <1>2, <1>3, <1>4, <1>5, <1>6, <1>7, <1>8 DEF Resting,
     Ending, Asking, OneToken, Numbers, NumWriter
<1>F. Answered' /\ Delivering'
  BY <1>i, <1>u, <1>1, <1>2, <1>3, <1>4, <1>5, <1>6, <1>7, <1>8 DEF Answered,
     Delivering, Answer, OneToken, NumPort, Numbers, NumWriter, NumStream
<1>G. Stale'
  BY <1>i, <1>u, <1>1, <1>2, <1>3, <1>4, <1>5, <1>6, <1>7, <1>8 DEF Stale,
     Numbers, NumFlags
<1>M. Sending'
  <2>1. ASSUME rpc' = "data"
        PROVE  /\ xfer.size <= want.size /\ res' = From(told, Len(res'))
                    /\ Len(res') < xfer.size /\ Len(res') <= xfer.sent
               /\ seq' <= xfer.seq /\ (seq' = xfer.seq => Len(res') = xfer.sent)
    BY <1>y2, <1>y3, <1>y4, <1>2, <1>3, <1>4, <1>5, <2>1
  <2>2. xfer.to = port /\ rpc' # "request" /\ rpc = "data" /\ (wpc = "send" => ~m.last)
          /\ (~m.last => rpc' = "data")
    BY <1>1, <1>5, <1>6
  <2> QED
    BY <1>i, <1>u, <1>1, <1>7, <2>1, <2>2 DEF Sending
<1>K. Exchanging'
  BY <1>i, <1>u, <1>1, <1>2, <1>3, <1>4, <1>5, <1>6, <1>7, <1>8, <1>fw DEF
     Stale, Sending, Exchanging, Numbers, NumWriter
<1>H. ReaderIdle' /\ ReaderRequest' /\ ReaderData' /\ ReaderAck'
  BY <1>i, <1>u, <1>1, <1>2, <1>3, <1>4, <1>5, <1>6, <1>7, <1>8, <1>fw DEF
     ReaderIdle, ReaderRequest, ReaderData, ReaderAck, Numbers, NumReader
<1>J. ToReaderOK'
  BY <1>i, <1>u, <1>1, <1>2, <1>3, <1>4, <1>5, <1>6, <1>7, <1>8 DEF
     ToReaderOK, Numbers, NumReader
<1>S. UNCHANGED Stream!vars
  BY <1>i, <1>u, <1>1, <1>2, <1>3, <1>4, <1>5, <1>6, <1>7, <1>8 DEF
     Stream!vars, State
<1> QED
  BY <1>A, <1>B, <1>L, <1>C, <1>D, <1>F, <1>G, <1>M, <1>K, <1>H, <1>J, <1>S
     DEF Correct

----------------------------------------------------------------------------
(* The network.                                                            *)

(* A request of the writer is lost.                                        *)
LEMMA LoseRequestCorrect ==
  ASSUME PipeInv, trouble = "no", LoseRequest
  PROVE  Correct
<1> USE SizeAssumption, NoneAssumption DEF Deep, Active, Live, Taken, TheWrite, TheClose
<1>i. TypeOK /\ Deep /\ Numbers
  BY NumbersAre DEF PipeInv
<1>u. UNCHANGED <<p, toWriter, toReader, toData, wpc, told, goal, xfer, rpc, want, res, seq,
                  err, port, given, eof, stale, trouble>>
  BY DEF LoseRequest, Lose, writer, reader, history
<1>0. toServer # <<>> /\ Head(toServer).kind = "write" /\ toServer' = Tail(toServer)
  BY DEF LoseRequest
<1>0a. Active
  BY <1>i, <1>0 DEF Resting
<1>0b. toServer = <<TheWrite>>
  BY <1>i, <1>0, <1>0a DEF Asking
<1>1. toServer # <<>> /\ toServer' = <<>> /\ Active
  BY <1>0, <1>0a, <1>0b
<1>l0. left > 0 /\ left' = left - 1 /\ lost' = lost \cup {"request"} /\ left \in 0 .. MaxLost
  BY <1>i DEF LoseRequest, Lose, TypeOK
<1>lo. /\ lost' = lost \cup {"request"} /\ left' \in 0 .. MaxLost
       /\ lost' \subseteq {"request", "done", "already", "sizes", "timeout", "data"}
  BY <1>i, <1>l0 DEF TypeOK
<1>A. TypeOK'
  BY <1>i, <1>u, <1>1, <1>lo DEF TypeOK
<1>B. NoWaitInVain'
  BY <1>i, <1>u, <1>1, <1>lo DEF NoWaitInVain, PipeInv
<1>L. OnlyByLoss'
  BY <1>i, <1>u, <1>1, <1>lo DEF OnlyByLoss, PipeInv
<1>C. Ordered' /\ Placed' /\ Untold'
  BY <1>i, <1>u, <1>1, <1>lo DEF Ordered, Placed, Untold, Numbers, NumWriter,
     NumStream
<1>D. Resting' /\ Ending' /\ Asking' /\ OneToken'
  BY <1>i, <1>u, <1>1, <1>lo DEF Resting, Ending, Asking, OneToken, Numbers,
     NumWriter
<1>F. Answered' /\ Delivering'
  BY <1>i, <1>u, <1>1, <1>lo DEF Answered, Delivering, Answer, OneToken,
     NumPort, Numbers, NumWriter, NumStream
<1>G. Stale'
  BY <1>i, <1>u, <1>1, <1>lo DEF Stale, Numbers, NumFlags
<1>M. Sending'
  BY <1>i, <1>u, <1>1, <1>lo DEF Stale, Sending, FromWriter, Numbers,
     NumWriter, NumXfer, NumPort
<1>K. Exchanging'
  BY <1>i, <1>u, <1>1, <1>lo DEF Stale, Sending, Exchanging, FromWriter,
     Numbers, NumWriter
<1>H. ReaderIdle' /\ ReaderRequest' /\ ReaderData' /\ ReaderAck'
  BY <1>i, <1>u, <1>1, <1>lo DEF ReaderIdle, ReaderRequest, ReaderData,
     ReaderAck, Numbers, NumReader
<1>J. ToReaderOK'
  BY <1>i, <1>u, <1>1, <1>lo DEF ToReaderOK, FromServer, FromWriter, Numbers,
     NumReader
<1>S. UNCHANGED Stream!vars
  BY <1>i, <1>u, <1>1, <1>lo DEF Stream!vars, State
<1> QED
  BY <1>A, <1>B, <1>L, <1>C, <1>D, <1>F, <1>G, <1>M, <1>K, <1>H, <1>J, <1>S
     DEF Correct

(* A reply to the writer is lost.                                          *)
LEMMA LoseReplyCorrect ==
  ASSUME PipeInv, trouble = "no", LoseReply
  PROVE  Correct
<1> USE SizeAssumption, NoneAssumption DEF Deep, Active, Live, Taken, TheWrite, TheClose
<1>i. TypeOK /\ Deep /\ Numbers
  BY NumbersAre DEF PipeInv
<1>x. PICK e : e \in 1 .. Len(toWriter) /\ toWriter' = Remove(toWriter, e)
             /\ Lose(toWriter[e].kind)
                  /\ UNCHANGED <<toServer, toReader, toData>>
  BY DEF LoseReply
<1>u. UNCHANGED <<p, toServer, toReader, toData, wpc, told, goal, xfer, rpc, want, res, seq,
                  err, port, given, eof, stale, trouble>>
  BY <1>x DEF Lose, writer, reader, history
<1>1. toWriter \in Seq(Replies) /\ Len(toWriter) <= 1 /\ Len(toWriter) \in Nat
  BY <1>i DEF OneToken, TypeOK
<1>1a. Len(toWriter) <= 1 /\ Len(toWriter) \in Nat
  BY <1>1
<1>x1. e \in 1 .. Len(toWriter)
  BY <1>x
<1>2a. e = 1 /\ Len(toWriter) = 1
  BY <1>1a, <1>x1, OnlyOne, Zenon
<1>2. e = 1 /\ Len(toWriter) = 1 /\ toWriter # <<>> /\ toWriter[1] = Head(toWriter)
  BY <1>1, <1>2a
<1>3. toWriter' \in Seq(Replies) /\ Len(toWriter') = 0
  BY <1>1, <1>2, <1>x, RemoveIs
<1>m. PICK m \in Replies : m = Head(toWriter) /\ Answer(m)
  BY <1>2, OneReply
<1>4. toWriter' = <<>> /\ toWriter # <<>> /\ Head(toWriter) = m /\ m \in Replies
        /\ m.kind \in {"done", "already", "sizes", "timeout"}
  BY <1>2, <1>3, <1>m, EmptySeq DEF Replies
<1>l1. lost \subseteq {"request", "done", "already", "sizes", "timeout", "data"}
  BY <1>i DEF TypeOK
<1>l0. left > 0 /\ left' = left - 1 /\ lost' = lost \cup {m.kind} /\ left \in 0 .. MaxLost
  BY <1>i, <1>m, <1>x, <1>2 DEF Lose, TypeOK
<1>l2. left' \in 0 .. MaxLost
  BY <1>l0
<1>lo. /\ lost' = lost \cup {m.kind} /\ left' \in 0 .. MaxLost
       /\ lost' \subseteq {"request", "done", "already", "sizes", "timeout", "data"}
  BY <1>l0, <1>l1, <1>l2, <1>4
<1>A. TypeOK'
  BY <1>i, <1>u, <1>4, <1>lo DEF TypeOK
<1>B. NoWaitInVain'
  BY <1>i, <1>u, <1>4, <1>lo DEF NoWaitInVain, PipeInv
<1>L. OnlyByLoss'
  BY <1>i, <1>u, <1>4, <1>lo DEF OnlyByLoss, PipeInv
<1>C. Ordered' /\ Placed' /\ Untold'
  BY <1>i, <1>u, <1>4, <1>lo DEF Ordered, Placed, Untold, Numbers, NumWriter,
     NumStream
<1>D. Resting' /\ Ending' /\ Asking' /\ OneToken'
  BY <1>i, <1>u, <1>4, <1>lo DEF Resting, Ending, Asking, OneToken, Numbers,
     NumWriter
<1>F. Answered' /\ Delivering'
  BY <1>i, <1>u, <1>4, <1>lo DEF Answered, Delivering, Answer, OneToken,
     NumPort, Numbers, NumWriter, NumStream
<1>G. Stale'
  BY <1>i, <1>u, <1>4, <1>lo DEF Stale, Numbers, NumFlags
<1>M. Sending'
  BY <1>i, <1>u, <1>4, <1>lo DEF Stale, Sending, FromWriter, Numbers,
     NumWriter, NumXfer, NumPort
<1>K. Exchanging'
  BY <1>i, <1>u, <1>4, <1>lo DEF Stale, Sending, Exchanging, OneToken,
     FromWriter, Numbers, NumWriter
<1>H. ReaderIdle' /\ ReaderRequest' /\ ReaderData' /\ ReaderAck'
  BY <1>i, <1>u, <1>4, <1>lo DEF ReaderIdle, ReaderRequest, ReaderData,
     ReaderAck, Numbers, NumReader
<1>J. ToReaderOK'
  BY <1>i, <1>u, <1>4, <1>lo DEF ToReaderOK, FromServer, FromWriter, Numbers,
     NumReader
<1>S. UNCHANGED Stream!vars
  BY <1>i, <1>u, <1>4, <1>lo DEF Stream!vars, State
<1> QED
  BY <1>A, <1>B, <1>L, <1>C, <1>D, <1>F, <1>G, <1>M, <1>K, <1>H, <1>J, <1>S
     DEF Correct

(* A delivery to the server is lost.                                       *)
LEMMA LoseDeliveryCorrect ==
  ASSUME PipeInv, trouble = "no", toData # <<>>, toData' = <<>>, toReader' = toReader,
         LoseData
  PROVE  Correct
<1> USE SizeAssumption, NoneAssumption DEF Deep, Active, Live, Taken, TheWrite, TheClose
<1>i. TypeOK /\ Deep /\ Numbers
  BY NumbersAre DEF PipeInv
<1>u. UNCHANGED <<p, toServer, toWriter, toReader, wpc, told, goal, xfer, rpc, want, res, seq,
                  err, port, given, eof, stale, trouble>>
  BY DEF LoseData, Lose, writer, reader, history
<1>1. toData # <<>> /\ toData' = <<>> /\ wpc = "confirm" /\ p.data # None
        /\ toReader' = toReader
  BY <1>i DEF Delivering, Resting
<1>l0. left > 0 /\ left' = left - 1 /\ lost' = lost \cup {"data"} /\ left \in 0 .. MaxLost
  BY <1>i DEF LoseData, Lose, TypeOK
<1>lo. /\ lost' = lost \cup {"data"} /\ left' \in 0 .. MaxLost
       /\ lost' \subseteq {"request", "done", "already", "sizes", "timeout", "data"}
  BY <1>i, <1>l0 DEF TypeOK
<1>A. TypeOK'
  BY <1>i, <1>u, <1>1, <1>lo DEF TypeOK
<1>B. NoWaitInVain'
  BY <1>i, <1>u, <1>1, <1>lo DEF NoWaitInVain, PipeInv
<1>L. OnlyByLoss'
  BY <1>i, <1>u, <1>1, <1>lo DEF OnlyByLoss, PipeInv
<1>C. Ordered' /\ Placed' /\ Untold'
  BY <1>i, <1>u, <1>1, <1>lo DEF Ordered, Placed, Untold, Numbers, NumWriter,
     NumStream
<1>D. Resting' /\ Ending' /\ Asking' /\ OneToken'
  BY <1>i, <1>u, <1>1, <1>lo DEF Resting, Ending, Asking, OneToken, Numbers,
     NumWriter
<1>F. Answered' /\ Delivering'
  BY <1>i, <1>u, <1>1, <1>lo DEF Answered, Delivering, Answer, OneToken,
     NumPort, Numbers, NumWriter, NumStream
<1>G. Stale'
  BY <1>i, <1>u, <1>1, <1>lo DEF Stale, Numbers, NumFlags
<1>M. Sending'
  BY <1>i, <1>u, <1>1, <1>lo DEF Stale, Sending, FromWriter, Numbers,
     NumWriter, NumXfer, NumPort
<1>K. Exchanging'
  BY <1>i, <1>u, <1>1, <1>lo DEF Stale, Sending, Exchanging, FromWriter,
     Numbers, NumWriter
<1>H. ReaderIdle' /\ ReaderRequest' /\ ReaderData' /\ ReaderAck'
  BY <1>i, <1>u, <1>1, <1>lo DEF ReaderIdle, ReaderRequest, ReaderData,
     ReaderAck, Numbers, NumReader
<1>J. ToReaderOK'
  BY <1>i, <1>u, <1>1, <1>lo DEF ToReaderOK, FromServer, FromWriter, Numbers,
     NumReader
<1>S. UNCHANGED Stream!vars
  BY <1>i, <1>u, <1>1, <1>lo DEF Stream!vars, State
<1> QED
  BY <1>A, <1>B, <1>L, <1>C, <1>D, <1>F, <1>G, <1>M, <1>K, <1>H, <1>J, <1>S
     DEF Correct

(* A message to the reader is lost.                                        *)
LEMMA LoseChunkCorrect ==
  ASSUME PipeInv, trouble = "no", NEW i \in 1 .. Len(toReader), xfer.to \in Ports,
         toReader[i].kind = "data", toReader' = Remove(toReader, i), toData' = toData,
         LoseData
  PROVE  Correct
<1> USE SizeAssumption, NoneAssumption DEF Deep, Active, Live, Taken, TheWrite, TheClose
<1>i. TypeOK /\ Deep /\ Numbers
  BY NumbersAre DEF PipeInv
<1>u. UNCHANGED <<p, toServer, toWriter, toData, wpc, told, goal, xfer, rpc, want, res, seq,
                  err, port, given, eof, stale, trouble>>
  BY DEF LoseData, Lose, writer, reader, history
<1>0. toReader \in Seq(Answers) /\ Len(toReader) \in Nat /\ toReader # <<>>
  BY <1>i DEF TypeOK, NumReader, Numbers
<1>n1. NoXfer.to = "none" /\ "none" \notin Ports
  BY DEF NoXfer, Ports
<1>no. xfer # NoXfer
  BY <1>n1
<1>1. wpc \in {"send", "confirm"} /\ p.pend = <<>>
  BY <1>i, <1>no DEF Resting, Asking, Sending, TypeOK
<1>2. ~FromServer(toReader[1])
  BY <1>i, <1>0, <1>1 DEF FromServer
<1>3. FromWriter
  BY <1>i, <1>0, <1>2 DEF ToReaderOK
<1>4. /\ wpc \in {"send", "confirm"} /\ p.pend = <<>> /\ Live /\ rpc = "data"
           /\ p.readReq = None /\ xfer.to = port /\ toReader # <<>>
  BY <1>0, <1>1, <1>3 DEF FromWriter
<1>5. Chunks(toReader', told, Len(res), seq, xfer)
  BY <1>0, <1>3, ChunksRemove DEF FromWriter
<1>6. toReader' \in Seq(Answers)
  BY <1>0, RemoveIs
<1>7. FromWriter'
  BY <1>u, <1>4, <1>5 DEF FromWriter
<1>l0. left > 0 /\ left' = left - 1 /\ lost' = lost \cup {"data"} /\ left \in 0 .. MaxLost
  BY <1>i DEF LoseData, Lose, TypeOK
<1>lo. /\ lost' = lost \cup {"data"} /\ left' \in 0 .. MaxLost
       /\ lost' \subseteq {"request", "done", "already", "sizes", "timeout", "data"}
  BY <1>i, <1>l0 DEF TypeOK
<1>A. TypeOK'
  BY <1>i, <1>u, <1>4, <1>6, <1>7, <1>lo DEF TypeOK
<1>B. NoWaitInVain'
  BY <1>i, <1>u, <1>4, <1>6, <1>7, <1>lo DEF NoWaitInVain, PipeInv
<1>L. OnlyByLoss'
  BY <1>i, <1>u, <1>4, <1>6, <1>7, <1>lo DEF OnlyByLoss, PipeInv
<1>C. Ordered' /\ Placed' /\ Untold'
  BY <1>i, <1>u, <1>4, <1>6, <1>7, <1>lo DEF Ordered, Placed, Untold,
     Numbers, NumWriter, NumStream
<1>D. Resting' /\ Ending' /\ Asking' /\ OneToken'
  BY <1>i, <1>u, <1>4, <1>6, <1>7, <1>lo DEF Resting, Ending, Asking,
     OneToken, Numbers, NumWriter
<1>F. Answered' /\ Delivering'
  BY <1>i, <1>u, <1>4, <1>6, <1>7, <1>lo DEF Answered, Delivering, Answer,
     OneToken, NumPort, Numbers, NumWriter, NumStream
<1>G. Stale'
  BY <1>i, <1>u, <1>4, <1>6, <1>7, <1>lo DEF Stale, Numbers, NumFlags
<1>M. Sending'
  BY <1>i, <1>u, <1>4, <1>6, <1>7, <1>lo DEF Stale, Sending, FromWriter,
     Numbers, NumWriter, NumXfer, NumPort
<1>K. Exchanging'
  BY <1>i, <1>u, <1>4, <1>6, <1>7, <1>lo DEF Stale, Sending, Exchanging,
     FromWriter, Numbers, NumWriter
<1>H. ReaderIdle' /\ ReaderRequest' /\ ReaderData' /\ ReaderAck'
  BY <1>i, <1>u, <1>4, <1>6, <1>7, <1>lo DEF ReaderIdle, ReaderRequest,
     ReaderData, ReaderAck, Numbers, NumReader
<1>J. ToReaderOK'
  BY <1>i, <1>u, <1>4, <1>6, <1>7, <1>lo DEF ToReaderOK, Numbers, NumReader
<1>S. UNCHANGED Stream!vars
  BY <1>i, <1>u, <1>4, <1>6, <1>7, <1>lo DEF Stream!vars, State
<1> QED
  BY <1>A, <1>B, <1>L, <1>C, <1>D, <1>F, <1>G, <1>M, <1>K, <1>H, <1>J, <1>S
     DEF Correct

(* The reader reports a failure of which the server expects nothing.       *)
LEMMA ReadAckFailsCorrect ==
  ASSUME PipeInv, trouble = "no", trouble' = "no", Failed, ~p.ack, ReadAck
  PROVE  Correct
<1> USE SizeAssumption, NoneAssumption DEF Deep, Active, Live, Taken, TheWrite, TheClose
<1>i. TypeOK /\ Deep /\ Numbers
  BY NumbersAre DEF PipeInv
<1>u. UNCHANGED <<toServer, toData, wpc, told, goal, xfer, port, lost, left, trouble>>
  BY DEF ReadAck, writer, losses
<1>zz. TypeOK' /\ NoWaitInVain' /\ OnlyByLoss'
  BY ReadAckSound
<1>z1. /\ p \in PipeInfo /\ NoneInVain(p) /\ p.readReq = None /\ toReader = <<>>
            /\ toWriter \in Seq(Replies) /\ p.data = None /\ rpc = "ack"
  BY <1>i DEF PipeInv, NoneInVain, Counted, NoWaitInVain, TypeOK, ReaderAck,
     ReadAck, Idle
<1>o. PICK o : o \in DoReadAck(p, Confirmed) /\ Serve(o)
  BY DEF ReadAck, Confirmed, Failed
<1>o1. o.r = <<>>
  BY <1>o, <1>z1, ReadAckLeaves
<1>o2. /\ p' = o.p /\ toWriter' = toWriter \o o.w /\ toReader' = <<>>
  BY <1>o, <1>o1, <1>z1 DEF Serve
<1>t. ~(p.ack /\ stale) /\ ~(Failed /\ res # <<>> /\ ~Again) /\ stale' = FALSE
  BY DEF ReadAck, Failed
<1>v. /\ res' = <<>> /\ seq' = 0 /\ err' = "none"
      /\ ((Failed /\ rpc' = "request" /\ want' = want /\ given' = given /\ eof' = eof)
          \/ (rpc' = "idle" /\ want' = NoWant /\ given' = given \o res /\ eof' = (eof \/ err = "eof")))
  BY DEF ReadAck, AskAgain, Again, Failed
<1>c1. Confirmed = -1
  BY DEF Failed, Confirmed
<1>c2. OnlyAcks(o)
  BY <1>o, <1>z1, ReadAckIs
<1>c3. o = Out(Acked(p, -1), AckReply, <<>>)
  BY <1>c1, <1>c2 DEF OnlyAcks
<1>c4. p' = Acked(p, -1) /\ toWriter' = toWriter \o AckReply
  BY <1>c3, <1>o2 DEF Out
<1>g1. rpc' = "idle" /\ ~Again => res = <<>>
  BY <1>t
<1>g4. (Failed /\ rpc' = "request" /\ want' = want /\ given' = given)
       \/ (~Again /\ rpc' = "idle" /\ want' = NoWant /\ given' = given \o res)
  BY DEF ReadAck, AskAgain, Again, Failed
<1>e0. eof \in BOOLEAN /\ err # "eof"
  BY <1>i DEF Failed, NumFlags, Numbers
<1>e1. eof' = eof
  BY <1>e0, <1>v
<1>g2. given \o <<>> = given
  BY <1>i, NothingJoined DEF TypeOK, Bytes
<1>1. /\ rpc = "ack" /\ toReader = <<>> /\ toReader' = <<>> /\ p.readReq = None /\ p.data = None
           /\ stale' = FALSE
      /\ res' = <<>> /\ seq' = 0 /\ err' = "none" /\ given' = given /\ eof' = eof
           /\ want # NoWant
      /\ ((rpc' = "request" /\ want' = want) \/ (rpc' = "idle" /\ want' = NoWant))
  BY <1>i, <1>z1, <1>o2, <1>v, <1>t, <1>g1, <1>g2, <1>g4, <1>e1 DEF
     ReaderAck, Failed
<1>q0. PICK k : k = -1
  OBVIOUS
<1>q. PICK x : x = Acked(p, k)
  OBVIOUS
<1>q1. ~(k > 0)
  BY <1>q0
<1>q3. AfterAck(x, p, k)
  BY <1>q, <1>z1, AckedIs
<1>q2. /\ x \in PipeInfo /\ x.ack = FALSE /\ x.readReq = p.readReq /\ x.writeReq = p.writeReq
            /\ x.data = p.data /\ x.pend = p.pend /\ x.got = p.got /\ x.max = p.max
                 /\ x.open = p.open /\ x.ackPos = p.ackPos /\ x.WritePos = p.WritePos
  BY <1>q1, <1>q3 DEF AfterAck
<1>2. /\ p' \in PipeInfo /\ p'.ack = FALSE /\ p'.readReq = p.readReq /\ p'.writeReq = p.writeReq
           /\ p'.data = p.data /\ p'.pend = p.pend /\ p'.got = p.got /\ p'.max = p.max
                /\ p'.open = p.open /\ p'.ackPos = p.ackPos /\ p'.WritePos = p.WritePos
  BY <1>c4, <1>q0, <1>q, <1>q2
<1>w1. AckReply = <<>>
  BY DEF AckReply
<1>3. toWriter' = toWriter
  BY <1>c4, <1>w1, <1>z1, NothingJoined
<1>z. TypeOK' /\ NoWaitInVain' /\ OnlyByLoss'
  BY <1>zz
<1>C. Ordered' /\ Placed' /\ Untold'
  BY <1>i, <1>u, <1>1, <1>2, <1>3, <1>z DEF Ordered, Placed, Untold, Numbers,
     NumWriter, NumStream
<1>D. Resting' /\ Ending' /\ Asking' /\ OneToken'
  BY <1>i, <1>u, <1>1, <1>2, <1>3, <1>z DEF Resting, Ending, Asking,
     OneToken, Numbers, NumWriter
<1>F. Answered' /\ Delivering'
  BY <1>i, <1>u, <1>1, <1>2, <1>3, <1>z DEF Answered, Delivering, Answer,
     OneToken, Numbers, NumWriter, NumStream
<1>G. Stale'
  BY <1>i, <1>u, <1>1, <1>2, <1>3, <1>z DEF Stale, Numbers, NumFlags
<1>M. Sending'
  BY <1>i, <1>u, <1>1, <1>2, <1>3, <1>z DEF Stale, Sending, FromWriter,
     Numbers, NumWriter, NumXfer, NumPort
<1>K. Exchanging'
  BY <1>i, <1>u, <1>1, <1>2, <1>3, <1>z DEF Stale, Sending, Exchanging,
     Numbers, NumWriter
<1>H. ReaderIdle' /\ ReaderRequest' /\ ReaderData' /\ ReaderAck'
  BY <1>i, <1>u, <1>1, <1>2, <1>3, <1>z DEF ReaderIdle, ReaderRequest,
     ReaderData, ReaderAck, Numbers, NumReader
<1>J. ToReaderOK'
  BY <1>i, <1>u, <1>1, <1>2, <1>3, <1>z DEF ToReaderOK, Numbers, NumReader
<1>S. UNCHANGED Stream!vars
  BY <1>i, <1>u, <1>1, <1>2, <1>3, <1>z DEF Stream!vars, State
<1> QED
  BY <1>C, <1>D, <1>F, <1>G, <1>M, <1>K, <1>H, <1>J, <1>S, <1>z DEF Correct

(* The reader reports that an exchange failed.                             *)
LEMMA ReadAckDeniesCorrect ==
  ASSUME PipeInv, trouble = "no", trouble' = "no", Failed, Live, ReadAck
  PROVE  Correct
<1> USE SizeAssumption, NoneAssumption DEF Deep, Active, Live, Taken, TheWrite, TheClose
<1>i. TypeOK /\ Deep /\ Numbers
  BY NumbersAre DEF PipeInv
<1>u. UNCHANGED <<toServer, toData, wpc, told, goal, xfer, port, lost, left, trouble>>
  BY DEF ReadAck, writer, losses
<1>zz. TypeOK' /\ NoWaitInVain' /\ OnlyByLoss'
  BY ReadAckSound
<1>z1. /\ p \in PipeInfo /\ NoneInVain(p) /\ p.readReq = None /\ toReader = <<>>
            /\ toWriter \in Seq(Replies) /\ p.data = None /\ rpc = "ack"
  BY <1>i DEF PipeInv, NoneInVain, Counted, NoWaitInVain, TypeOK, ReaderAck,
     ReadAck, Idle
<1>o. PICK o : o \in DoReadAck(p, Confirmed) /\ Serve(o)
  BY DEF ReadAck, Confirmed, Failed
<1>o1. o.r = <<>>
  BY <1>o, <1>z1, ReadAckLeaves
<1>o2. /\ p' = o.p /\ toWriter' = toWriter \o o.w /\ toReader' = <<>>
  BY <1>o, <1>o1, <1>z1 DEF Serve
<1>t. ~(p.ack /\ stale) /\ ~(Failed /\ res # <<>> /\ ~Again) /\ stale' = FALSE
  BY DEF ReadAck, Failed
<1>v. /\ res' = <<>> /\ seq' = 0 /\ err' = "none"
      /\ ((Failed /\ rpc' = "request" /\ want' = want /\ given' = given /\ eof' = eof)
          \/ (rpc' = "idle" /\ want' = NoWant /\ given' = given \o res /\ eof' = (eof \/ err = "eof")))
  BY DEF ReadAck, AskAgain, Again, Failed
<1>c1. Confirmed = -1
  BY DEF Failed, Confirmed
<1>c2. OnlyAcks(o)
  BY <1>o, <1>z1, ReadAckIs
<1>c3. o = Out(Acked(p, -1), AckReply, <<>>)
  BY <1>c1, <1>c2 DEF OnlyAcks
<1>c4. p' = Acked(p, -1) /\ toWriter' = toWriter \o AckReply
  BY <1>c3, <1>o2 DEF Out
<1>g1. rpc' = "idle" /\ ~Again => res = <<>>
  BY <1>t
<1>g4. (Failed /\ rpc' = "request" /\ want' = want /\ given' = given)
       \/ (~Again /\ rpc' = "idle" /\ want' = NoWant /\ given' = given \o res)
  BY DEF ReadAck, AskAgain, Again, Failed
<1>e0. eof \in BOOLEAN /\ err # "eof"
  BY <1>i DEF Failed, NumFlags, Numbers
<1>e1. eof' = eof
  BY <1>e0, <1>v
<1>g2. given \o <<>> = given
  BY <1>i, NothingJoined DEF TypeOK, Bytes
<1>1. /\ rpc = "ack" /\ toReader = <<>> /\ toReader' = <<>> /\ p.readReq = None /\ p.data = None
           /\ stale' = FALSE
      /\ res' = <<>> /\ seq' = 0 /\ err' = "none" /\ given' = given /\ eof' = eof
           /\ want # NoWant
      /\ ((rpc' = "request" /\ want' = want) \/ (rpc' = "idle" /\ want' = NoWant))
  BY <1>i, <1>z1, <1>o2, <1>v, <1>t, <1>g1, <1>g2, <1>g4, <1>e1 DEF
     ReaderAck, Failed
<1>q0. PICK k : k = -1
  OBVIOUS
<1>q. PICK x : x = Acked(p, k)
  OBVIOUS
<1>q1. ~(k > 0)
  BY <1>q0
<1>q3. AfterAck(x, p, k)
  BY <1>q, <1>z1, AckedIs
<1>q2. /\ x \in PipeInfo /\ x.ack = FALSE /\ x.readReq = p.readReq /\ x.writeReq = p.writeReq
            /\ x.data = p.data /\ x.pend = p.pend /\ x.got = p.got /\ x.max = p.max
                 /\ x.open = p.open /\ x.ackPos = p.ackPos /\ x.WritePos = p.WritePos
  BY <1>q1, <1>q3 DEF AfterAck
<1>2. /\ p' \in PipeInfo /\ p'.ack = FALSE /\ p'.readReq = p.readReq /\ p'.writeReq = p.writeReq
           /\ p'.data = p.data /\ p'.pend = p.pend /\ p'.got = p.got /\ p'.max = p.max
                /\ p'.open = p.open /\ p'.ackPos = p.ackPos /\ p'.WritePos = p.WritePos
  BY <1>c4, <1>q0, <1>q, <1>q2
<1>y. toWriter = <<>> /\ toServer = <<>> /\ p.writeReq = None /\ Taken = told /\ p.pend = <<>>
        /\ p.ackPos = told /\ Active
  BY <1>i, <1>z1 DEF Answered, Answer, OneToken, Exchanging
<1>3. toWriter = <<>> /\ toServer = <<>> /\ p.writeReq = None /\ Taken = told /\ p.pend = <<>>
        /\ Active
  BY <1>y
<1>n. -1 \in -1 .. MaxSize
  BY SizeAssumption
<1>r0. PICK r : r = Reply("done", -1)
  OBVIOUS
<1>r1. r \in Replies /\ r.kind = "done" /\ r.n = -1
  BY <1>r0, <1>n DEF Reply, Replies, Places
<1>4. toWriter' = <<r>> /\ r \in Replies /\ r.kind = "done" /\ r.n = -1
  BY <1>r0, <1>r1, <1>c4, <1>y, <1>c1 DEF AckReply
<1>z. TypeOK' /\ NoWaitInVain' /\ OnlyByLoss'
  BY <1>zz
<1>C. Ordered' /\ Placed' /\ Untold'
  BY <1>i, <1>u, <1>1, <1>2, <1>3, <1>4, <1>z DEF Ordered, Placed, Untold,
     Numbers, NumWriter, NumStream
<1>D. Resting' /\ Ending' /\ Asking' /\ OneToken'
  BY <1>i, <1>u, <1>1, <1>2, <1>3, <1>4, <1>z DEF Resting, Ending, Asking,
     OneToken, Numbers, NumWriter
<1>F. Answered' /\ Delivering'
  BY <1>i, <1>u, <1>1, <1>2, <1>3, <1>4, <1>z DEF Answered, Delivering,
     Answer, OneToken, Exchanging, Failed, Numbers, NumWriter, NumStream
<1>G. Stale'
  BY <1>i, <1>u, <1>1, <1>2, <1>3, <1>4, <1>z DEF Stale, Numbers, NumFlags
<1>M. Sending'
  BY <1>i, <1>u, <1>1, <1>2, <1>3, <1>4, <1>z DEF Stale, Sending, FromWriter,
     Numbers, NumWriter, NumXfer, NumPort
<1>K. Exchanging'
  BY <1>i, <1>u, <1>1, <1>2, <1>3, <1>4, <1>z DEF Stale, Sending, Exchanging,
     Numbers, NumWriter
<1>H. ReaderIdle' /\ ReaderRequest' /\ ReaderData' /\ ReaderAck'
  BY <1>i, <1>u, <1>1, <1>2, <1>3, <1>4, <1>z DEF ReaderIdle, ReaderRequest,
     ReaderData, ReaderAck, Numbers, NumReader
<1>J. ToReaderOK'
  BY <1>i, <1>u, <1>1, <1>2, <1>3, <1>4, <1>z DEF ToReaderOK, Numbers,
     NumReader
<1>S. UNCHANGED Stream!vars
  BY <1>i, <1>u, <1>1, <1>2, <1>3, <1>4, <1>z DEF Stream!vars, State
<1> QED
  BY <1>C, <1>D, <1>F, <1>G, <1>M, <1>K, <1>H, <1>J, <1>S, <1>z DEF Correct

(* The reader confirms an exchange.                                        *)
LEMMA ReadAckExchangedCorrect ==
  ASSUME PipeInv, trouble = "no", trouble' = "no", Live, err = "none", ReadAck
  PROVE  Correct
<1> USE SizeAssumption, NoneAssumption DEF Deep, Active, Live, Taken, TheWrite, TheClose
<1>i. TypeOK /\ Deep /\ Numbers
  BY NumbersAre DEF PipeInv
<1>u. UNCHANGED <<toServer, toData, wpc, told, goal, xfer, port, lost, left, trouble>>
  BY DEF ReadAck, writer, losses
<1>zz. TypeOK' /\ NoWaitInVain' /\ OnlyByLoss'
  BY ReadAckSound
<1>z1. /\ p \in PipeInfo /\ NoneInVain(p) /\ p.readReq = None /\ toReader = <<>>
            /\ toWriter \in Seq(Replies) /\ p.data = None /\ rpc = "ack"
  BY <1>i DEF PipeInv, NoneInVain, Counted, NoWaitInVain, TypeOK, ReaderAck,
     ReadAck, Idle
<1>o. PICK o : o \in DoReadAck(p, Confirmed) /\ Serve(o)
  BY DEF ReadAck, Confirmed, Failed
<1>o1. o.r = <<>>
  BY <1>o, <1>z1, ReadAckLeaves
<1>o2. /\ p' = o.p /\ toWriter' = toWriter \o o.w /\ toReader' = <<>>
  BY <1>o, <1>o1, <1>z1 DEF Serve
<1>t. ~(p.ack /\ stale) /\ ~(Failed /\ res # <<>> /\ ~Again) /\ stale' = FALSE
  BY DEF ReadAck, Failed
<1>v. /\ res' = <<>> /\ seq' = 0 /\ err' = "none"
      /\ ((Failed /\ rpc' = "request" /\ want' = want /\ given' = given /\ eof' = eof)
          \/ (rpc' = "idle" /\ want' = NoWant /\ given' = given \o res /\ eof' = (eof \/ err = "eof")))
  BY DEF ReadAck, AskAgain, Again, Failed
<1>d0. ~Failed /\ err = "none" /\ rpc' = "idle" /\ want' = NoWant /\ given' = given \o res
  BY <1>v DEF Failed
<1>d1. Confirmed = Len(res)
  BY <1>d0 DEF Confirmed
<1>e0. eof \in BOOLEAN
  BY <1>i DEF NumFlags, Numbers
<1>e1. eof' = eof
  BY <1>e0, <1>d0, <1>v
<1>q0. PICK k : k = Len(res)
  OBVIOUS
<1>rs. /\ res # <<>> /\ res = From(Len(given), Len(res)) /\ res \in Bytes /\ given \in Bytes
       /\ Live => Len(res) <= goal - told /\ wpc \in {"reply", "confirm"}
            /\ (wpc = "confirm" => Len(res) = xfer.sent)
       /\ ~Live => Len(res) <= Len(p.pend)
  BY <1>i, <1>d0, <1>z1 DEF ReaderAck, TypeOK
<1>q1. k \in Nat /\ k >= 1 /\ k > 0
  BY <1>q0, <1>rs, EmptySeq DEF Bytes
<1>jo. Len(given') = Len(given) + k
  BY <1>q0, <1>d0, <1>rs, Joined
<1>gg. Len(given) \in Nat /\ 0 + Len(given) = Len(given)
  BY <1>i DEF NumStream, Numbers
<1>gi. given = From(0, Len(given))
  BY <1>i DEF Ordered
<1>gc. From(0, Len(given)) \o From(0 + Len(given), k) = From(0, Len(given) + k)
  BY <1>gg, <1>q1, FromConcat, ZenonT(60)
<1>gn. given' = From(0, Len(given'))
  BY <1>d0, <1>gi, <1>gc, <1>gg, <1>jo, <1>rs, <1>q0, Zenon
<1>y. toWriter = <<>> /\ toServer = <<>> /\ p.writeReq = None /\ Taken = told /\ p.pend = <<>>
        /\ p.ackPos = told /\ Active
  BY <1>i, <1>z1 DEF Answered, Answer, OneToken, Exchanging
<1>3. toWriter = <<>> /\ toServer = <<>> /\ p.writeReq = None /\ Taken = told /\ p.pend = <<>>
        /\ Active
  BY <1>y
<1>c0. OnlyAcks(o)
  BY <1>o, <1>z1, <1>3, ReadAckIs
<1>q. PICK x : x = Acked(p, k)
  OBVIOUS
<1>c1. Confirmed = k
  BY <1>d1, <1>q0
<1>c3. o = Out(x, AckReply, <<>>)
  BY <1>c1, <1>c0, <1>q DEF OnlyAcks
<1>c4. p' = x /\ toWriter' = toWriter \o AckReply
  BY <1>c3, <1>o2 DEF Out
<1>q3. AfterAck(x, p, k)
  BY <1>q, <1>z1, AckedIs
<1>q2. /\ x \in PipeInfo /\ x.ack = FALSE /\ x.WritePos = told /\ x.readReq = p.readReq
            /\ x.writeReq = p.writeReq /\ x.data = p.data /\ x.pend = p.pend /\ x.got = p.got
                 /\ x.max = p.max /\ x.open = p.open /\ x.ackPos = p.ackPos
  BY <1>q1, <1>q3, <1>y DEF AfterAck
<1>2. /\ p' \in PipeInfo /\ p'.ack = FALSE /\ p'.WritePos = told /\ p'.readReq = p.readReq
           /\ p'.writeReq = p.writeReq /\ p'.data = p.data /\ p'.pend = p.pend /\ p'.got = p.got
                /\ p'.max = p.max /\ p'.open = p.open /\ p'.ackPos = p.ackPos
  BY <1>c4, <1>q2
<1>k1. goal - told <= MaxSize /\ told \in Nat /\ goal \in Nat /\ k <= goal - told
         /\ MaxSize \in Nat
  BY <1>i, <1>3, <1>rs, <1>q0 DEF Asking, NumWriter, Numbers
<1>n. k \in -1 .. MaxSize
  BY <1>k1, <1>q1
<1>r0. PICK r : r = Reply("done", k)
  OBVIOUS
<1>r1. r \in Replies /\ r.kind = "done" /\ r.n = k
  BY <1>r0, <1>n DEF Reply, Replies, Places
<1>4. toWriter' = <<r>> /\ r \in Replies /\ r.kind = "done" /\ r.n = k
  BY <1>r0, <1>r1, <1>c4, <1>y, <1>c1 DEF AckReply
<1>k2. Taken = told /\ p'.pend = <<>> /\ Len(given) + Len(p.pend) = told /\ Len(p.pend) = 0
  BY <1>3, <1>2
<1>5. /\ Len(given') = Len(given) + k /\ Taken' = told + k /\ Taken' > told /\ Taken' <= goal
           /\ k = Taken' - told /\ k >= 1
      /\ Len(given) <= Len(given') /\ Taken <= Taken'
  BY <1>k1, <1>k2, <1>jo, <1>q1, <1>gg
<1>6. /\ given' = From(0, Len(given')) /\ p'.pend = From(Len(given'), Len(p'.pend))
           /\ eof' = eof
  BY <1>k2, <1>e1, <1>gn, <1>5, <1>gg, <1>jo, <1>q1, FromEmpty
<1>7. wpc \in {"reply", "confirm"} /\ (wpc = "confirm" => k = xfer.sent)
  BY <1>rs, <1>q0
<1>8. /\ rpc = "ack" /\ toReader = <<>> /\ toReader' = <<>> /\ p.readReq = None /\ p.data = None
           /\ stale' = FALSE
      /\ res' = <<>> /\ seq' = 0 /\ err' = "none" /\ rpc' = "idle" /\ want' = NoWant
           /\ trouble' = "no" /\ trouble = "no"
  BY <1>z1, <1>o2, <1>v, <1>t, <1>d0
<1>z. TypeOK' /\ NoWaitInVain' /\ OnlyByLoss'
  BY <1>zz
<1>C. Ordered' /\ Placed' /\ Untold'
  BY <1>i, <1>u, <1>3, <1>2, <1>4, <1>5, <1>6, <1>7, <1>8, <1>z DEF Ordered,
     Placed, Untold, Numbers, NumWriter, NumStream
<1>D. Resting' /\ Ending' /\ Asking' /\ OneToken'
  BY <1>i, <1>u, <1>3, <1>2, <1>4, <1>5, <1>6, <1>7, <1>8, <1>z DEF Resting,
     Ending, Asking, OneToken, Numbers, NumWriter
<1>F. Answered' /\ Delivering'
  BY <1>i, <1>u, <1>3, <1>2, <1>4, <1>5, <1>6, <1>7, <1>8, <1>z DEF Answered,
     Delivering, Answer, OneToken, Numbers, NumWriter, NumStream
<1>G. Stale'
  BY <1>i, <1>u, <1>3, <1>2, <1>4, <1>5, <1>6, <1>7, <1>8, <1>z DEF Stale,
     Numbers, NumFlags
<1>M. Sending'
  BY <1>i, <1>u, <1>3, <1>2, <1>4, <1>5, <1>6, <1>7, <1>8, <1>z DEF Stale,
     Sending, FromWriter, Numbers, NumWriter, NumXfer, NumPort
<1>K. Exchanging'
  BY <1>i, <1>u, <1>3, <1>2, <1>4, <1>5, <1>6, <1>7, <1>8, <1>z DEF Stale,
     Sending, Exchanging, Numbers, NumWriter
<1>H. ReaderIdle' /\ ReaderRequest' /\ ReaderData' /\ ReaderAck'
  BY <1>i, <1>u, <1>3, <1>2, <1>4, <1>5, <1>6, <1>7, <1>8, <1>z DEF
     ReaderIdle, ReaderRequest, ReaderData, ReaderAck, Numbers, NumReader
<1>J. ToReaderOK'
  BY <1>i, <1>u, <1>3, <1>2, <1>4, <1>5, <1>6, <1>7, <1>8, <1>z DEF
     ToReaderOK, Numbers, NumReader
<1>S. Stream!Next \/ UNCHANGED Stream!vars
  BY <1>i, <1>u, <1>3, <1>2, <1>4, <1>5, <1>6, <1>7, <1>8, <1>z, <1>C,
     StreamCarries DEF State
<1> QED
  BY <1>C, <1>D, <1>F, <1>G, <1>M, <1>K, <1>H, <1>J, <1>S, <1>z DEF Correct

(* The reader confirms the end of file.                                    *)
LEMMA ReadAckEndsCorrect ==
  ASSUME PipeInv, trouble = "no", trouble' = "no", err = "eof", ReadAck
  PROVE  Correct
<1> USE SizeAssumption, NoneAssumption DEF Deep, Active, Live, Taken, TheWrite, TheClose
<1>i. TypeOK /\ Deep /\ Numbers
  BY NumbersAre DEF PipeInv
<1>u. UNCHANGED <<toServer, toData, wpc, told, goal, xfer, port, lost, left, trouble>>
  BY DEF ReadAck, writer, losses
<1>zz. TypeOK' /\ NoWaitInVain' /\ OnlyByLoss'
  BY ReadAckSound
<1>z1. /\ p \in PipeInfo /\ NoneInVain(p) /\ p.readReq = None /\ toReader = <<>>
            /\ toWriter \in Seq(Replies) /\ p.data = None /\ rpc = "ack"
  BY <1>i DEF PipeInv, NoneInVain, Counted, NoWaitInVain, TypeOK, ReaderAck,
     ReadAck, Idle
<1>o. PICK o : o \in DoReadAck(p, Confirmed) /\ Serve(o)
  BY DEF ReadAck, Confirmed, Failed
<1>o1. o.r = <<>>
  BY <1>o, <1>z1, ReadAckLeaves
<1>o2. /\ p' = o.p /\ toWriter' = toWriter \o o.w /\ toReader' = <<>>
  BY <1>o, <1>o1, <1>z1 DEF Serve
<1>t. ~(p.ack /\ stale) /\ ~(Failed /\ res # <<>> /\ ~Again) /\ stale' = FALSE
  BY DEF ReadAck, Failed
<1>v. /\ res' = <<>> /\ seq' = 0 /\ err' = "none"
      /\ ((Failed /\ rpc' = "request" /\ want' = want /\ given' = given /\ eof' = eof)
          \/ (rpc' = "idle" /\ want' = NoWant /\ given' = given \o res /\ eof' = (eof \/ err = "eof")))
  BY DEF ReadAck, AskAgain, Again, Failed
<1>f. res = <<>> /\ ~p.open /\ p.pend = <<>>
  BY <1>i, <1>z1 DEF ReaderAck
<1>f1. wpc = "closed" /\ ~Live /\ told = goal
  BY <1>i, <1>f DEF Ending, Resting
<1>f2. ~p.ack
  BY <1>f1, <1>t
<1>f3. Len(given) = goal
  BY <1>i, <1>f, <1>f1 DEF Ordered, NumStream, NumWriter, Numbers
<1>d0. ~Failed /\ rpc' = "idle" /\ want' = NoWant /\ given' = given \o res
         /\ eof' = (eof \/ err = "eof")
  BY <1>v DEF Failed
<1>d2. eof' = TRUE
  BY <1>d0
<1>d1. Confirmed = Len(res)
  BY <1>d0 DEF Confirmed
<1>g. given' = given
  BY <1>i, <1>d0, <1>f, NothingJoined DEF TypeOK, Bytes
<1>q0. PICK k : k = 0
  OBVIOUS
<1>3. p.pend = <<>> /\ wpc = "closed" /\ ~p.open /\ Len(given) = goal /\ eof' = TRUE
        /\ given' = given /\ ~Live /\ ~p.ack
  BY <1>f, <1>f1, <1>f2, <1>f3, <1>d2, <1>g
<1>d3. Confirmed = k
  BY <1>d0, <1>q0, <1>f DEF Confirmed
<1>c0. OnlyAcks(o)
  BY <1>o, <1>z1, <1>3, ReadAckIs
<1>q. PICK x : x = Acked(p, k)
  OBVIOUS
<1>c1. Confirmed = k
  BY <1>d3
<1>c3. o = Out(x, AckReply, <<>>)
  BY <1>c1, <1>c0, <1>q DEF OnlyAcks
<1>c4. p' = x /\ toWriter' = toWriter \o AckReply
  BY <1>c3, <1>o2 DEF Out
<1>q3. AfterAck(x, p, k)
  BY <1>q, <1>z1, AckedIs
<1>q1. ~(k > 0)
  BY <1>q0
<1>q2. /\ x \in PipeInfo /\ x.ack = FALSE /\ x.readReq = p.readReq /\ x.writeReq = p.writeReq
            /\ x.data = p.data /\ x.pend = p.pend /\ x.got = p.got /\ x.max = p.max
                 /\ x.open = p.open /\ x.ackPos = p.ackPos /\ x.WritePos = p.WritePos
  BY <1>q1, <1>q3 DEF AfterAck
<1>2. /\ p' \in PipeInfo /\ p'.ack = FALSE /\ p'.readReq = p.readReq /\ p'.writeReq = p.writeReq
           /\ p'.data = p.data /\ p'.pend = p.pend /\ p'.got = p.got /\ p'.max = p.max
                /\ p'.open = p.open /\ p'.ackPos = p.ackPos /\ p'.WritePos = p.WritePos
  BY <1>c4, <1>q2
<1>w1. AckReply = <<>>
  BY <1>f2 DEF AckReply
<1>4. toWriter' = toWriter
  BY <1>c4, <1>w1, <1>z1, NothingJoined
<1>8. /\ rpc = "ack" /\ toReader = <<>> /\ toReader' = <<>> /\ p.readReq = None /\ p.data = None
           /\ stale' = FALSE
      /\ res' = <<>> /\ seq' = 0 /\ err' = "none" /\ rpc' = "idle" /\ want' = NoWant
           /\ trouble' = "no" /\ trouble = "no"
  BY <1>z1, <1>o2, <1>v, <1>t, <1>d0
<1>z. TypeOK' /\ NoWaitInVain' /\ OnlyByLoss'
  BY <1>zz
<1>C. Ordered' /\ Placed' /\ Untold'
  BY <1>i, <1>u, <1>3, <1>2, <1>4, <1>8, <1>z DEF Ordered, Placed, Untold,
     Numbers, NumWriter, NumStream
<1>D. Resting' /\ Ending' /\ Asking' /\ OneToken'
  BY <1>i, <1>u, <1>3, <1>2, <1>4, <1>8, <1>z DEF Resting, Ending, Asking,
     OneToken, Numbers, NumWriter
<1>F. Answered' /\ Delivering'
  BY <1>i, <1>u, <1>3, <1>2, <1>4, <1>8, <1>z DEF Answered, Delivering,
     Answer, OneToken, Numbers, NumWriter, NumStream
<1>G. Stale'
  BY <1>i, <1>u, <1>3, <1>2, <1>4, <1>8, <1>z DEF Stale, Numbers, NumFlags
<1>M. Sending'
  BY <1>i, <1>u, <1>3, <1>2, <1>4, <1>8, <1>z DEF Stale, Sending, FromWriter,
     Numbers, NumWriter, NumXfer, NumPort
<1>K. Exchanging'
  BY <1>i, <1>u, <1>3, <1>2, <1>4, <1>8, <1>z DEF Stale, Sending, Exchanging,
     Numbers, NumWriter
<1>H. ReaderIdle' /\ ReaderRequest' /\ ReaderData' /\ ReaderAck'
  BY <1>i, <1>u, <1>3, <1>2, <1>4, <1>8, <1>z DEF ReaderIdle, ReaderRequest,
     ReaderData, ReaderAck, Numbers, NumReader
<1>J. ToReaderOK'
  BY <1>i, <1>u, <1>3, <1>2, <1>4, <1>8, <1>z DEF ToReaderOK, Numbers,
     NumReader
<1>S. Stream!Next \/ UNCHANGED Stream!vars
  BY <1>i, <1>u, <1>3, <1>2, <1>4, <1>8, <1>z DEF Stream!Next, Stream!End,
     Stream!Taken, Stream!vars, State, NumFlags, NumStream
<1> QED
  BY <1>C, <1>D, <1>F, <1>G, <1>M, <1>K, <1>H, <1>J, <1>S, <1>z DEF Correct

(* The reader confirms bytes of the buffer, and no write is kept.          *)
LEMMA ReadAckDropsCorrect ==
  ASSUME PipeInv, trouble = "no", trouble' = "no", ~Live, err = "none",
         p.writeReq = None, ReadAck
  PROVE  Correct
<1> USE SizeAssumption, NoneAssumption DEF Deep, Active, Live, Taken, TheWrite, TheClose
<1>i. TypeOK /\ Deep /\ Numbers
  BY NumbersAre DEF PipeInv
<1>u. UNCHANGED <<toServer, toData, wpc, told, goal, xfer, port, lost, left, trouble>>
  BY DEF ReadAck, writer, losses
<1>zz. TypeOK' /\ NoWaitInVain' /\ OnlyByLoss'
  BY ReadAckSound
<1>z1. /\ p \in PipeInfo /\ NoneInVain(p) /\ p.readReq = None /\ toReader = <<>>
            /\ toWriter \in Seq(Replies) /\ p.data = None /\ rpc = "ack"
  BY <1>i DEF PipeInv, NoneInVain, Counted, NoWaitInVain, TypeOK, ReaderAck,
     ReadAck, Idle
<1>o. PICK o : o \in DoReadAck(p, Confirmed) /\ Serve(o)
  BY DEF ReadAck, Confirmed, Failed
<1>o1. o.r = <<>>
  BY <1>o, <1>z1, ReadAckLeaves
<1>o2. /\ p' = o.p /\ toWriter' = toWriter \o o.w /\ toReader' = <<>>
  BY <1>o, <1>o1, <1>z1 DEF Serve
<1>t. ~(p.ack /\ stale) /\ ~(Failed /\ res # <<>> /\ ~Again) /\ stale' = FALSE
  BY DEF ReadAck, Failed
<1>v. /\ res' = <<>> /\ seq' = 0 /\ err' = "none"
      /\ ((Failed /\ rpc' = "request" /\ want' = want /\ given' = given /\ eof' = eof)
          \/ (rpc' = "idle" /\ want' = NoWant /\ given' = given \o res /\ eof' = (eof \/ err = "eof")))
  BY DEF ReadAck, AskAgain, Again, Failed
<1>nl. ~Live
  OBVIOUS
<1>d0. ~Failed /\ err = "none" /\ rpc' = "idle" /\ want' = NoWant /\ given' = given \o res
  BY <1>v DEF Failed
<1>d1. Confirmed = Len(res)
  BY <1>d0 DEF Confirmed
<1>e0. eof \in BOOLEAN
  BY <1>i DEF NumFlags, Numbers
<1>e1. eof' = eof
  BY <1>e0, <1>d0, <1>v
<1>q0. PICK k : k = Len(res)
  OBVIOUS
<1>rs. /\ res # <<>> /\ res = From(Len(given), Len(res)) /\ res \in Bytes /\ given \in Bytes
       /\ Live => Len(res) <= goal - told /\ wpc \in {"reply", "confirm"}
            /\ (wpc = "confirm" => Len(res) = xfer.sent)
       /\ ~Live => Len(res) <= Len(p.pend)
  BY <1>i, <1>d0, <1>z1 DEF ReaderAck, TypeOK
<1>q1. k \in Nat /\ k >= 1 /\ k > 0
  BY <1>q0, <1>rs, EmptySeq DEF Bytes
<1>jo. Len(given') = Len(given) + k
  BY <1>q0, <1>d0, <1>rs, Joined
<1>gg. Len(given) \in Nat /\ 0 + Len(given) = Len(given)
  BY <1>i DEF NumStream, Numbers
<1>gi. given = From(0, Len(given))
  BY <1>i DEF Ordered
<1>gc. From(0, Len(given)) \o From(0 + Len(given), k) = From(0, Len(given) + k)
  BY <1>gg, <1>q1, FromConcat, ZenonT(60)
<1>gn. given' = From(0, Len(given'))
  BY <1>d0, <1>gi, <1>gc, <1>gg, <1>jo, <1>rs, <1>q0, Zenon
<1>y0. PICK x : x = Acked(p, k)
  OBVIOUS
<1>y1. AfterAck(x, p, k)
  BY <1>y0, <1>z1, AckedIs
<1>y2. ~p.ack
  BY <1>t, <1>nl
<1>y3. /\ x \in PipeInfo /\ Counted(x) /\ x.ack = FALSE /\ x.readReq = p.readReq
            /\ x.writeReq = p.writeReq /\ x.data = p.data /\ x.pend = p.pend /\ x.got = p.got
                 /\ x.max = p.max /\ x.open = p.open /\ x.ackPos = p.ackPos
                      /\ x.WritePos = p.WritePos
  BY <1>y1, <1>y2 DEF AfterAck, NoneInVain
<1>y4. k <= Len(p.pend) /\ Len(p.pend) \in Nat /\ k \in Nat /\ k >= 1
  BY <1>i, <1>q0, <1>q1, <1>rs, <1>nl DEF NumStream, Numbers
<1>y4a. k \in 0 .. Len(p.pend) /\ k \in 1 .. Len(p.pend)
  BY <1>y4
<1>y4b. x.pend = p.pend /\ x.readReq = None
  BY <1>y3, <1>z1
<1>y4c. k \in 1 .. Len(x.pend)
  BY <1>y4a, <1>y4b, Zenon
<1>y5. PICK y : y = Rest(x, k)
  OBVIOUS
<1>y6. AfterDrop(y, x, k)
  BY <1>y3, <1>y4b, <1>y4c, <1>y5, RestIs
<1>y7. Len(given) \in Nat /\ p.pend = From(Len(given), Len(p.pend))
  BY <1>i, <1>gg DEF Ordered
<1>y8. SubSeq(From(Len(given), Len(p.pend)), k + 1, Len(p.pend)) = From(Len(given) + k, Len(p.pend) - k)
  BY <1>y4, <1>y4a, <1>gg, FromSub, Zenon
<1>y8a. SubSeq(p.pend, k + 1, Len(p.pend)) = From(Len(given) + k, Len(p.pend) - k)
  BY <1>y7, <1>y8, Zenon
<1>y9. /\ y \in PipeInfo /\ Counted(y) /\ y.ack = FALSE /\ y.readReq = None
            /\ y.pend = From(Len(given'), Len(p.pend) - k) /\ Len(y.pend) = Len(p.pend) - k
       /\ y.readReq = p.readReq /\ y.writeReq = p.writeReq /\ y.data = p.data /\ y.max = p.max
            /\ y.open = p.open /\ y.ackPos = p.ackPos /\ y.WritePos = p.WritePos
  BY <1>y3, <1>y6, <1>y8a, <1>jo, <1>z1 DEF AfterDrop
<1>e2. ~eof
  BY <1>i, <1>y4 DEF Ending, Ordered, NumStream, NumWriter, Numbers
<1>3. /\ p.pend # <<>> /\ ~p.ack /\ ~Live /\ eof' = eof /\ ~eof'
  BY <1>y2, <1>y4, <1>nl, <1>e1, <1>e2
<1>c1. Confirmed = k /\ ~OnlyAcks(o)
  BY <1>d1, <1>q0, <1>y4 DEF OnlyAcks
<1>w1. AckReply = <<>>
  BY <1>y2 DEF AckReply
<1>c2. OnlyDrops(o)
  BY <1>o, <1>z1, <1>c1, ReadAckIs DEF Resumes
<1>c3. o = Out(y, AckReply, <<>>)
  BY <1>c1, <1>c2, <1>y0, <1>y5 DEF OnlyDrops
<1>c4. p' = y /\ toWriter' = toWriter \o AckReply
  BY <1>c3, <1>o2 DEF Out
<1>2. /\ p' \in PipeInfo /\ p'.ack = FALSE /\ p'.pend = From(Len(given'), Len(p'.pend))
           /\ p'.readReq = p.readReq /\ p'.writeReq = p.writeReq /\ p'.data = p.data
                /\ p'.max = p.max /\ p'.open = p.open /\ p'.ackPos = p.ackPos
                     /\ p'.WritePos = p.WritePos
  BY <1>c4, <1>y9
<1>4. toWriter' = toWriter
  BY <1>c4, <1>w1, <1>z1, NothingJoined
<1>k2. Len(p'.pend) = Len(p.pend) - k
  BY <1>c4, <1>y9
<1>k3. Len(given) \in Nat
  BY <1>gg
<1>k4. Len(given') \in Nat /\ Len(given) <= Len(given')
  BY <1>y4, <1>jo, <1>k3
<1>k4a. Len(p.pend) \in Int /\ Len(given) \in Int /\ k \in Int
  BY <1>y4, <1>k3
<1>k4b. (Len(given) + k) + (Len(p.pend) - k) = Len(given) + Len(p.pend)
  BY <1>k4a, Shifted, Zenon
<1>k5. Taken' = Taken
  BY <1>k2, <1>jo, <1>k4b, Zenon
<1>5. /\ Len(given') \in Nat /\ Len(given') = Len(given) + k /\ Taken' = Taken
           /\ Len(given) <= Len(given')
  BY <1>k4, <1>k5, <1>jo, Zenon
<1>6. given' = From(0, Len(given'))
  BY <1>gn
<1>8. /\ rpc = "ack" /\ toReader = <<>> /\ toReader' = <<>> /\ p.readReq = None /\ p.data = None
           /\ stale' = FALSE
      /\ res' = <<>> /\ seq' = 0 /\ err' = "none" /\ rpc' = "idle" /\ want' = NoWant
           /\ trouble' = "no" /\ trouble = "no"
  BY <1>z1, <1>o2, <1>v, <1>t, <1>d0
<1>z. TypeOK' /\ NoWaitInVain' /\ OnlyByLoss'
  BY <1>zz
<1>C. Ordered' /\ Placed' /\ Untold'
  BY <1>i, <1>u, <1>3, <1>2, <1>4, <1>5, <1>6, <1>8, <1>z DEF Ordered,
     Placed, Untold, Numbers, NumWriter, NumStream
<1>D. Resting' /\ Ending' /\ Asking' /\ OneToken'
  BY <1>i, <1>u, <1>3, <1>2, <1>4, <1>5, <1>6, <1>8, <1>z DEF Resting,
     Ending, Asking, OneToken, Numbers, NumWriter
<1>F. Answered' /\ Delivering'
  BY <1>i, <1>u, <1>3, <1>2, <1>4, <1>5, <1>6, <1>8, <1>z DEF Answered,
     Delivering, Answer, OneToken, Numbers, NumWriter, NumStream
<1>G. Stale'
  BY <1>i, <1>u, <1>3, <1>2, <1>4, <1>5, <1>6, <1>8, <1>z DEF Stale, Numbers,
     NumFlags
<1>M. Sending'
  BY <1>i, <1>u, <1>3, <1>2, <1>4, <1>5, <1>6, <1>8, <1>z DEF Stale, Sending,
     FromWriter, Numbers, NumWriter, NumXfer, NumPort
<1>K. Exchanging'
  BY <1>i, <1>u, <1>3, <1>2, <1>4, <1>5, <1>6, <1>8, <1>z DEF Stale, Sending,
     Exchanging, Numbers, NumWriter
<1>H. ReaderIdle' /\ ReaderRequest' /\ ReaderData' /\ ReaderAck'
  BY <1>i, <1>u, <1>3, <1>2, <1>4, <1>5, <1>6, <1>8, <1>z DEF ReaderIdle,
     ReaderRequest, ReaderData, ReaderAck, Numbers, NumReader
<1>J. ToReaderOK'
  BY <1>i, <1>u, <1>3, <1>2, <1>4, <1>5, <1>6, <1>8, <1>z DEF ToReaderOK,
     Numbers, NumReader
<1>S. Stream!Next \/ UNCHANGED Stream!vars
  BY <1>i, <1>u, <1>3, <1>2, <1>4, <1>5, <1>6, <1>8, <1>z, <1>C,
     StreamCarries DEF State, NumStream
<1> QED
  BY <1>C, <1>D, <1>F, <1>G, <1>M, <1>K, <1>H, <1>J, <1>S, <1>z DEF Correct

(* A write is kept, and still finds no room.                               *)
LEMMA ReadAckHoldsCorrect ==
  ASSUME PipeInv, trouble = "no", trouble' = "no", ~Live, err = "none",
         p.writeReq # None,
         Holds(Rest(Acked(p, Confirmed), Confirmed), TheWrite, p', toWriter'), ReadAck
  PROVE  Correct
<1> USE SizeAssumption, NoneAssumption DEF Deep, Active, Live, Taken, TheWrite, TheClose
<1>i. TypeOK /\ Deep /\ Numbers
  BY NumbersAre DEF PipeInv
<1>u. UNCHANGED <<toServer, toData, wpc, told, goal, xfer, port, lost, left, trouble>>
  BY DEF ReadAck, writer, losses
<1>zz. TypeOK' /\ NoWaitInVain' /\ OnlyByLoss'
  BY ReadAckSound
<1>z1. /\ p \in PipeInfo /\ NoneInVain(p) /\ p.readReq = None /\ toReader = <<>>
            /\ toWriter \in Seq(Replies) /\ p.data = None /\ rpc = "ack"
  BY <1>i DEF PipeInv, NoneInVain, Counted, NoWaitInVain, TypeOK, ReaderAck,
     ReadAck, Idle
<1>o. PICK o : o \in DoReadAck(p, Confirmed) /\ Serve(o)
  BY DEF ReadAck, Confirmed, Failed
<1>o1. o.r = <<>>
  BY <1>o, <1>z1, ReadAckLeaves
<1>o2. /\ p' = o.p /\ toWriter' = toWriter \o o.w /\ toReader' = <<>>
  BY <1>o, <1>o1, <1>z1 DEF Serve
<1>t. ~(p.ack /\ stale) /\ ~(Failed /\ res # <<>> /\ ~Again) /\ stale' = FALSE
  BY DEF ReadAck, Failed
<1>v. /\ res' = <<>> /\ seq' = 0 /\ err' = "none"
      /\ ((Failed /\ rpc' = "request" /\ want' = want /\ given' = given /\ eof' = eof)
          \/ (rpc' = "idle" /\ want' = NoWant /\ given' = given \o res /\ eof' = (eof \/ err = "eof")))
  BY DEF ReadAck, AskAgain, Again, Failed
<1>nl. ~Live
  OBVIOUS
<1>d0. ~Failed /\ err = "none" /\ rpc' = "idle" /\ want' = NoWant /\ given' = given \o res
  BY <1>v DEF Failed
<1>d1. Confirmed = Len(res)
  BY <1>d0 DEF Confirmed
<1>e0. eof \in BOOLEAN
  BY <1>i DEF NumFlags, Numbers
<1>e1. eof' = eof
  BY <1>e0, <1>d0, <1>v
<1>q0. PICK k : k = Len(res)
  OBVIOUS
<1>rs. /\ res # <<>> /\ res = From(Len(given), Len(res)) /\ res \in Bytes /\ given \in Bytes
       /\ Live => Len(res) <= goal - told /\ wpc \in {"reply", "confirm"}
            /\ (wpc = "confirm" => Len(res) = xfer.sent)
       /\ ~Live => Len(res) <= Len(p.pend)
  BY <1>i, <1>d0, <1>z1 DEF ReaderAck, TypeOK
<1>q1. k \in Nat /\ k >= 1 /\ k > 0
  BY <1>q0, <1>rs, EmptySeq DEF Bytes
<1>jo. Len(given') = Len(given) + k
  BY <1>q0, <1>d0, <1>rs, Joined
<1>gg. Len(given) \in Nat /\ 0 + Len(given) = Len(given)
  BY <1>i DEF NumStream, Numbers
<1>gi. given = From(0, Len(given))
  BY <1>i DEF Ordered
<1>gc. From(0, Len(given)) \o From(0 + Len(given), k) = From(0, Len(given) + k)
  BY <1>gg, <1>q1, FromConcat, ZenonT(60)
<1>gn. given' = From(0, Len(given'))
  BY <1>d0, <1>gi, <1>gc, <1>gg, <1>jo, <1>rs, <1>q0, Zenon
<1>y0. PICK x : x = Acked(p, k)
  OBVIOUS
<1>y1. AfterAck(x, p, k)
  BY <1>y0, <1>z1, AckedIs
<1>y2. ~p.ack
  BY <1>t, <1>nl
<1>y3. /\ x \in PipeInfo /\ Counted(x) /\ x.ack = FALSE /\ x.readReq = p.readReq
            /\ x.writeReq = p.writeReq /\ x.data = p.data /\ x.pend = p.pend /\ x.got = p.got
                 /\ x.max = p.max /\ x.open = p.open /\ x.ackPos = p.ackPos
                      /\ x.WritePos = p.WritePos
  BY <1>y1, <1>y2 DEF AfterAck, NoneInVain
<1>y4. k <= Len(p.pend) /\ Len(p.pend) \in Nat /\ k \in Nat /\ k >= 1
  BY <1>i, <1>q0, <1>q1, <1>rs, <1>nl DEF NumStream, Numbers
<1>y4a. k \in 0 .. Len(p.pend) /\ k \in 1 .. Len(p.pend)
  BY <1>y4
<1>y4b. x.pend = p.pend /\ x.readReq = None
  BY <1>y3, <1>z1
<1>y4c. k \in 1 .. Len(x.pend)
  BY <1>y4a, <1>y4b, Zenon
<1>y5. PICK y : y = Rest(x, k)
  OBVIOUS
<1>y6. AfterDrop(y, x, k)
  BY <1>y3, <1>y4b, <1>y4c, <1>y5, RestIs
<1>y7. Len(given) \in Nat /\ p.pend = From(Len(given), Len(p.pend))
  BY <1>i, <1>gg DEF Ordered
<1>y8. SubSeq(From(Len(given), Len(p.pend)), k + 1, Len(p.pend)) = From(Len(given) + k, Len(p.pend) - k)
  BY <1>y4, <1>y4a, <1>gg, FromSub, Zenon
<1>y8a. SubSeq(p.pend, k + 1, Len(p.pend)) = From(Len(given) + k, Len(p.pend) - k)
  BY <1>y7, <1>y8, Zenon
<1>y9. /\ y \in PipeInfo /\ Counted(y) /\ y.ack = FALSE /\ y.readReq = None
            /\ y.pend = From(Len(given'), Len(p.pend) - k) /\ Len(y.pend) = Len(p.pend) - k
       /\ y.readReq = p.readReq /\ y.writeReq = p.writeReq /\ y.data = p.data /\ y.max = p.max
            /\ y.open = p.open /\ y.ackPos = p.ackPos /\ y.WritePos = p.WritePos
  BY <1>y3, <1>y6, <1>y8a, <1>jo, <1>z1 DEF AfterDrop
<1>e2. ~eof
  BY <1>i, <1>y4 DEF Ending, Ordered, NumStream, NumWriter, Numbers
<1>3. /\ p.pend # <<>> /\ ~p.ack /\ ~Live /\ eof' = eof /\ ~eof'
  BY <1>y2, <1>y4, <1>nl, <1>e1, <1>e2
<1>w0. Active /\ p.writeReq = TheWrite
  BY <1>i DEF Resting, Asking
<1>w1. /\ TheWrite \in WriteReqs /\ TheWrite.size >= 1 /\ TheWrite.pos = told
            /\ TheWrite.size = goal - told
       /\ goal - told \in Nat /\ goal - told \in 1 .. MaxSize /\ told \in Nat /\ goal <= Total
            /\ told \in 0 .. Total
  BY <1>i, <1>w0, RequestIs
<1>w2. TheWrite # None
  BY <1>w1
<1>w3. y = Rest(Acked(p, Confirmed), Confirmed)
  BY <1>d1, <1>q0, <1>y0, <1>y5
<1>w. /\ Active /\ wpc = "reply" /\ Taken = told /\ toWriter = <<>> /\ toServer = <<>>
           /\ xfer = NoXfer /\ p.WritePos # told
      /\ goal - told \in Nat /\ goal - told \in 1 .. MaxSize /\ told \in Nat /\ goal <= Total
           /\ told \in 0 .. Total /\ told < goal
  BY <1>i, <1>w0, <1>w1 DEF Asking, OneToken, Placed, NumWriter, Numbers
<1>h0. y.got = y.max /\ p' = [y EXCEPT !.writeReq = TheWrite] /\ toWriter' = <<>>
  BY <1>w3 DEF Holds
<1>h1. AfterHold(p', y, TheWrite)
  BY <1>h0, <1>y9, <1>w1, HoldIs
<1>2. /\ p' \in PipeInfo /\ p'.ack = FALSE /\ p'.pend = From(Len(given'), Len(p'.pend))
           /\ p'.writeReq = TheWrite /\ p'.writeReq # None /\ toWriter' = <<>>
      /\ p'.readReq = p.readReq /\ p'.data = p.data /\ p'.max = p.max /\ p'.open = p.open
           /\ p'.ackPos = p.ackPos /\ p'.WritePos = p.WritePos
  BY <1>h0, <1>h1, <1>y9, <1>w2 DEF AfterHold
<1>k2. p'.pend = y.pend
  BY <1>h1 DEF AfterHold
<1>k3. Len(given) \in Nat
  BY <1>gg
<1>k4. Len(given') \in Nat /\ Len(given) <= Len(given')
  BY <1>y4, <1>jo, <1>k3
<1>k4a. Len(p.pend) \in Int /\ Len(given) \in Int /\ k \in Int
  BY <1>y4, <1>k3
<1>k4b. (Len(given) + k) + (Len(p.pend) - k) = Len(given) + Len(p.pend)
  BY <1>k4a, Shifted, Zenon
<1>k4c. Len(given') + Len(y.pend) = told
  BY <1>y9, <1>jo, <1>k4b, <1>w, Zenon
<1>k5. Taken' = told
  BY <1>k2, <1>k4c, Zenon
<1>5. /\ Len(given') \in Nat /\ Taken' = told /\ Taken = told /\ Len(given) <= Len(given')
  BY <1>k4, <1>k5, <1>w, Zenon
<1>6. given' = From(0, Len(given'))
  BY <1>gn
<1>8. /\ rpc = "ack" /\ toReader = <<>> /\ toReader' = <<>> /\ p.readReq = None /\ p.data = None
           /\ stale' = FALSE
      /\ res' = <<>> /\ seq' = 0 /\ err' = "none" /\ rpc' = "idle" /\ want' = NoWant
           /\ trouble' = "no" /\ trouble = "no"
  BY <1>z1, <1>o2, <1>v, <1>t, <1>d0
<1>z. TypeOK' /\ NoWaitInVain' /\ OnlyByLoss'
  BY <1>zz
<1>C. Ordered' /\ Placed' /\ Untold'
  BY <1>i, <1>u, <1>3, <1>w, <1>2, <1>5, <1>6, <1>8, <1>z DEF Ordered,
     Placed, Untold, Numbers, NumWriter, NumStream
<1>D. Resting' /\ Ending' /\ Asking' /\ OneToken'
  BY <1>i, <1>u, <1>3, <1>w, <1>2, <1>5, <1>6, <1>8, <1>z DEF Resting,
     Ending, Asking, OneToken, Numbers, NumWriter
<1>F. Answered' /\ Delivering'
  BY <1>i, <1>u, <1>3, <1>w, <1>2, <1>5, <1>6, <1>8, <1>z DEF Answered,
     Delivering, Answer, OneToken, Numbers, NumWriter, NumStream
<1>G. Stale'
  BY <1>i, <1>u, <1>3, <1>w, <1>2, <1>5, <1>6, <1>8, <1>z DEF Stale, Numbers,
     NumFlags
<1>M. Sending'
  BY <1>i, <1>u, <1>3, <1>w, <1>2, <1>5, <1>6, <1>8, <1>z DEF Stale, Sending,
     FromWriter, Numbers, NumWriter, NumXfer, NumPort
<1>K. Exchanging'
  BY <1>i, <1>u, <1>3, <1>w, <1>2, <1>5, <1>6, <1>8, <1>z DEF Stale, Sending,
     Exchanging, Numbers, NumWriter
<1>H. ReaderIdle' /\ ReaderRequest' /\ ReaderData' /\ ReaderAck'
  BY <1>i, <1>u, <1>3, <1>w, <1>2, <1>5, <1>6, <1>8, <1>z DEF ReaderIdle,
     ReaderRequest, ReaderData, ReaderAck, Numbers, NumReader
<1>J. ToReaderOK'
  BY <1>i, <1>u, <1>3, <1>w, <1>2, <1>5, <1>6, <1>8, <1>z DEF ToReaderOK,
     Numbers, NumReader
<1>S. Stream!Next \/ UNCHANGED Stream!vars
  BY <1>i, <1>u, <1>3, <1>w, <1>2, <1>5, <1>6, <1>8, <1>z, <1>C,
     StreamCarries DEF State, NumStream
<1> QED
  BY <1>C, <1>D, <1>F, <1>G, <1>M, <1>K, <1>H, <1>J, <1>S, <1>z DEF Correct

(* A write is kept, and is now stored.                                     *)
LEMMA ReadAckStoresCorrect ==
  ASSUME PipeInv, trouble = "no", trouble' = "no", ~Live, err = "none",
         p.writeReq # None,
         Stores(Rest(Acked(p, Confirmed), Confirmed), TheWrite, p', toWriter'), ReadAck
  PROVE  Correct
<1> USE SizeAssumption, NoneAssumption DEF Deep, Active, Live, Taken, TheWrite, TheClose
<1>i. TypeOK /\ Deep /\ Numbers
  BY NumbersAre DEF PipeInv
<1>u. UNCHANGED <<toServer, toData, wpc, told, goal, xfer, port, lost, left, trouble>>
  BY DEF ReadAck, writer, losses
<1>zz. TypeOK' /\ NoWaitInVain' /\ OnlyByLoss'
  BY ReadAckSound
<1>z1. /\ p \in PipeInfo /\ NoneInVain(p) /\ p.readReq = None /\ toReader = <<>>
            /\ toWriter \in Seq(Replies) /\ p.data = None /\ rpc = "ack"
  BY <1>i DEF PipeInv, NoneInVain, Counted, NoWaitInVain, TypeOK, ReaderAck,
     ReadAck, Idle
<1>o. PICK o : o \in DoReadAck(p, Confirmed) /\ Serve(o)
  BY DEF ReadAck, Confirmed, Failed
<1>o1. o.r = <<>>
  BY <1>o, <1>z1, ReadAckLeaves
<1>o2. /\ p' = o.p /\ toWriter' = toWriter \o o.w /\ toReader' = <<>>
  BY <1>o, <1>o1, <1>z1 DEF Serve
<1>t. ~(p.ack /\ stale) /\ ~(Failed /\ res # <<>> /\ ~Again) /\ stale' = FALSE
  BY DEF ReadAck, Failed
<1>v. /\ res' = <<>> /\ seq' = 0 /\ err' = "none"
      /\ ((Failed /\ rpc' = "request" /\ want' = want /\ given' = given /\ eof' = eof)
          \/ (rpc' = "idle" /\ want' = NoWant /\ given' = given \o res /\ eof' = (eof \/ err = "eof")))
  BY DEF ReadAck, AskAgain, Again, Failed
<1>nl. ~Live
  OBVIOUS
<1>d0. ~Failed /\ err = "none" /\ rpc' = "idle" /\ want' = NoWant /\ given' = given \o res
  BY <1>v DEF Failed
<1>d1. Confirmed = Len(res)
  BY <1>d0 DEF Confirmed
<1>e0. eof \in BOOLEAN
  BY <1>i DEF NumFlags, Numbers
<1>e1. eof' = eof
  BY <1>e0, <1>d0, <1>v
<1>q0. PICK k : k = Len(res)
  OBVIOUS
<1>rs. /\ res # <<>> /\ res = From(Len(given), Len(res)) /\ res \in Bytes /\ given \in Bytes
       /\ Live => Len(res) <= goal - told /\ wpc \in {"reply", "confirm"}
            /\ (wpc = "confirm" => Len(res) = xfer.sent)
       /\ ~Live => Len(res) <= Len(p.pend)
  BY <1>i, <1>d0, <1>z1 DEF ReaderAck, TypeOK
<1>q1. k \in Nat /\ k >= 1 /\ k > 0
  BY <1>q0, <1>rs, EmptySeq DEF Bytes
<1>jo. Len(given') = Len(given) + k
  BY <1>q0, <1>d0, <1>rs, Joined
<1>gg. Len(given) \in Nat /\ 0 + Len(given) = Len(given)
  BY <1>i DEF NumStream, Numbers
<1>gi. given = From(0, Len(given))
  BY <1>i DEF Ordered
<1>gc. From(0, Len(given)) \o From(0 + Len(given), k) = From(0, Len(given) + k)
  BY <1>gg, <1>q1, FromConcat, ZenonT(60)
<1>gn. given' = From(0, Len(given'))
  BY <1>d0, <1>gi, <1>gc, <1>gg, <1>jo, <1>rs, <1>q0, Zenon
<1>y0. PICK x : x = Acked(p, k)
  OBVIOUS
<1>y1. AfterAck(x, p, k)
  BY <1>y0, <1>z1, AckedIs
<1>y2. ~p.ack
  BY <1>t, <1>nl
<1>y3. /\ x \in PipeInfo /\ Counted(x) /\ x.ack = FALSE /\ x.readReq = p.readReq
            /\ x.writeReq = p.writeReq /\ x.data = p.data /\ x.pend = p.pend /\ x.got = p.got
                 /\ x.max = p.max /\ x.open = p.open /\ x.ackPos = p.ackPos
                      /\ x.WritePos = p.WritePos
  BY <1>y1, <1>y2 DEF AfterAck, NoneInVain
<1>y4. k <= Len(p.pend) /\ Len(p.pend) \in Nat /\ k \in Nat /\ k >= 1
  BY <1>i, <1>q0, <1>q1, <1>rs, <1>nl DEF NumStream, Numbers
<1>y4a. k \in 0 .. Len(p.pend) /\ k \in 1 .. Len(p.pend)
  BY <1>y4
<1>y4b. x.pend = p.pend /\ x.readReq = None
  BY <1>y3, <1>z1
<1>y4c. k \in 1 .. Len(x.pend)
  BY <1>y4a, <1>y4b, Zenon
<1>y5. PICK y : y = Rest(x, k)
  OBVIOUS
<1>y6. AfterDrop(y, x, k)
  BY <1>y3, <1>y4b, <1>y4c, <1>y5, RestIs
<1>y7. Len(given) \in Nat /\ p.pend = From(Len(given), Len(p.pend))
  BY <1>i, <1>gg DEF Ordered
<1>y8. SubSeq(From(Len(given), Len(p.pend)), k + 1, Len(p.pend)) = From(Len(given) + k, Len(p.pend) - k)
  BY <1>y4, <1>y4a, <1>gg, FromSub, Zenon
<1>y8a. SubSeq(p.pend, k + 1, Len(p.pend)) = From(Len(given) + k, Len(p.pend) - k)
  BY <1>y7, <1>y8, Zenon
<1>y9. /\ y \in PipeInfo /\ Counted(y) /\ y.ack = FALSE /\ y.readReq = None
            /\ y.pend = From(Len(given'), Len(p.pend) - k) /\ Len(y.pend) = Len(p.pend) - k
       /\ y.readReq = p.readReq /\ y.writeReq = p.writeReq /\ y.data = p.data /\ y.max = p.max
            /\ y.open = p.open /\ y.ackPos = p.ackPos /\ y.WritePos = p.WritePos
  BY <1>y3, <1>y6, <1>y8a, <1>jo, <1>z1 DEF AfterDrop
<1>e2. ~eof
  BY <1>i, <1>y4 DEF Ending, Ordered, NumStream, NumWriter, Numbers
<1>3. /\ p.pend # <<>> /\ ~p.ack /\ ~Live /\ eof' = eof /\ ~eof'
  BY <1>y2, <1>y4, <1>nl, <1>e1, <1>e2
<1>w0. Active /\ p.writeReq = TheWrite
  BY <1>i DEF Resting, Asking
<1>w1. /\ TheWrite \in WriteReqs /\ TheWrite.size >= 1 /\ TheWrite.pos = told
            /\ TheWrite.size = goal - told
       /\ goal - told \in Nat /\ goal - told \in 1 .. MaxSize /\ told \in Nat /\ goal <= Total
            /\ told \in 0 .. Total
  BY <1>i, <1>w0, RequestIs
<1>w2. TheWrite # None
  BY <1>w1
<1>w3. y = Rest(Acked(p, Confirmed), Confirmed)
  BY <1>d1, <1>q0, <1>y0, <1>y5
<1>w. /\ Active /\ wpc = "reply" /\ Taken = told /\ toWriter = <<>> /\ toServer = <<>>
           /\ xfer = NoXfer /\ p.WritePos # told
      /\ goal - told \in Nat /\ goal - told \in 1 .. MaxSize /\ told \in Nat /\ goal <= Total
           /\ told \in 0 .. Total /\ told < goal
  BY <1>i, <1>w0, <1>w1 DEF Asking, OneToken, Placed, NumWriter, Numbers
<1>s. PICK n \in 1 .. goal - told : /\ y.got + n <= y.max /\ toWriter' = <<Reply("done", n)>>
                                 /\ p' = Store([y EXCEPT !.writeReq = None], told, From(told, n))
  BY <1>w3, <1>w1 DEF Stores
<1>n0. n \in Nat /\ n >= 1 /\ told + n <= Total /\ n \in 1 .. MaxSize /\ n \in 1 .. goal - told
         /\ told + n <= goal
  BY <1>s, <1>w1, <1>w, <1>i DEF NumWriter, Numbers
<1>h1. AfterStore(p', y, told, n)
  BY <1>s, <1>n0, <1>y9, <1>w1, StoreIs
<1>r0. PICK r : r = Reply("done", n)
  OBVIOUS
<1>r1. r \in Replies /\ r.kind = "done" /\ r.n = n
  BY <1>r0, <1>n0 DEF Reply, Replies, Places
<1>4. toWriter' = <<r>> /\ r \in Replies /\ r.kind = "done" /\ r.n = n
  BY <1>r0, <1>r1, <1>s
<1>h2. /\ p' \in PipeInfo /\ p'.ack = FALSE /\ p'.writeReq = None /\ p'.readReq = None
            /\ p'.WritePos = told /\ p'.data = None /\ p'.open = p.open
       /\ p'.pend = y.pend \o From(told, n) /\ Len(p'.pend) = Len(y.pend) + n
            /\ y.pend = From(Len(given'), Len(y.pend)) /\ Len(y.pend) \in Nat
  BY <1>h1, <1>y9, <1>y4, <1>z1 DEF AfterStore
<1>k3. Len(given) \in Nat
  BY <1>gg
<1>k4. Len(given') \in Nat /\ Len(given) <= Len(given')
  BY <1>y4, <1>jo, <1>k3
<1>k4a. Len(p.pend) \in Int /\ Len(given) \in Int /\ k \in Int
  BY <1>y4, <1>k3
<1>k4b. (Len(given) + k) + (Len(p.pend) - k) = Len(given) + Len(p.pend)
  BY <1>k4a, Shifted, Zenon
<1>k4c. Len(given') + Len(y.pend) = told
  BY <1>y9, <1>jo, <1>k4b, <1>w, Zenon
<1>k5. told = Len(given') + Len(y.pend) /\ Len(given') \in Nat /\ Len(y.pend) \in Nat
         /\ n \in Nat
  BY <1>k4c, <1>k4, <1>h2, <1>n0
<1>k6. From(Len(given'), Len(y.pend)) \o From(Len(given') + Len(y.pend), n) = From(Len(given'), Len(y.pend) + n)
  BY <1>k5, FromConcat, ZenonT(60)
<1>k7. p'.pend = From(Len(given'), Len(p'.pend))
  BY <1>k5, <1>k6, <1>h2, Zenon
<1>2. /\ p' \in PipeInfo /\ p'.ack = FALSE /\ p'.pend = From(Len(given'), Len(p'.pend))
      /\ p'.writeReq = None /\ p'.readReq = None /\ p'.WritePos = told /\ p'.data = None
           /\ p'.open = p.open
  BY <1>h2, <1>k7
<1>k8. Len(p'.pend) = Len(y.pend) + n
  BY <1>h2
<1>k9. Taken' = told + n
  BY <1>k5, <1>k8
<1>k10. told + n > told /\ n = (told + n) - told
  BY <1>n0, <1>w1
<1>5. /\ Len(given') \in Nat /\ Taken' = told + n /\ Taken' > told /\ n = Taken' - told
           /\ n >= 1 /\ Taken' <= goal /\ Taken = told /\ Len(given) <= Len(given') /\ n \in Nat
  BY <1>k4, <1>k9, <1>k10, <1>w, <1>n0, Zenon
<1>6. given' = From(0, Len(given'))
  BY <1>gn
<1>8. /\ rpc = "ack" /\ toReader = <<>> /\ toReader' = <<>> /\ p.readReq = None /\ p.data = None
           /\ stale' = FALSE
      /\ res' = <<>> /\ seq' = 0 /\ err' = "none" /\ rpc' = "idle" /\ want' = NoWant
           /\ trouble' = "no" /\ trouble = "no"
  BY <1>z1, <1>o2, <1>v, <1>t, <1>d0
<1>z. TypeOK' /\ NoWaitInVain' /\ OnlyByLoss'
  BY <1>zz
<1>C. Ordered' /\ Placed' /\ Untold'
  <2>0. told' = told /\ goal' = goal /\ ~(told > told)
    BY <1>u, <1>w
  <2>1. Ordered'
    <3>1. told <= Taken' /\ Taken' <= goal
      BY <1>i, <1>5 DEF Numbers, NumWriter
    <3>2. p'.pend = From(Len(given'), Len(p'.pend))
      BY <1>2
    <3> QED
      BY <2>0, <3>1, <3>2, <1>6, Zenon DEF Ordered
  <2>2. Placed'
    <3>1. p'.WritePos = told /\ Taken' > told
      BY <1>2, <1>5
    <3> QED
      BY <2>0, <3>1, Zenon DEF Placed
  <2>3. Untold'
    BY <1>4, <1>5 DEF Untold
  <2> QED
    BY <2>1, <2>2, <2>3
<1>D. Resting' /\ Ending' /\ Asking' /\ OneToken'
  <2>1. Resting'
    BY <1>u, <1>w DEF Resting
  <2>2. Ending'
    BY <1>i, <1>u, <1>2, <1>3, <1>w DEF Ending
  <2>3. Asking'
    BY <1>u, <1>w, <1>2 DEF Asking
  <2>4. OneToken'
    BY <1>u, <1>w, <1>2, <1>4, <1>8 DEF OneToken
  <2> QED
    BY <2>1, <2>2, <2>3, <2>4
<1>F. Answered' /\ Delivering'
  <2>1. Answer(r)'
    <3>1. r.n = Taken' - told' /\ r.n >= 1
      BY <1>u, <1>4, <1>5
    <3> QED
      BY <3>1, <1>4, <1>u, <1>w DEF Answer
  <2>2. Answered'
    BY <2>1, <1>4 DEF Answered
  <2>3. Delivering'
    BY <1>i, <1>u, <1>2, <1>8, <1>w DEF Delivering
  <2> QED
    BY <2>2, <2>3
<1>G. Stale'
  BY <1>i, <1>u, <1>3, <1>w, <1>4, <1>2, <1>5, <1>6, <1>8, <1>z DEF Stale,
     Numbers, NumFlags
<1>M. Sending'
  BY <1>i, <1>u, <1>3, <1>w, <1>4, <1>2, <1>5, <1>6, <1>8, <1>z DEF Stale,
     Sending, FromWriter, Numbers, NumWriter, NumXfer, NumPort
<1>K. Exchanging'
  BY <1>i, <1>u, <1>3, <1>w, <1>4, <1>2, <1>5, <1>6, <1>8, <1>z DEF Stale,
     Sending, Exchanging, Numbers, NumWriter
<1>H. ReaderIdle' /\ ReaderRequest' /\ ReaderData' /\ ReaderAck'
  BY <1>i, <1>u, <1>3, <1>w, <1>4, <1>2, <1>5, <1>6, <1>8, <1>z DEF
     ReaderIdle, ReaderRequest, ReaderData, ReaderAck, Numbers, NumReader
<1>J. ToReaderOK'
  BY <1>i, <1>u, <1>3, <1>w, <1>4, <1>2, <1>5, <1>6, <1>8, <1>z DEF
     ToReaderOK, Numbers, NumReader
<1>S. Stream!Next \/ UNCHANGED Stream!vars
  BY <1>i, <1>u, <1>3, <1>w, <1>4, <1>2, <1>5, <1>6, <1>8, <1>z, <1>C,
     StreamCarries DEF State, NumStream
<1> QED
  BY <1>C, <1>D, <1>F, <1>G, <1>M, <1>K, <1>H, <1>J, <1>S, <1>z DEF Correct

(* A write is kept, and its data is now awaited.                           *)
LEMMA ReadAckAwaitsCorrect ==
  ASSUME PipeInv, trouble = "no", trouble' = "no", ~Live, err = "none",
         p.writeReq # None,
         Awaits(Rest(Acked(p, Confirmed), Confirmed), TheWrite, p', toWriter'), ReadAck
  PROVE  Correct
<1> USE SizeAssumption, NoneAssumption DEF Deep, Active, Live, Taken, TheWrite, TheClose
<1>i. TypeOK /\ Deep /\ Numbers
  BY NumbersAre DEF PipeInv
<1>u. UNCHANGED <<toServer, toData, wpc, told, goal, xfer, port, lost, left, trouble>>
  BY DEF ReadAck, writer, losses
<1>zz. TypeOK' /\ NoWaitInVain' /\ OnlyByLoss'
  BY ReadAckSound
<1>z1. /\ p \in PipeInfo /\ NoneInVain(p) /\ p.readReq = None /\ toReader = <<>>
            /\ toWriter \in Seq(Replies) /\ p.data = None /\ rpc = "ack"
  BY <1>i DEF PipeInv, NoneInVain, Counted, NoWaitInVain, TypeOK, ReaderAck,
     ReadAck, Idle
<1>o. PICK o : o \in DoReadAck(p, Confirmed) /\ Serve(o)
  BY DEF ReadAck, Confirmed, Failed
<1>o1. o.r = <<>>
  BY <1>o, <1>z1, ReadAckLeaves
<1>o2. /\ p' = o.p /\ toWriter' = toWriter \o o.w /\ toReader' = <<>>
  BY <1>o, <1>o1, <1>z1 DEF Serve
<1>t. ~(p.ack /\ stale) /\ ~(Failed /\ res # <<>> /\ ~Again) /\ stale' = FALSE
  BY DEF ReadAck, Failed
<1>v. /\ res' = <<>> /\ seq' = 0 /\ err' = "none"
      /\ ((Failed /\ rpc' = "request" /\ want' = want /\ given' = given /\ eof' = eof)
          \/ (rpc' = "idle" /\ want' = NoWant /\ given' = given \o res /\ eof' = (eof \/ err = "eof")))
  BY DEF ReadAck, AskAgain, Again, Failed
<1>nl. ~Live
  OBVIOUS
<1>d0. ~Failed /\ err = "none" /\ rpc' = "idle" /\ want' = NoWant /\ given' = given \o res
  BY <1>v DEF Failed
<1>d1. Confirmed = Len(res)
  BY <1>d0 DEF Confirmed
<1>e0. eof \in BOOLEAN
  BY <1>i DEF NumFlags, Numbers
<1>e1. eof' = eof
  BY <1>e0, <1>d0, <1>v
<1>q0. PICK k : k = Len(res)
  OBVIOUS
<1>rs. /\ res # <<>> /\ res = From(Len(given), Len(res)) /\ res \in Bytes /\ given \in Bytes
       /\ Live => Len(res) <= goal - told /\ wpc \in {"reply", "confirm"}
            /\ (wpc = "confirm" => Len(res) = xfer.sent)
       /\ ~Live => Len(res) <= Len(p.pend)
  BY <1>i, <1>d0, <1>z1 DEF ReaderAck, TypeOK
<1>q1. k \in Nat /\ k >= 1 /\ k > 0
  BY <1>q0, <1>rs, EmptySeq DEF Bytes
<1>jo. Len(given') = Len(given) + k
  BY <1>q0, <1>d0, <1>rs, Joined
<1>gg. Len(given) \in Nat /\ 0 + Len(given) = Len(given)
  BY <1>i DEF NumStream, Numbers
<1>gi. given = From(0, Len(given))
  BY <1>i DEF Ordered
<1>gc. From(0, Len(given)) \o From(0 + Len(given), k) = From(0, Len(given) + k)
  BY <1>gg, <1>q1, FromConcat, ZenonT(60)
<1>gn. given' = From(0, Len(given'))
  BY <1>d0, <1>gi, <1>gc, <1>gg, <1>jo, <1>rs, <1>q0, Zenon
<1>y0. PICK x : x = Acked(p, k)
  OBVIOUS
<1>y1. AfterAck(x, p, k)
  BY <1>y0, <1>z1, AckedIs
<1>y2. ~p.ack
  BY <1>t, <1>nl
<1>y3. /\ x \in PipeInfo /\ Counted(x) /\ x.ack = FALSE /\ x.readReq = p.readReq
            /\ x.writeReq = p.writeReq /\ x.data = p.data /\ x.pend = p.pend /\ x.got = p.got
                 /\ x.max = p.max /\ x.open = p.open /\ x.ackPos = p.ackPos
                      /\ x.WritePos = p.WritePos
  BY <1>y1, <1>y2 DEF AfterAck, NoneInVain
<1>y4. k <= Len(p.pend) /\ Len(p.pend) \in Nat /\ k \in Nat /\ k >= 1
  BY <1>i, <1>q0, <1>q1, <1>rs, <1>nl DEF NumStream, Numbers
<1>y4a. k \in 0 .. Len(p.pend) /\ k \in 1 .. Len(p.pend)
  BY <1>y4
<1>y4b. x.pend = p.pend /\ x.readReq = None
  BY <1>y3, <1>z1
<1>y4c. k \in 1 .. Len(x.pend)
  BY <1>y4a, <1>y4b, Zenon
<1>y5. PICK y : y = Rest(x, k)
  OBVIOUS
<1>y6. AfterDrop(y, x, k)
  BY <1>y3, <1>y4b, <1>y4c, <1>y5, RestIs
<1>y7. Len(given) \in Nat /\ p.pend = From(Len(given), Len(p.pend))
  BY <1>i, <1>gg DEF Ordered
<1>y8. SubSeq(From(Len(given), Len(p.pend)), k + 1, Len(p.pend)) = From(Len(given) + k, Len(p.pend) - k)
  BY <1>y4, <1>y4a, <1>gg, FromSub, Zenon
<1>y8a. SubSeq(p.pend, k + 1, Len(p.pend)) = From(Len(given) + k, Len(p.pend) - k)
  BY <1>y7, <1>y8, Zenon
<1>y9. /\ y \in PipeInfo /\ Counted(y) /\ y.ack = FALSE /\ y.readReq = None
            /\ y.pend = From(Len(given'), Len(p.pend) - k) /\ Len(y.pend) = Len(p.pend) - k
       /\ y.readReq = p.readReq /\ y.writeReq = p.writeReq /\ y.data = p.data /\ y.max = p.max
            /\ y.open = p.open /\ y.ackPos = p.ackPos /\ y.WritePos = p.WritePos
  BY <1>y3, <1>y6, <1>y8a, <1>jo, <1>z1 DEF AfterDrop
<1>e2. ~eof
  BY <1>i, <1>y4 DEF Ending, Ordered, NumStream, NumWriter, Numbers
<1>3. /\ p.pend # <<>> /\ ~p.ack /\ ~Live /\ eof' = eof /\ ~eof'
  BY <1>y2, <1>y4, <1>nl, <1>e1, <1>e2
<1>w0. Active /\ p.writeReq = TheWrite
  BY <1>i DEF Resting, Asking
<1>w1. /\ TheWrite \in WriteReqs /\ TheWrite.size >= 1 /\ TheWrite.pos = told
            /\ TheWrite.size = goal - told
       /\ goal - told \in Nat /\ goal - told \in 1 .. MaxSize /\ told \in Nat /\ goal <= Total
            /\ told \in 0 .. Total
  BY <1>i, <1>w0, RequestIs
<1>w2. TheWrite # None
  BY <1>w1
<1>w3. y = Rest(Acked(p, Confirmed), Confirmed)
  BY <1>d1, <1>q0, <1>y0, <1>y5
<1>w. /\ Active /\ wpc = "reply" /\ Taken = told /\ toWriter = <<>> /\ toServer = <<>>
           /\ xfer = NoXfer /\ p.WritePos # told
      /\ goal - told \in Nat /\ goal - told \in 1 .. MaxSize /\ told \in Nat /\ goal <= Total
           /\ told \in 0 .. Total /\ told < goal
  BY <1>i, <1>w0, <1>w1 DEF Asking, OneToken, Placed, NumWriter, Numbers
<1>s. PICK n \in 1 .. goal - told : /\ y.got + n <= y.max
             /\ toWriter' = <<Sizes(n, n, "DataPort")>>
                                 /\ p' = [y EXCEPT !.writeReq = None, !.data = [pos |-> told, size |-> n]]
  BY <1>w3, <1>w1 DEF Awaits
<1>n0. n \in Nat /\ n >= 1 /\ told + n <= Total /\ n \in 1 .. MaxSize /\ n \in 1 .. goal - told
         /\ told + n <= goal
  BY <1>s, <1>w1, <1>w, <1>i DEF NumWriter, Numbers
<1>h1. AfterAwait(p', y, told, n)
  BY <1>s, <1>n0, <1>y9, <1>w1, AwaitIs
<1>r0. PICK r : r = Sizes(n, n, "DataPort")
  OBVIOUS
<1>r1. r \in Replies /\ r.kind = "sizes" /\ r.n = n /\ r.first = n /\ r.to = "DataPort"
  BY <1>r0, <1>n0 DEF Sizes, Replies, Places
<1>4. toWriter' = <<r>> /\ r \in Replies /\ r.kind = "sizes" /\ r.n = n /\ r.first = n
        /\ r.to = "DataPort"
  BY <1>r0, <1>r1, <1>s
<1>2. /\ p' \in PipeInfo /\ p'.ack = FALSE /\ p'.pend = From(Len(given'), Len(p'.pend))
           /\ p'.got + n <= p'.max
      /\ p'.writeReq = None /\ p'.readReq = None /\ p'.data # None /\ p'.data.pos = told
           /\ p'.data.size = n /\ p'.open = p.open /\ p'.WritePos = p.WritePos
  BY <1>s, <1>h1, <1>y9, <1>w2 DEF AfterAwait
<1>k2. p'.pend = y.pend
  BY <1>h1 DEF AfterAwait
<1>k3. Len(given) \in Nat
  BY <1>gg
<1>k4. Len(given') \in Nat /\ Len(given) <= Len(given')
  BY <1>y4, <1>jo, <1>k3
<1>k4a. Len(p.pend) \in Int /\ Len(given) \in Int /\ k \in Int
  BY <1>y4, <1>k3
<1>k4b. (Len(given) + k) + (Len(p.pend) - k) = Len(given) + Len(p.pend)
  BY <1>k4a, Shifted, Zenon
<1>k4c. Len(given') + Len(y.pend) = told
  BY <1>y9, <1>jo, <1>k4b, <1>w, Zenon
<1>k5. Taken' = told
  BY <1>k2, <1>k4c, Zenon
<1>5. /\ Len(given') \in Nat /\ Taken' = told /\ Taken = told /\ Len(given) <= Len(given')
           /\ n >= 1 /\ n \in Nat /\ n \in 1 .. goal - told /\ n <= goal - told
  BY <1>k4, <1>k5, <1>w, <1>n0
<1>6. given' = From(0, Len(given'))
  BY <1>gn
<1>8. /\ rpc = "ack" /\ toReader = <<>> /\ toReader' = <<>> /\ p.readReq = None /\ p.data = None
           /\ stale' = FALSE
      /\ res' = <<>> /\ seq' = 0 /\ err' = "none" /\ rpc' = "idle" /\ want' = NoWant
           /\ trouble' = "no" /\ trouble = "no"
  BY <1>z1, <1>o2, <1>v, <1>t, <1>d0
<1>z. TypeOK' /\ NoWaitInVain' /\ OnlyByLoss'
  BY <1>zz
<1>C. Ordered' /\ Placed' /\ Untold'
  BY <1>i, <1>u, <1>3, <1>w, <1>4, <1>2, <1>5, <1>6, <1>8, <1>z DEF Ordered,
     Placed, Untold, Numbers, NumWriter, NumStream
<1>D. Resting' /\ Ending' /\ Asking' /\ OneToken'
  BY <1>i, <1>u, <1>3, <1>w, <1>4, <1>2, <1>5, <1>6, <1>8, <1>z DEF Resting,
     Ending, Asking, OneToken, Numbers, NumWriter
<1>F. Answered' /\ Delivering'
  BY <1>i, <1>u, <1>3, <1>w, <1>4, <1>2, <1>5, <1>6, <1>8, <1>z DEF Answered,
     Delivering, Answer, OneToken, Numbers, NumWriter, NumStream
<1>G. Stale'
  BY <1>i, <1>u, <1>3, <1>w, <1>4, <1>2, <1>5, <1>6, <1>8, <1>z DEF Stale,
     Numbers, NumFlags
<1>M. Sending'
  BY <1>i, <1>u, <1>3, <1>w, <1>4, <1>2, <1>5, <1>6, <1>8, <1>z DEF Stale,
     Sending, FromWriter, Numbers, NumWriter, NumXfer, NumPort
<1>K. Exchanging'
  BY <1>i, <1>u, <1>3, <1>w, <1>4, <1>2, <1>5, <1>6, <1>8, <1>z DEF Stale,
     Sending, Exchanging, Numbers, NumWriter
<1>H. ReaderIdle' /\ ReaderRequest' /\ ReaderData' /\ ReaderAck'
  BY <1>i, <1>u, <1>3, <1>w, <1>4, <1>2, <1>5, <1>6, <1>8, <1>z DEF
     ReaderIdle, ReaderRequest, ReaderData, ReaderAck, Numbers, NumReader
<1>J. ToReaderOK'
  BY <1>i, <1>u, <1>3, <1>w, <1>4, <1>2, <1>5, <1>6, <1>8, <1>z DEF
     ToReaderOK, Numbers, NumReader
<1>S. Stream!Next \/ UNCHANGED Stream!vars
  BY <1>i, <1>u, <1>3, <1>w, <1>4, <1>2, <1>5, <1>6, <1>8, <1>z, <1>C,
     StreamCarries DEF State, NumStream
<1> QED
  BY <1>C, <1>D, <1>F, <1>G, <1>M, <1>K, <1>H, <1>J, <1>S, <1>z DEF Correct

(* A write that waited is tried again.                                     *)
LEMMA ReadAckResumesCorrect ==
  ASSUME PipeInv, trouble = "no", trouble' = "no", ~Live, err = "none", p.writeReq # None,
           ReadAck
  PROVE  Correct
<1> DEFINE y == Rest(Acked(p, Confirmed), Confirmed)
<1>1. /\ TypeOK /\ Deep /\ Numbers /\ p \in PipeInfo /\ NoneInVain(p) /\ p.readReq = None
           /\ toReader = <<>>
      /\ rpc = "ack"
  BY NumbersAre DEF PipeInv, NoneInVain, Counted, NoWaitInVain, TypeOK, Deep, ReaderAck, ReadAck
<1>2. PICK o \in DoReadAck(p, Confirmed) : Serve(o)
  BY DEF ReadAck, Confirmed, Failed
<1>3. /\ Active /\ Taken = told /\ p.WritePos # told /\ toWriter = <<>> /\ p.writeReq = TheWrite
      /\ told \in Nat /\ res # <<>> /\ Len(res) <= Len(p.pend)
  BY <1>1 DEF Deep, Resting, Asking, OneToken, Placed, ReaderAck, Numbers, NumWriter
<1>4. ~(p.ack /\ stale) /\ ~p.ack
  BY DEF ReadAck, Live
<1>5. Confirmed \in 1 .. Len(p.pend)
  <2>1. Confirmed = Len(res)
    BY DEF Confirmed, Failed
  <2>2. res \in Bytes /\ Len(p.pend) \in Nat
    BY <1>1 DEF TypeOK, Numbers, NumStream
  <2>3. Len(res) \in Nat /\ Len(res) # 0
    BY <2>2, <1>3, EmptySeq DEF Bytes
  <2> QED
    BY <2>1, <2>2, <2>3, <1>3
<1>6. Resumes(o)
  <2>1. ~OnlyAcks(o)
    <3>1. Len(p.pend) \in Nat /\ Confirmed >= 1 /\ Len(p.pend) >= 1
      BY <1>1, <1>5 DEF Numbers, NumStream
    <3>2. p.pend # <<>> /\ ~(Confirmed <= 0)
      BY <3>1, <1>5
    <3> QED
      BY <3>2 DEF OnlyAcks
  <2>2. ~OnlyDrops(o)
    BY DEF OnlyDrops
  <2> QED
    BY <1>1, <2>1, <2>2, ReadAckIs
<1>7. /\ y \in PipeInfo /\ Counted(y) /\ y.readReq = None /\ y.WritePos = p.WritePos
  <2>1. PICK k : k = Confirmed
    OBVIOUS
  <2>2. PICK x : x = Acked(p, k)
    OBVIOUS
  <2>3. AfterAck(x, p, k)
    BY <2>2, <1>1, AckedIs
  <2>4. x \in PipeInfo /\ Counted(x) /\ x.pend = p.pend /\ x.readReq = None
          /\ x.WritePos = p.WritePos
    BY <2>3, <1>1, <1>4 DEF AfterAck, NoneInVain
  <2>5. k \in 1 .. Len(x.pend)
    BY <2>1, <2>4, <1>5
  <2>6. AfterDrop(Rest(x, k), x, k)
    BY <2>4, <2>5, RestIs
  <2> QED
    BY <2>1, <2>2, <2>4, <2>6 DEF AfterDrop
<1> HIDE DEF y
<1>8. PICK a, b : Unread(y, TheWrite, a, b) /\ o = Out(a, AckReply \o b, <<>>)
  BY <1>6, Zenon DEF Resumes, y
<1>9. /\ TheWrite \in WriteReqs /\ TheWrite.size >= 1 /\ TheWrite.pos = told
      /\ TheWrite.pos + TheWrite.size <= Total
  <2>1. /\ TheWrite \in WriteReqs /\ TheWrite.size >= 1 /\ TheWrite.pos = told
             /\ TheWrite.size = goal - told
        /\ goal <= Total
    BY <1>1, <1>3, RequestIs
  <2>2. told + (goal - told) = goal
    BY <1>1 DEF Numbers, NumWriter
  <2> QED
    BY <2>1, <2>2
<1>10. b \in Seq(Replies)
  BY <1>7, <1>8, <1>9, UnreadLeaves
<1>11. p' = a /\ toWriter' = b
  <2>1. AckReply = <<>>
    BY <1>4 DEF AckReply
  <2>2. p' = a /\ toWriter' = <<>> \o (<<>> \o b)
    BY <1>2, <1>3, <1>8, <2>1 DEF Serve, Out
  <2> QED
    BY <2>2, <1>10, NothingJoined
<1>12. CASE Repeats(y, TheWrite, a, b)
  BY <1>12, <1>3, <1>7, <1>9 DEF Repeats
<1>13. CASE Holds(y, TheWrite, a, b)
  BY <1>13, <1>11, ReadAckHoldsCorrect DEF y
<1>14. CASE Stores(y, TheWrite, a, b)
  BY <1>14, <1>11, ReadAckStoresCorrect DEF y
<1>15. CASE Awaits(y, TheWrite, a, b)
  BY <1>15, <1>11, ReadAckAwaitsCorrect DEF y
<1> QED
  BY <1>8, <1>12, <1>13, <1>14, <1>15 DEF Unread

(* The reader acknowledges.                                                *)
LEMMA ReadAckCorrect ==
  ASSUME PipeInv, trouble = "no", ReadAck
  PROVE  Correct
<1>1. CASE trouble' # "no"
  BY <1>1, ReadAckSound, StreamBreaks DEF Correct
<1>2. CASE trouble' = "no"
  <2>1. err \in {"none", "timeout", "sequence", "eof"}
    BY DEF PipeInv, TypeOK
  <2>2. CASE err = "none"
    BY <1>2, <2>2, ReadAckExchangedCorrect, ReadAckDropsCorrect, ReadAckResumesCorrect
  <2>3. CASE err = "eof"
    BY <1>2, <2>3, ReadAckEndsCorrect
  <2>4. CASE Failed
    <3>1. CASE ~p.ack
      BY <1>2, <2>4, <3>1, ReadAckFailsCorrect
    <3>2. CASE Live
      BY <1>2, <2>4, <3>2, ReadAckDeniesCorrect
    <3>3. ~(p.ack /\ stale)
      BY <1>2 DEF ReadAck
    <3> QED
      BY <3>1, <3>2, <3>3 DEF Live
  <2> QED
    BY <2>1, <2>2, <2>3, <2>4 DEF Failed
<1> QED
  BY <1>1, <1>2

----------------------------------------------------------------------------
(* A write and a read meet.                                                *)

(* The server passes the data on.                                          *)
LEMMA MeetsWithDataCorrect ==
  ASSUME PipeInv, trouble = "no", NEW n, toWriter' = <<>>,
         toReader' = <<ToReader("data", From(told, n))>>, Meets(n)
  PROVE  Correct
<1> USE SizeAssumption, NoneAssumption DEF Deep, Active, Live, Taken, TheWrite, TheClose
<1>i. TypeOK /\ Deep /\ Numbers
  BY NumbersAre DEF PipeInv
<1>u. UNCHANGED <<toData, wpc, told, goal, xfer, want, res, seq, err, port, given, eof, lost,
                  left, trouble>>
  BY DEF Meets
<1>1. /\ Active /\ wpc = "reply" /\ Taken = told /\ ~Live /\ toWriter = <<>> /\ p.data = None
           /\ p.pend = <<>>
      /\ toReader = <<>> /\ res = <<>> /\ seq = 0 /\ err = "none" /\ want # NoWant
           /\ rpc \in {"data", "request"}
      /\ rpc' = "data" /\ toServer' = <<>> /\ stale' = FALSE
  BY DEF Meets
<1>w1. /\ TheWrite \in WriteReqs /\ TheWrite.size >= 1 /\ TheWrite.pos = told
            /\ TheWrite.size = goal - told
       /\ goal - told \in Nat /\ goal - told \in 1 .. MaxSize /\ told \in Nat /\ goal <= Total
            /\ told \in 0 .. Total
  BY <1>i, <1>1, RequestIs
<1>w2. Counted(p) /\ p \in PipeInfo
  BY <1>i DEF PipeInv, NoWaitInVain, TypeOK, Counted
<1>w3. AfterMeeting(p', p, TheWrite)
  BY <1>w1, <1>w2, MetIs DEF Meets
<1>2. /\ p' \in PipeInfo /\ NoneInVain(p') /\ p'.writeReq = None /\ p'.readReq = None /\ p'.ack
           /\ p'.ackPos = told
      /\ p'.data = p.data /\ p'.pend = p.pend /\ p'.got = p.got /\ p'.max = p.max
           /\ p'.open = p.open /\ p'.WritePos = p.WritePos
  BY <1>w1, <1>w3 DEF AfterMeeting
<1>n0. n \in Nat /\ n >= 1 /\ told + n <= Total /\ n \in 1 .. MaxSize /\ n \in 1 .. goal - told
         /\ n <= goal - told /\ n <= want.size
  BY <1>w1, <1>i DEF Meets, NumWriter, Numbers
<1>g. given = From(0, Len(given)) /\ told = Len(given) /\ Len(p.pend) = 0
  BY <1>i, <1>1 DEF Ordered, NumStream, Numbers
<1>3. /\ n \in 1 .. goal - told /\ n <= goal - told /\ n <= want.size /\ n \in Nat /\ n >= 1
           /\ told = Len(given)
  BY <1>n0, <1>g
<1>b0. told \in Int /\ told \in Nat /\ n \in Nat /\ told + n <= Total
  BY <1>w1, <1>n0
<1>b1. From(told, n) \in Bytes /\ Len(From(told, n)) = n
  BY <1>b0, FromBytes, FromType
<1>b. PICK b : b = From(told, n)
  OBVIOUS
<1>b2. b \in Bytes /\ Len(b) = n /\ b = From(Len(given), Len(b))
  BY <1>b, <1>b1, <1>g, Zenon
<1>e. PICK e : e = ToReader("data", b)
  OBVIOUS
<1>4. /\ e \in Answers /\ e.kind = "data" /\ e.seq = 0 /\ e.last /\ Len(e.bytes) = n
           /\ e.bytes = From(Len(given), Len(e.bytes))
  BY <1>e, <1>b2 DEF Answers, ToReader
<1>5. toReader' = <<e>> /\ toWriter' = <<>>
  BY <1>e, <1>b
<1>A. TypeOK'
  <2>1. p' \in PipeInfo /\ p'.got <= p'.max
    BY <1>i, <1>2 DEF TypeOK
  <2>2. toReader' \in Seq(Answers) /\ toWriter' \in Seq(Replies)
    BY <1>4, <1>5
  <2>3. toServer' = <<>> /\ rpc' = "data" /\ stale' = FALSE
    BY <1>1
  <2>4. toServer' \in Seq(WriteReqs)
    BY <2>3
  <2>5. TypeOK
    BY <1>i
  <2>6. rpc' \in {"idle", "request", "data", "ack"} /\ stale' \in BOOLEAN
    BY <2>3
  <2> QED
    BY <2>5, <1>u, <2>1, <2>2, <2>4, <2>6 DEF TypeOK
<1>B. NoWaitInVain'
  BY <1>i, <1>u, <1>1, <1>2, <1>3, <1>4, <1>5 DEF NoWaitInVain, PipeInv,
     NoneInVain, Counted
<1>L. OnlyByLoss'
  BY <1>i, <1>u, <1>1, <1>2, <1>3, <1>4, <1>5 DEF OnlyByLoss, PipeInv
<1>C. Ordered' /\ Placed' /\ Untold'
  BY <1>i, <1>u, <1>1, <1>2, <1>3, <1>4, <1>5 DEF Ordered, Placed, Untold,
     Numbers, NumWriter, NumStream
<1>D. Resting' /\ Ending' /\ Asking' /\ OneToken'
  BY <1>i, <1>u, <1>1, <1>2, <1>3, <1>4, <1>5 DEF Resting, Ending, Asking,
     OneToken, Numbers, NumWriter
<1>F. Answered' /\ Delivering'
  BY <1>i, <1>u, <1>1, <1>2, <1>3, <1>4, <1>5 DEF Answered, Delivering,
     Answer, Numbers, NumWriter, NumStream
<1>G. Stale'
  BY <1>i, <1>u, <1>1, <1>2, <1>3, <1>4, <1>5 DEF Stale, Numbers, NumFlags
<1>M. Sending'
  BY <1>i, <1>u, <1>1, <1>2, <1>3, <1>4, <1>5 DEF Stale, Sending, FromWriter,
     Numbers, NumWriter, NumXfer, NumPort
<1>K. Exchanging'
  BY <1>i, <1>u, <1>1, <1>2, <1>3, <1>4, <1>5 DEF Stale, Sending, Exchanging,
     Numbers, NumWriter
<1>H. ReaderIdle' /\ ReaderRequest' /\ ReaderData' /\ ReaderAck'
  BY <1>i, <1>u, <1>1, <1>2, <1>3, <1>4, <1>5 DEF ReaderIdle, ReaderRequest,
     ReaderData, ReaderAck, Numbers, NumReader
<1>J. ToReaderOK'
  BY <1>i, <1>u, <1>1, <1>2, <1>3, <1>4, <1>5 DEF ToReaderOK, FromServer,
     Numbers, NumReader
<1>S. UNCHANGED Stream!vars
  BY <1>i, <1>u, <1>1, <1>2, <1>3, <1>4, <1>5 DEF Stream!vars, State
<1> QED
  BY <1>A, <1>B, <1>L, <1>C, <1>D, <1>F, <1>G, <1>M, <1>K, <1>H, <1>J, <1>S
     DEF Correct

(* It tells the writer where to send the data.                             *)
LEMMA MeetsWithSizesCorrect ==
  ASSUME PipeInv, trouble = "no", NEW n, NEW first \in 1 .. n, toReader' = <<>>,
         toWriter' = <<Sizes(n, first, port)>>, Meets(n)
  PROVE  Correct
<1> USE SizeAssumption, NoneAssumption DEF Deep, Active, Live, Taken, TheWrite, TheClose
<1>i. TypeOK /\ Deep /\ Numbers
  BY NumbersAre DEF PipeInv
<1>u. UNCHANGED <<toData, wpc, told, goal, xfer, want, res, seq, err, port, given, eof, lost,
                  left, trouble>>
  BY DEF Meets
<1>1. /\ Active /\ wpc = "reply" /\ Taken = told /\ ~Live /\ toWriter = <<>> /\ p.data = None
           /\ p.pend = <<>>
      /\ toReader = <<>> /\ res = <<>> /\ seq = 0 /\ err = "none" /\ want # NoWant
           /\ rpc \in {"data", "request"}
      /\ rpc' = "data" /\ toServer' = <<>> /\ stale' = FALSE
  BY DEF Meets
<1>w1. /\ TheWrite \in WriteReqs /\ TheWrite.size >= 1 /\ TheWrite.pos = told
            /\ TheWrite.size = goal - told
       /\ goal - told \in Nat /\ goal - told \in 1 .. MaxSize /\ told \in Nat /\ goal <= Total
            /\ told \in 0 .. Total
  BY <1>i, <1>1, RequestIs
<1>w2. Counted(p) /\ p \in PipeInfo
  BY <1>i DEF PipeInv, NoWaitInVain, TypeOK, Counted
<1>w3. AfterMeeting(p', p, TheWrite)
  BY <1>w1, <1>w2, MetIs DEF Meets
<1>2. /\ p' \in PipeInfo /\ NoneInVain(p') /\ p'.writeReq = None /\ p'.readReq = None /\ p'.ack
           /\ p'.ackPos = told
      /\ p'.data = p.data /\ p'.pend = p.pend /\ p'.got = p.got /\ p'.max = p.max
           /\ p'.open = p.open /\ p'.WritePos = p.WritePos
  BY <1>w1, <1>w3 DEF AfterMeeting
<1>n0. n \in Nat /\ n >= 1 /\ told + n <= Total /\ n \in 1 .. MaxSize /\ n \in 1 .. goal - told
         /\ n <= goal - told /\ n <= want.size
  BY <1>w1, <1>i DEF Meets, NumWriter, Numbers
<1>g. given = From(0, Len(given)) /\ told = Len(given) /\ Len(p.pend) = 0
  BY <1>i, <1>1 DEF Ordered, NumStream, Numbers
<1>3. /\ n \in 1 .. goal - told /\ n <= goal - told /\ n <= want.size /\ n \in Nat /\ n >= 1
           /\ told = Len(given)
  BY <1>n0, <1>g
<1>p. port \in Places /\ first \in Nat
  BY <1>i, <1>n0 DEF NumPort, Places, Numbers
<1>f. n \in -1 .. MaxSize /\ first \in -1 .. MaxSize
  BY <1>n0, <1>p
<1>r. PICK r : r = Sizes(n, first, port)
  OBVIOUS
<1>4. /\ r \in Replies /\ r.kind = "sizes" /\ r.n = n /\ r.first = first /\ r.to = port
           /\ first \in 1 .. n
  BY <1>r, <1>p, <1>f DEF Sizes, Replies
<1>5. toReader' = <<>> /\ toWriter' = <<r>>
  BY <1>r
<1>A. TypeOK'
  <2>1. p' \in PipeInfo /\ p'.got <= p'.max
    BY <1>i, <1>2 DEF TypeOK
  <2>2. toReader' \in Seq(Answers) /\ toWriter' \in Seq(Replies)
    BY <1>4, <1>5
  <2>3. toServer' = <<>> /\ rpc' = "data" /\ stale' = FALSE
    BY <1>1
  <2>4. toServer' \in Seq(WriteReqs)
    BY <2>3
  <2>5. TypeOK
    BY <1>i
  <2>6. rpc' \in {"idle", "request", "data", "ack"} /\ stale' \in BOOLEAN
    BY <2>3
  <2> QED
    BY <2>5, <1>u, <2>1, <2>2, <2>4, <2>6 DEF TypeOK
<1>B. NoWaitInVain'
  BY <1>i, <1>u, <1>1, <1>2, <1>3, <1>4, <1>5 DEF NoWaitInVain, PipeInv,
     NoneInVain, Counted
<1>L. OnlyByLoss'
  BY <1>i, <1>u, <1>1, <1>2, <1>3, <1>4, <1>5 DEF OnlyByLoss, PipeInv
<1>C. Ordered' /\ Placed' /\ Untold'
  BY <1>i, <1>u, <1>1, <1>2, <1>3, <1>4, <1>5 DEF Ordered, Placed, Untold,
     Numbers, NumWriter, NumStream
<1>D. Resting' /\ Ending' /\ Asking' /\ OneToken'
  BY <1>i, <1>u, <1>1, <1>2, <1>3, <1>4, <1>5 DEF Resting, Ending, Asking,
     OneToken, Numbers, NumWriter
<1>F. Answered' /\ Delivering'
  BY <1>i, <1>u, <1>1, <1>2, <1>3, <1>4, <1>5 DEF Answered, Delivering,
     Answer, Numbers, NumWriter, NumStream
<1>G. Stale'
  BY <1>i, <1>u, <1>1, <1>2, <1>3, <1>4, <1>5 DEF Stale, Numbers, NumFlags
<1>M. Sending'
  BY <1>i, <1>u, <1>1, <1>2, <1>3, <1>4, <1>5 DEF Stale, Sending, FromWriter,
     Numbers, NumWriter, NumXfer, NumPort
<1>K. Exchanging'
  BY <1>i, <1>u, <1>1, <1>2, <1>3, <1>4, <1>5 DEF Stale, Sending, Exchanging,
     Numbers, NumWriter
<1>H. ReaderIdle' /\ ReaderRequest' /\ ReaderData' /\ ReaderAck'
  BY <1>i, <1>u, <1>1, <1>2, <1>3, <1>4, <1>5 DEF ReaderIdle, ReaderRequest,
     ReaderData, ReaderAck, Numbers, NumReader
<1>J. ToReaderOK'
  BY <1>i, <1>u, <1>1, <1>2, <1>3, <1>4, <1>5 DEF ToReaderOK, FromServer,
     Numbers, NumReader
<1>S. UNCHANGED Stream!vars
  BY <1>i, <1>u, <1>1, <1>2, <1>3, <1>4, <1>5 DEF Stream!vars, State
<1> QED
  BY <1>A, <1>B, <1>L, <1>C, <1>D, <1>F, <1>G, <1>M, <1>K, <1>H, <1>J, <1>S
     DEF Correct

(* A retry is told more than has got through.                              *)
LEMMA ServeWriteMisleadsCorrect ==
  ASSUME PipeInv, trouble = "no", trouble' # "no", p.WritePos = told, ServeWrite
  PROVE  Correct
<1> USE SizeAssumption, NoneAssumption DEF Deep, Active, Live, Taken, TheWrite, TheClose
<1>i. TypeOK /\ Deep /\ Numbers
  BY NumbersAre DEF PipeInv
<1>s0. toServer # <<>> /\ Head(toServer).kind = "write" /\ toServer' = Tail(toServer)
         /\ p.data = None
  BY DEF ServeWrite, Idle
<1>s1. Active
  BY <1>i, <1>s0 DEF Resting
<1>s2. toServer = <<TheWrite>>
  BY <1>i, <1>s0, <1>s1 DEF Asking
<1>s3. Head(toServer) = TheWrite /\ toServer' = <<>>
  BY <1>s0, <1>s2
<1>1. /\ Active /\ wpc = "reply" /\ toServer # <<>> /\ toServer' = <<>> /\ p.data = None
           /\ p.writeReq = None /\ toWriter = <<>> /\ ~Live /\ xfer = NoXfer
  BY <1>i, <1>s0, <1>s1, <1>s3 DEF Asking, OneToken
<1>w. /\ TheWrite \in WriteReqs /\ TheWrite.size >= 1 /\ TheWrite.pos = told
           /\ TheWrite.size = goal - told
      /\ goal - told \in Nat /\ goal - told \in 1 .. MaxSize /\ told \in Nat /\ goal <= Total
           /\ told \in 0 .. Total
  BY <1>i, <1>s1, RequestIs
<1>st. stale' = (stale /\ p.readReq = None)
  BY DEF ServeWrite
<1>u. UNCHANGED <<toData, wpc, told, goal, xfer, rpc, want, res, seq, err, port, given, eof,
                  lost, left>>
  BY DEF ServeWrite, writer, reader, losses
<1>w2. Counted(p) /\ p \in PipeInfo /\ (p.readReq # None => p.pend = <<>> /\ p.open)
  BY <1>i DEF PipeInv, NoWaitInVain, TypeOK, Counted
<1>o. PICK o \in DoPipeWrite(p, TheWrite) : Serve(o)
             /\ trouble' = IF Beyond(o.w) THEN "already" ELSE trouble
  BY <1>s3 DEF ServeWrite
<1>a0. o = Out([p EXCEPT !.writeReq = None], <<Reply("already", goal - told)>>, <<>>)
  BY <1>o, <1>w DEF DoPipeWrite
<1>r. PICK r : r = Reply("already", goal - told)
  OBVIOUS
<1>r1. goal - told \in -1 .. MaxSize
  BY <1>w
<1>4. r \in Replies /\ r.kind = "already" /\ r.n = goal - told
  BY <1>r, <1>r1 DEF Reply, Replies, Places
<1>q. toReader \in Seq(Answers) /\ <<r>> \in Seq(Replies)
  BY <1>i, <1>4 DEF TypeOK
<1>5. toWriter' = <<r>> /\ toReader' = toReader
  BY <1>o, <1>a0, <1>r, <1>1, <1>q, NothingJoined DEF Serve, Out
<1>p0. p' = [p EXCEPT !.writeReq = None]
  BY <1>o, <1>a0 DEF Serve, Out
<1>p1. AfterRepeat(p', p)
  BY <1>p0, <1>w2, RepeatIs
<1>2. /\ p' \in PipeInfo /\ NoneInVain(p') /\ p'.writeReq = None /\ p'.readReq = p.readReq
           /\ p'.data = p.data /\ p'.pend = p.pend /\ p'.got = p.got /\ p'.max = p.max
                /\ p'.open = p.open /\ p'.ack = p.ack /\ p'.ackPos = p.ackPos
                     /\ p'.WritePos = p.WritePos
  BY <1>p1 DEF AfterRepeat
<1>3. Taken > told /\ "done" \in lost /\ p.WritePos = told
  BY <1>i, <1>1 DEF Placed, Untold
<1>ow. o.w = <<r>>
  BY <1>a0, <1>r DEF Out
<1>tt. trouble' = IF Beyond(<<r>>) THEN "already" ELSE trouble
  BY <1>o, <1>ow, Zenon
<1>A. TypeOK'
  <2>1. p' \in PipeInfo /\ p'.got <= p'.max
    BY <1>i, <1>2 DEF TypeOK
  <2>2. toReader' \in Seq(Answers) /\ toWriter' \in Seq(Replies)
    BY <1>i, <1>4, <1>5 DEF TypeOK
  <2>3. toServer' \in Seq(WriteReqs)
    BY <1>1
  <2>5. TypeOK
    BY <1>i
  <2>6. trouble' \in {"no", "already"} /\ stale' \in BOOLEAN
    BY <1>st, <1>tt
  <2> QED
    BY <2>5, <1>u, <2>1, <2>2, <2>3, <2>6 DEF TypeOK
<1>B. NoWaitInVain'
  BY <1>i, <1>1, <1>w, <1>u, <1>4, <1>5, <1>2, <1>3 DEF NoWaitInVain,
     PipeInv, NoneInVain, Counted
<1>L. OnlyByLoss'
  BY <1>i, <1>1, <1>w, <1>u, <1>4, <1>5, <1>2, <1>3, <1>tt DEF OnlyByLoss,
     PipeInv
<1>S. Stream!Next
  BY <1>i, <1>1, <1>w, <1>u, <1>4, <1>5, <1>2, <1>3, StreamBreaks
<1> QED
  BY <1>A, <1>B, <1>L, <1>S DEF Correct, Stream!Next

(* A retry of all that has got through.                                    *)
LEMMA ServeWriteRepeatsCorrect ==
  ASSUME PipeInv, trouble = "no", trouble' = "no", p.WritePos = told, ServeWrite
  PROVE  Correct
<1> USE SizeAssumption, NoneAssumption DEF Deep, Active, Live, Taken, TheWrite, TheClose
<1>i. TypeOK /\ Deep /\ Numbers
  BY NumbersAre DEF PipeInv
<1>s0. toServer # <<>> /\ Head(toServer).kind = "write" /\ toServer' = Tail(toServer)
         /\ p.data = None
  BY DEF ServeWrite, Idle
<1>s1. Active
  BY <1>i, <1>s0 DEF Resting
<1>s2. toServer = <<TheWrite>>
  BY <1>i, <1>s0, <1>s1 DEF Asking
<1>s3. Head(toServer) = TheWrite /\ toServer' = <<>>
  BY <1>s0, <1>s2
<1>1. /\ Active /\ wpc = "reply" /\ toServer # <<>> /\ toServer' = <<>> /\ p.data = None
           /\ p.writeReq = None /\ toWriter = <<>> /\ ~Live /\ xfer = NoXfer
  BY <1>i, <1>s0, <1>s1, <1>s3 DEF Asking, OneToken
<1>w. /\ TheWrite \in WriteReqs /\ TheWrite.size >= 1 /\ TheWrite.pos = told
           /\ TheWrite.size = goal - told
      /\ goal - told \in Nat /\ goal - told \in 1 .. MaxSize /\ told \in Nat /\ goal <= Total
           /\ told \in 0 .. Total
  BY <1>i, <1>s1, RequestIs
<1>st. stale' = (stale /\ p.readReq = None)
  BY DEF ServeWrite
<1>u. UNCHANGED <<toData, wpc, told, goal, xfer, rpc, want, res, seq, err, port, given, eof,
                  lost, left>>
  BY DEF ServeWrite, writer, reader, losses
<1>w2. Counted(p) /\ p \in PipeInfo /\ (p.readReq # None => p.pend = <<>> /\ p.open)
  BY <1>i DEF PipeInv, NoWaitInVain, TypeOK, Counted
<1>o. PICK o \in DoPipeWrite(p, TheWrite) : Serve(o)
             /\ trouble' = IF Beyond(o.w) THEN "already" ELSE trouble
  BY <1>s3 DEF ServeWrite
<1>a0. o = Out([p EXCEPT !.writeReq = None], <<Reply("already", goal - told)>>, <<>>)
  BY <1>o, <1>w DEF DoPipeWrite
<1>r. PICK r : r = Reply("already", goal - told)
  OBVIOUS
<1>r1. goal - told \in -1 .. MaxSize
  BY <1>w
<1>4. r \in Replies /\ r.kind = "already" /\ r.n = goal - told
  BY <1>r, <1>r1 DEF Reply, Replies, Places
<1>q. toReader \in Seq(Answers) /\ <<r>> \in Seq(Replies)
  BY <1>i, <1>4 DEF TypeOK
<1>5. toWriter' = <<r>> /\ toReader' = toReader
  BY <1>o, <1>a0, <1>r, <1>1, <1>q, NothingJoined DEF Serve, Out
<1>p0. p' = [p EXCEPT !.writeReq = None]
  BY <1>o, <1>a0 DEF Serve, Out
<1>p1. AfterRepeat(p', p)
  BY <1>p0, <1>w2, RepeatIs
<1>2. /\ p' \in PipeInfo /\ NoneInVain(p') /\ p'.writeReq = None /\ p'.readReq = p.readReq
           /\ p'.data = p.data /\ p'.pend = p.pend /\ p'.got = p.got /\ p'.max = p.max
                /\ p'.open = p.open /\ p'.ack = p.ack /\ p'.ackPos = p.ackPos
                     /\ p'.WritePos = p.WritePos
  BY <1>p1 DEF AfterRepeat
<1>3. Taken > told /\ "done" \in lost /\ p.WritePos = told
  BY <1>i, <1>1 DEF Placed, Untold
<1>ow. o.w = <<r>>
  BY <1>a0, <1>r DEF Out
<1>tt. trouble' = IF Beyond(<<r>>) THEN "already" ELSE trouble
  BY <1>o, <1>ow, Zenon
<1>b0. ~Beyond(<<r>>)
  BY <1>tt
<1>b1. /\ 1 \in 1 .. Len(<<r>>) /\ <<r>>[1] = r /\ Head(toServer).pos = told
  BY <1>s3, <1>w
<1>b2. ~(told + (goal - told) > Len(given) + Len(p.pend))
  BY <1>b0, <1>b1, <1>4 DEF Beyond
<1>6. Taken = goal
  BY <1>i, <1>b2, <1>w DEF Ordered, NumWriter, NumStream, Numbers
<1>x1. stale /\ p.readReq # None => FALSE
  BY <1>i, <1>w2, <1>3 DEF Stale, NumWriter, Numbers
<1>7. stale' = stale /\ trouble' = trouble
  BY <1>i, <1>x1, <1>st DEF NumFlags, Numbers
<1>A. TypeOK'
  <2>1. p' \in PipeInfo /\ p'.got <= p'.max
    BY <1>i, <1>2 DEF TypeOK
  <2>2. toReader' \in Seq(Answers) /\ toWriter' \in Seq(Replies)
    BY <1>i, <1>4, <1>5 DEF TypeOK
  <2>3. toServer' \in Seq(WriteReqs)
    BY <1>1
  <2>5. TypeOK
    BY <1>i
  <2>6. trouble' \in {"no", "already"} /\ stale' \in BOOLEAN
    BY <1>st, <1>tt
  <2> QED
    BY <2>5, <1>u, <2>1, <2>2, <2>3, <2>6 DEF TypeOK
<1>B. NoWaitInVain'
  BY <1>i, <1>1, <1>w, <1>u, <1>4, <1>5, <1>2, <1>3, <1>6, <1>7 DEF
     NoWaitInVain, PipeInv, NoneInVain, Counted
<1>L. OnlyByLoss'
  BY <1>i, <1>1, <1>w, <1>u, <1>4, <1>5, <1>2, <1>3, <1>6, <1>7 DEF
     OnlyByLoss, PipeInv
<1>C. Ordered' /\ Placed' /\ Untold'
  BY <1>i, <1>1, <1>w, <1>u, <1>4, <1>5, <1>2, <1>3, <1>6, <1>7 DEF Ordered,
     Placed, Untold, Numbers, NumWriter, NumStream
<1>D. Resting' /\ Ending' /\ Asking' /\ OneToken'
  BY <1>i, <1>1, <1>w, <1>u, <1>4, <1>5, <1>2, <1>3, <1>6, <1>7 DEF Resting,
     Ending, Asking, OneToken, Numbers, NumWriter
<1>F. Answered' /\ Delivering'
  BY <1>i, <1>1, <1>w, <1>u, <1>4, <1>5, <1>2, <1>3, <1>6, <1>7 DEF Answered,
     Delivering, Answer, Numbers, NumWriter, NumStream
<1>G. Stale'
  BY <1>i, <1>1, <1>w, <1>u, <1>4, <1>5, <1>2, <1>3, <1>6, <1>7 DEF Stale,
     Numbers, NumFlags
<1>M. Sending'
  BY <1>i, <1>1, <1>w, <1>u, <1>4, <1>5, <1>2, <1>3, <1>6, <1>7 DEF Stale,
     Sending, FromWriter, Numbers, NumWriter, NumXfer, NumPort
<1>K. Exchanging'
  BY <1>i, <1>1, <1>w, <1>u, <1>4, <1>5, <1>2, <1>3, <1>6, <1>7 DEF Stale,
     Sending, Exchanging, Numbers, NumWriter
<1>H. ReaderIdle' /\ ReaderRequest' /\ ReaderData' /\ ReaderAck'
  BY <1>i, <1>1, <1>w, <1>u, <1>4, <1>5, <1>2, <1>3, <1>6, <1>7 DEF
     ReaderIdle, ReaderRequest, ReaderData, ReaderAck, Numbers, NumReader
<1>J. ToReaderOK'
  BY <1>i, <1>1, <1>w, <1>u, <1>4, <1>5, <1>2, <1>3, <1>6, <1>7 DEF
     ToReaderOK, FromServer, FromWriter, Numbers, NumReader
<1>S. UNCHANGED Stream!vars
  BY <1>i, <1>1, <1>w, <1>u, <1>4, <1>5, <1>2, <1>3, <1>6, <1>7 DEF
     Stream!vars, State
<1> QED
  BY <1>A, <1>B, <1>L, <1>C, <1>D, <1>F, <1>G, <1>M, <1>K, <1>H, <1>J, <1>S
     DEF Correct

(* There is no room.                                                       *)
LEMMA ServeWriteHoldsCorrect ==
  ASSUME PipeInv, trouble = "no", p.readReq = None, UNCHANGED <<toReader, trouble>>,
         Holds(p, TheWrite, p', toWriter'), ServeWrite
  PROVE  Correct
<1> USE SizeAssumption, NoneAssumption DEF Deep, Active, Live, Taken, TheWrite, TheClose
<1>i. TypeOK /\ Deep /\ Numbers
  BY NumbersAre DEF PipeInv
<1>s0. toServer # <<>> /\ Head(toServer).kind = "write" /\ toServer' = Tail(toServer)
         /\ p.data = None
  BY DEF ServeWrite, Idle
<1>s1. Active
  BY <1>i, <1>s0 DEF Resting
<1>s2. toServer = <<TheWrite>>
  BY <1>i, <1>s0, <1>s1 DEF Asking
<1>s3. Head(toServer) = TheWrite /\ toServer' = <<>>
  BY <1>s0, <1>s2
<1>1. /\ Active /\ wpc = "reply" /\ toServer # <<>> /\ toServer' = <<>> /\ p.data = None
           /\ p.writeReq = None /\ toWriter = <<>> /\ ~Live /\ xfer = NoXfer
  BY <1>i, <1>s0, <1>s1, <1>s3 DEF Asking, OneToken
<1>w. /\ TheWrite \in WriteReqs /\ TheWrite.size >= 1 /\ TheWrite.pos = told
           /\ TheWrite.size = goal - told
      /\ goal - told \in Nat /\ goal - told \in 1 .. MaxSize /\ told \in Nat /\ goal <= Total
           /\ told \in 0 .. Total
  BY <1>i, <1>s1, RequestIs
<1>st. stale' = (stale /\ p.readReq = None)
  BY DEF ServeWrite
<1>u. UNCHANGED <<toData, wpc, told, goal, xfer, rpc, want, res, seq, err, port, given, eof,
                  lost, left>>
  BY DEF ServeWrite, writer, reader, losses
<1>w2. Counted(p) /\ p \in PipeInfo /\ (p.readReq # None => p.pend = <<>> /\ p.open)
  BY <1>i DEF PipeInv, NoWaitInVain, TypeOK, Counted
<1>k0. stale' = stale
  BY <1>i, <1>st DEF NumFlags, Numbers
<1>k. stale' = stale /\ toReader' = toReader /\ trouble' = trouble /\ p.readReq = None
  BY <1>k0
<1>h0. p.got = p.max /\ p' = [p EXCEPT !.writeReq = TheWrite] /\ toWriter' = <<>>
         /\ p.WritePos # told
  BY <1>w DEF Holds
<1>h1. AfterHold(p', p, TheWrite)
  BY <1>h0, <1>w2, <1>w, <1>k, HoldIs
<1>h2. TheWrite # None
  BY <1>w
<1>2. /\ p' \in PipeInfo /\ NoneInVain(p') /\ p'.writeReq = TheWrite /\ p'.writeReq # None
           /\ p'.readReq = p.readReq /\ p'.data = p.data /\ p'.pend = p.pend /\ p'.got = p.got
                /\ p'.max = p.max /\ p'.open = p.open /\ p'.ack = p.ack /\ p'.ackPos = p.ackPos
                     /\ p'.WritePos = p.WritePos
  BY <1>h1, <1>h2, <1>k DEF AfterHold
<1>4. toWriter' = <<>> /\ p.WritePos # told
  BY <1>h0
<1>wp. p.WritePos # told
  BY <1>h0
<1>3. Taken = told /\ told = Len(given) + Len(p.pend) /\ p.WritePos # told /\ told < goal
  BY <1>i, <1>1, <1>wp DEF Ordered, Placed, NumWriter, NumStream, Asking,
     Numbers
<1>A. TypeOK'
  <2>1. p' \in PipeInfo /\ p'.got <= p'.max
    BY <1>2 DEF NoneInVain, Counted
  <2>2. toWriter' \in Seq(Replies) /\ toServer' \in Seq(WriteReqs)
    BY <1>4, <1>1
  <2>5. TypeOK
    BY <1>i
  <2> QED
    BY <2>5, <1>u, <1>k, <2>1, <2>2 DEF TypeOK
<1>B. NoWaitInVain'
  BY <1>i, <1>1, <1>w, <1>u, <1>k, <1>2, <1>4, <1>3 DEF NoWaitInVain,
     PipeInv, NoneInVain, Counted
<1>L. OnlyByLoss'
  BY <1>i, <1>1, <1>w, <1>u, <1>k, <1>2, <1>4, <1>3 DEF OnlyByLoss, PipeInv
<1>C. Ordered' /\ Placed' /\ Untold'
  BY <1>i, <1>1, <1>w, <1>u, <1>k, <1>2, <1>4, <1>3 DEF Ordered, Placed,
     Untold, Numbers, NumWriter, NumStream
<1>D. Resting' /\ Ending' /\ Asking' /\ OneToken'
  BY <1>i, <1>1, <1>w, <1>u, <1>k, <1>2, <1>4, <1>3 DEF Resting, Ending,
     Asking, OneToken, Numbers, NumWriter
<1>F. Answered' /\ Delivering'
  BY <1>i, <1>1, <1>w, <1>u, <1>k, <1>2, <1>4, <1>3 DEF Answered, Delivering,
     Answer, OneToken, Numbers, NumWriter, NumStream
<1>G. Stale'
  BY <1>i, <1>1, <1>w, <1>u, <1>k, <1>2, <1>4, <1>3 DEF Stale, Numbers,
     NumFlags
<1>M. Sending'
  BY <1>i, <1>1, <1>w, <1>u, <1>k, <1>2, <1>4, <1>3 DEF Stale, Sending,
     FromWriter, Numbers, NumWriter, NumXfer, NumPort
<1>K. Exchanging'
  BY <1>i, <1>1, <1>w, <1>u, <1>k, <1>2, <1>4, <1>3 DEF Stale, Sending,
     Exchanging, Numbers, NumWriter
<1>H. ReaderIdle' /\ ReaderRequest' /\ ReaderData' /\ ReaderAck'
  BY <1>i, <1>1, <1>w, <1>u, <1>k, <1>2, <1>4, <1>3 DEF ReaderIdle,
     ReaderRequest, ReaderData, ReaderAck, Numbers, NumReader
<1>J. ToReaderOK'
  BY <1>i, <1>1, <1>w, <1>u, <1>k, <1>2, <1>4, <1>3 DEF ToReaderOK,
     FromServer, FromWriter, Numbers, NumReader
<1>S. UNCHANGED Stream!vars
  BY <1>i, <1>1, <1>w, <1>u, <1>k, <1>2, <1>4, <1>3 DEF Stream!vars, State
<1> QED
  BY <1>A, <1>B, <1>L, <1>C, <1>D, <1>F, <1>G, <1>M, <1>K, <1>H, <1>J, <1>S
     DEF Correct

(* The data that comes with a write goes into the buffer.                  *)
LEMMA ServeWriteStoresCorrect ==
  ASSUME PipeInv, trouble = "no", p.readReq = None, UNCHANGED <<toReader, trouble>>,
         Stores(p, TheWrite, p', toWriter'), ServeWrite
  PROVE  Correct
<1> USE SizeAssumption, NoneAssumption DEF Deep, Active, Live, Taken, TheWrite, TheClose
<1>i. TypeOK /\ Deep /\ Numbers
  BY NumbersAre DEF PipeInv
<1>s0. toServer # <<>> /\ Head(toServer).kind = "write" /\ toServer' = Tail(toServer)
         /\ p.data = None
  BY DEF ServeWrite, Idle
<1>s1. Active
  BY <1>i, <1>s0 DEF Resting
<1>s2. toServer = <<TheWrite>>
  BY <1>i, <1>s0, <1>s1 DEF Asking
<1>s3. Head(toServer) = TheWrite /\ toServer' = <<>>
  BY <1>s0, <1>s2
<1>1. /\ Active /\ wpc = "reply" /\ toServer # <<>> /\ toServer' = <<>> /\ p.data = None
           /\ p.writeReq = None /\ toWriter = <<>> /\ ~Live /\ xfer = NoXfer
  BY <1>i, <1>s0, <1>s1, <1>s3 DEF Asking, OneToken
<1>w. /\ TheWrite \in WriteReqs /\ TheWrite.size >= 1 /\ TheWrite.pos = told
           /\ TheWrite.size = goal - told
      /\ goal - told \in Nat /\ goal - told \in 1 .. MaxSize /\ told \in Nat /\ goal <= Total
           /\ told \in 0 .. Total
  BY <1>i, <1>s1, RequestIs
<1>st. stale' = (stale /\ p.readReq = None)
  BY DEF ServeWrite
<1>u. UNCHANGED <<toData, wpc, told, goal, xfer, rpc, want, res, seq, err, port, given, eof,
                  lost, left>>
  BY DEF ServeWrite, writer, reader, losses
<1>w2. Counted(p) /\ p \in PipeInfo /\ (p.readReq # None => p.pend = <<>> /\ p.open)
  BY <1>i DEF PipeInv, NoWaitInVain, TypeOK, Counted
<1>k0. stale' = stale
  BY <1>i, <1>st DEF NumFlags, Numbers
<1>k. stale' = stale /\ toReader' = toReader /\ trouble' = trouble /\ p.readReq = None
  BY <1>k0
<1>s. PICK n \in 1 .. goal - told : /\ p.got + n <= p.max /\ toWriter' = <<Reply("done", n)>>
             /\ p.WritePos # told
                                 /\ p' = Store([p EXCEPT !.writeReq = None], told, From(told, n))
  BY <1>w DEF Stores
<1>n0. n \in Nat /\ n >= 1 /\ told + n <= Total /\ n \in 1 .. MaxSize /\ n \in 1 .. goal - told
         /\ told + n <= goal
  BY <1>s, <1>w, <1>i DEF NumWriter, Numbers
<1>wp. p.WritePos # told
  BY <1>s
<1>t3. Taken = told /\ told = Len(given) + Len(p.pend) /\ p.WritePos # told /\ told < goal
  BY <1>i, <1>1, <1>wp DEF Ordered, Placed, NumWriter, NumStream, Asking,
     Numbers
<1>3. Taken = told /\ p.WritePos # told /\ told < goal
  BY <1>t3
<1>h1. AfterStore(p', p, told, n)
  BY <1>s, <1>n0, <1>w2, <1>w, <1>k, StoreIs
<1>r0. PICK r : r = Reply("done", n)
  OBVIOUS
<1>r1. r \in Replies /\ r.kind = "done" /\ r.n = n
  BY <1>r0, <1>n0 DEF Reply, Replies, Places
<1>4. toWriter' = <<r>> /\ r \in Replies /\ r.kind = "done" /\ r.n = n
  BY <1>r0, <1>r1, <1>s
<1>h2. p'.pend = p.pend \o From(told, n) /\ Len(p'.pend) = Len(p.pend) + n
  BY <1>h1 DEF AfterStore
<1>h3. /\ Len(given) \in Nat /\ Len(p.pend) \in Nat /\ n \in Nat
            /\ p.pend = From(Len(given), Len(p.pend)) /\ told = Len(given) + Len(p.pend)
  BY <1>i, <1>n0, <1>t3 DEF Ordered, NumStream, Numbers
<1>h4. From(Len(given), Len(p.pend)) \o From(Len(given) + Len(p.pend), n) = From(Len(given), Len(p.pend) + n)
  BY <1>h3, FromConcat, ZenonT(60)
<1>h5. p'.pend = From(Len(given), Len(p'.pend))
  BY <1>h2, <1>h3, <1>h4, Zenon
<1>2. /\ p' \in PipeInfo /\ NoneInVain(p') /\ p'.pend # <<>> /\ p'.WritePos = told
           /\ p'.writeReq = None /\ p'.readReq = None
      /\ p'.data = p.data /\ p'.open = p.open /\ p'.ack = p.ack /\ p'.ackPos = p.ackPos
           /\ p'.pend = From(Len(given), Len(p'.pend))
  BY <1>h1, <1>h5 DEF AfterStore
<1>k9. Taken' = told + n /\ Len(p'.pend) >= Len(p.pend)
  BY <1>h2, <1>h3, <1>u
<1>k10. told + n > told /\ n = (told + n) - told /\ told <= told + n
  BY <1>n0, <1>w
<1>k11. Len(p'.pend) >= Len(p.pend) /\ Len(p'.pend) \in Nat
  BY <1>h2, <1>h3
<1>5. /\ Taken' = told + n /\ Taken' > told /\ n = Taken' - told /\ n >= 1 /\ Taken' <= goal
           /\ Taken <= Taken' /\ Len(p'.pend) >= Len(p.pend) /\ Len(p'.pend) \in Nat
  BY <1>k9, <1>k10, <1>k11, <1>n0, <1>3, Zenon
<1>A. TypeOK'
  <2>1. p' \in PipeInfo /\ p'.got <= p'.max
    BY <1>2 DEF NoneInVain, Counted
  <2>2. toWriter' \in Seq(Replies) /\ toServer' \in Seq(WriteReqs)
    BY <1>4, <1>1
  <2>5. TypeOK
    BY <1>i
  <2> QED
    BY <2>5, <1>u, <1>k, <2>1, <2>2 DEF TypeOK
<1>B. NoWaitInVain'
  BY <1>i, <1>1, <1>w, <1>u, <1>k, <1>3, <1>4, <1>2, <1>5 DEF NoWaitInVain,
     PipeInv, NoneInVain, Counted
<1>L. OnlyByLoss'
  BY <1>i, <1>1, <1>w, <1>u, <1>k, <1>3, <1>4, <1>2, <1>5 DEF OnlyByLoss,
     PipeInv
<1>C. Ordered' /\ Placed' /\ Untold'
  <2>0. told' = told /\ goal' = goal /\ given' = given /\ ~(told > told)
    BY <1>u, <1>w
  <2>1. Ordered'
    <3>1. told <= Taken' /\ Taken' <= goal
      BY <1>5, <1>3, Zenon
    <3>2. given = From(0, Len(given))
      BY <1>i DEF Ordered
    <3>3. p'.pend = From(Len(given), Len(p'.pend))
      BY <1>2
    <3> QED
      BY <2>0, <3>1, <3>2, <3>3, Zenon DEF Ordered
  <2>2. Placed'
    <3>1. p'.WritePos = told /\ Taken' > told
      BY <1>2, <1>5
    <3> QED
      BY <2>0, <3>1, Zenon DEF Placed
  <2>3. Untold'
    BY <1>4, <1>5 DEF Untold
  <2> QED
    BY <2>1, <2>2, <2>3
<1>D. Resting' /\ Ending' /\ Asking' /\ OneToken'
  BY <1>i, <1>1, <1>w, <1>u, <1>k, <1>3, <1>4, <1>2, <1>5 DEF Resting,
     Ending, Asking, OneToken, Numbers, NumWriter
<1>F. Answered' /\ Delivering'
  <2>1. Answer(r)'
    <3>1. r.n = Taken' - told' /\ r.n >= 1
      BY <1>u, <1>4, <1>5
    <3> QED
      BY <3>1, <1>4, <1>u, <1>1 DEF Answer
  <2>2. Answered'
    BY <2>1, <1>4 DEF Answered
  <2>3. Delivering'
    BY <1>i, <1>u, <1>2, <1>1 DEF Delivering
  <2> QED
    BY <2>2, <2>3
<1>G. Stale'
  BY <1>i, <1>1, <1>w, <1>u, <1>k, <1>3, <1>4, <1>2, <1>5 DEF Stale, Numbers,
     NumFlags
<1>M. Sending'
  BY <1>i, <1>1, <1>w, <1>u, <1>k, <1>3, <1>4, <1>2, <1>5 DEF Stale, Sending,
     FromWriter, Numbers, NumWriter, NumXfer, NumPort
<1>K. Exchanging'
  BY <1>i, <1>1, <1>w, <1>u, <1>k, <1>3, <1>4, <1>2, <1>5 DEF Stale, Sending,
     Exchanging, Numbers, NumWriter
<1>H. ReaderIdle' /\ ReaderRequest' /\ ReaderData' /\ ReaderAck'
  <2>1. ReaderIdle' /\ ReaderRequest' /\ ReaderData'
    BY <1>i, <1>u, <1>2, <1>k, <1>1 DEF ReaderIdle, ReaderRequest, ReaderData
  <2>2. Len(p.pend) \in Nat /\ Len(res) \in Nat
    BY <1>i DEF Numbers, NumReader, NumStream
  <2>3. Len(res) <= Len(p.pend) => Len(res) <= Len(p'.pend)
    BY <2>2, <1>5
  <2>4. p.open /\ (Live <=> Live')
    BY <1>i, <1>1, <1>2, <1>k DEF Ending
  <2>5. ReaderAck'
    BY <1>i, <1>u, <1>2, <1>k, <2>3, <2>4 DEF ReaderAck
  <2> QED
    BY <2>1, <2>5
<1>J. ToReaderOK'
  <2>1. ASSUME toReader # <<>>
        PROVE  rpc = "data" /\ FromServer(toReader[1])
    BY <1>i, <2>1, <1>1 DEF ToReaderOK, FromWriter
  <2>2. p.open /\ (Live <=> Live')
    BY <1>i, <1>1, <1>2, <1>k DEF Ending
  <2>3. ASSUME NEW m, m \in Answers, FromServer(m)
        PROVE  FromServer(m)'
    <3>1. Len(m.bytes) \in Nat /\ Len(p.pend) \in Nat
      BY <1>i, <2>3 DEF Numbers, NumStream, Answers, Bytes
    <3>2. Len(m.bytes) <= Len(p.pend) => Len(m.bytes) <= Len(p'.pend)
      BY <3>1, <1>5
    <3> QED
      BY <2>3, <1>u, <1>k, <1>1, <2>2, <3>2 DEF FromServer
  <2> QED
    BY <2>1, <2>3, <1>i, <1>u, <1>k, <1>2, HeadOfReader DEF ToReaderOK
<1>S. Stream!Next \/ UNCHANGED Stream!vars
  BY <1>i, <1>1, <1>w, <1>u, <1>k, <1>3, <1>4, <1>2, <1>5, <1>A, <1>C,
     StreamCarries DEF State, NumStream
<1> QED
  BY <1>A, <1>B, <1>L, <1>C, <1>D, <1>F, <1>G, <1>M, <1>K, <1>H, <1>J, <1>S
     DEF Correct

(* The writer is told to send the data.                                    *)
LEMMA ServeWriteAwaitsCorrect ==
  ASSUME PipeInv, trouble = "no", p.readReq = None, UNCHANGED <<toReader, trouble>>,
         Awaits(p, TheWrite, p', toWriter'), ServeWrite
  PROVE  Correct
<1> USE SizeAssumption, NoneAssumption DEF Deep, Active, Live, Taken, TheWrite, TheClose
<1>i. TypeOK /\ Deep /\ Numbers
  BY NumbersAre DEF PipeInv
<1>s0. toServer # <<>> /\ Head(toServer).kind = "write" /\ toServer' = Tail(toServer)
         /\ p.data = None
  BY DEF ServeWrite, Idle
<1>s1. Active
  BY <1>i, <1>s0 DEF Resting
<1>s2. toServer = <<TheWrite>>
  BY <1>i, <1>s0, <1>s1 DEF Asking
<1>s3. Head(toServer) = TheWrite /\ toServer' = <<>>
  BY <1>s0, <1>s2
<1>1. /\ Active /\ wpc = "reply" /\ toServer # <<>> /\ toServer' = <<>> /\ p.data = None
           /\ p.writeReq = None /\ toWriter = <<>> /\ ~Live /\ xfer = NoXfer
  BY <1>i, <1>s0, <1>s1, <1>s3 DEF Asking, OneToken
<1>w. /\ TheWrite \in WriteReqs /\ TheWrite.size >= 1 /\ TheWrite.pos = told
           /\ TheWrite.size = goal - told
      /\ goal - told \in Nat /\ goal - told \in 1 .. MaxSize /\ told \in Nat /\ goal <= Total
           /\ told \in 0 .. Total
  BY <1>i, <1>s1, RequestIs
<1>st. stale' = (stale /\ p.readReq = None)
  BY DEF ServeWrite
<1>u. UNCHANGED <<toData, wpc, told, goal, xfer, rpc, want, res, seq, err, port, given, eof,
                  lost, left>>
  BY DEF ServeWrite, writer, reader, losses
<1>w2. Counted(p) /\ p \in PipeInfo /\ (p.readReq # None => p.pend = <<>> /\ p.open)
  BY <1>i DEF PipeInv, NoWaitInVain, TypeOK, Counted
<1>k0. stale' = stale
  BY <1>i, <1>st DEF NumFlags, Numbers
<1>k. stale' = stale /\ toReader' = toReader /\ trouble' = trouble /\ p.readReq = None
  BY <1>k0
<1>s. PICK n \in 1 .. goal - told : /\ p.got + n <= p.max
             /\ toWriter' = <<Sizes(n, n, "DataPort")>> /\ p.WritePos # told
                                 /\ p' = [p EXCEPT !.writeReq = None, !.data = [pos |-> told, size |-> n]]
  BY <1>w DEF Awaits
<1>n0. n \in Nat /\ n >= 1 /\ told + n <= Total /\ n \in 1 .. MaxSize /\ n \in 1 .. goal - told
         /\ told + n <= goal
  BY <1>s, <1>w, <1>i DEF NumWriter, Numbers
<1>wp. p.WritePos # told
  BY <1>s
<1>t3. Taken = told /\ told = Len(given) + Len(p.pend) /\ p.WritePos # told /\ told < goal
  BY <1>i, <1>1, <1>wp DEF Ordered, Placed, NumWriter, NumStream, Asking,
     Numbers
<1>3. Taken = told /\ p.WritePos # told /\ told < goal
  BY <1>t3
<1>h1. AfterAwait(p', p, told, n)
  BY <1>s, <1>n0, <1>w2, <1>w, <1>k, AwaitIs
<1>r0. PICK r : r = Sizes(n, n, "DataPort")
  OBVIOUS
<1>r1. r \in Replies /\ r.kind = "sizes" /\ r.n = n /\ r.first = n /\ r.to = "DataPort"
  BY <1>r0, <1>n0 DEF Sizes, Replies, Places
<1>4. toWriter' = <<r>> /\ r \in Replies /\ r.kind = "sizes" /\ r.n = n /\ r.first = n
        /\ r.to = "DataPort"
  BY <1>r0, <1>r1, <1>s
<1>2. /\ p' \in PipeInfo /\ NoneInVain(p') /\ p'.got + n <= p'.max /\ p'.data # None
           /\ p'.data.pos = told /\ p'.data.size = n /\ p'.readReq = None
      /\ p'.writeReq = p.writeReq /\ p'.pend = p.pend /\ p'.got = p.got /\ p'.max = p.max
           /\ p'.open = p.open /\ p'.ack = p.ack /\ p'.ackPos = p.ackPos
                /\ p'.WritePos = p.WritePos
  BY <1>s, <1>h1, <1>1 DEF AfterAwait
<1>5. /\ n >= 1 /\ n \in Nat /\ n \in 1 .. goal - told /\ n <= goal - told
  BY <1>n0, <1>w
<1>A. TypeOK'
  <2>1. p' \in PipeInfo /\ p'.got <= p'.max
    BY <1>2 DEF NoneInVain, Counted
  <2>2. toWriter' \in Seq(Replies) /\ toServer' \in Seq(WriteReqs)
    BY <1>4, <1>1
  <2>5. TypeOK
    BY <1>i
  <2> QED
    BY <2>5, <1>u, <1>k, <2>1, <2>2 DEF TypeOK
<1>B. NoWaitInVain'
  BY <1>i, <1>1, <1>w, <1>u, <1>k, <1>3, <1>4, <1>2, <1>5 DEF NoWaitInVain,
     PipeInv, NoneInVain, Counted
<1>L. OnlyByLoss'
  BY <1>i, <1>1, <1>w, <1>u, <1>k, <1>3, <1>4, <1>2, <1>5 DEF OnlyByLoss,
     PipeInv
<1>C. Ordered' /\ Placed' /\ Untold'
  BY <1>i, <1>1, <1>w, <1>u, <1>k, <1>3, <1>4, <1>2, <1>5 DEF Ordered,
     Placed, Untold, Numbers, NumWriter, NumStream
<1>D. Resting' /\ Ending' /\ Asking' /\ OneToken'
  BY <1>i, <1>1, <1>w, <1>u, <1>k, <1>3, <1>4, <1>2, <1>5 DEF Resting,
     Ending, Asking, OneToken, Numbers, NumWriter
<1>F. Answered' /\ Delivering'
  <2>1. Answer(r)'
    <3>1. r.n = p'.data.size /\ r.n \in 1 .. goal' - told' /\ r.first \in 1 .. r.n
      BY <1>u, <1>4, <1>5, <1>2
    <3> QED
      BY <3>1, <1>4, <1>u, <1>1, <1>2 DEF Answer
  <2>2. Answered'
    BY <2>1, <1>4 DEF Answered
  <2>3. toData = <<>>
    BY <1>i, <1>1 DEF Delivering
  <2>4. Delivering'
    BY <2>3, <1>u, <1>2, <1>1, <1>3, <1>4, <1>5 DEF Delivering
  <2> QED
    BY <2>2, <2>4
<1>G. Stale'
  BY <1>i, <1>1, <1>w, <1>u, <1>k, <1>3, <1>4, <1>2, <1>5 DEF Stale, Numbers,
     NumFlags
<1>M. Sending'
  BY <1>i, <1>1, <1>w, <1>u, <1>k, <1>3, <1>4, <1>2, <1>5 DEF Stale, Sending,
     FromWriter, Numbers, NumWriter, NumXfer, NumPort
<1>K. Exchanging'
  BY <1>i, <1>1, <1>w, <1>u, <1>k, <1>3, <1>4, <1>2, <1>5 DEF Stale, Sending,
     Exchanging, Numbers, NumWriter
<1>H. ReaderIdle' /\ ReaderRequest' /\ ReaderData' /\ ReaderAck'
  BY <1>i, <1>1, <1>w, <1>u, <1>k, <1>3, <1>4, <1>2, <1>5 DEF ReaderIdle,
     ReaderRequest, ReaderData, ReaderAck, Numbers, NumReader
<1>J. ToReaderOK'
  BY <1>i, <1>1, <1>w, <1>u, <1>k, <1>3, <1>4, <1>2, <1>5 DEF ToReaderOK,
     FromServer, FromWriter, Numbers, NumReader
<1>S. UNCHANGED Stream!vars
  BY <1>i, <1>1, <1>w, <1>u, <1>k, <1>3, <1>4, <1>2, <1>5 DEF Stream!vars,
     State
<1> QED
  BY <1>A, <1>B, <1>L, <1>C, <1>D, <1>F, <1>G, <1>M, <1>K, <1>H, <1>J, <1>S
     DEF Correct

(* A write meets a read that waits.                                        *)
LEMMA ServeWriteExchangesCorrect ==
  ASSUME PipeInv, trouble = "no", p.WritePos # told, p.readReq # None, ServeWrite
  PROVE  Correct
<1> USE SizeAssumption, NoneAssumption DEF Deep, Active, Live, Taken, TheWrite, TheClose
<1>i. TypeOK /\ Deep /\ Numbers
  BY NumbersAre DEF PipeInv
<1>1. toServer # <<>> /\ Head(toServer).kind = "write" /\ toServer' = Tail(toServer)
        /\ p.data = None
  BY DEF ServeWrite, Idle
<1>2. Active
  BY <1>i, <1>1 DEF Resting
<1>3. toServer = <<TheWrite>>
  BY <1>i, <1>1, <1>2 DEF Asking
<1>4. Head(toServer) = TheWrite /\ toServer' = <<>>
  BY <1>1, <1>3
<1>5. /\ wpc = "reply" /\ p.writeReq = None /\ toWriter = <<>> /\ ~Live
  BY <1>i, <1>1, <1>2 DEF Asking, OneToken
<1>6. /\ TheWrite \in WriteReqs /\ TheWrite.size >= 1 /\ TheWrite.pos = told
           /\ TheWrite.size = goal - told
  BY <1>i, <1>2, RequestIs
<1>7. /\ p.pend = <<>> /\ rpc = "data" /\ err = "none" /\ want # NoWant /\ toReader = <<>>
           /\ res = <<>> /\ seq = 0
      /\ p.readReq = [size |-> want.size, wait |-> want.wait, port |-> port]
  BY <1>i DEF TypeOK, PipeInv, NoWaitInVain, ReaderIdle, ReaderRequest, ReaderData, ReaderAck
<1>8. Taken = told
  BY <1>i DEF Ordered, Placed, Numbers, NumWriter, NumStream
<1>9. /\ p.readReq \in Requests /\ p.readReq.size = want.size /\ p.readReq.port = port
  <2>1. p.readReq \in Requests
    BY <1>i DEF TypeOK, PipeInfo
  <2> QED
    BY <2>1, <1>7
<1>10. UNCHANGED <<toData, wpc, told, goal, xfer, rpc, want, res, seq, err, port, given, eof,
                   lost, left>> /\ stale' = FALSE
  BY DEF ServeWrite, writer, reader, losses
<1>11. PICK o \in DoPipeWrite(p, TheWrite) : Serve(o)
              /\ trouble' = IF Beyond(o.w) THEN "already" ELSE trouble
  BY <1>4 DEF ServeWrite
<1> HIDE DEF TheWrite, Active, Live, Taken
<1>12. o \in ExchangeData(p, p.readReq, TheWrite)
  BY <1>6, <1>11 DEF DoPipeWrite, Accept
<1>13. PICK n \in 1 .. goal - told :
         /\ n <= want.size
         /\ \/ o = Out(Met(p, TheWrite), <<>>, <<ToReader("data", From(told, n))>>)
            \/ \E first \in 1 .. n : o = Out(Met(p, TheWrite), <<Sizes(n, first, port)>>, <<>>)
  <2>1. \E n \in 1 .. TheWrite.size :
          /\ n <= p.readReq.size
          /\ \/ o = Out(Met(p, TheWrite), <<>>, <<ToReader("data", From(TheWrite.pos, n))>>)
             \/ \E first \in 1 .. n : o = Out(Met(p, TheWrite), <<Sizes(n, first, p.readReq.port)>>, <<>>)
    <3>1. Exchanges(o, p, p.readReq, TheWrite)
      BY <1>6, <1>9, <1>12, ExchangeIs
    <3> QED
      BY <3>1, Zenon DEF Exchanges
  <2> QED
    BY <2>1, <1>6, <1>9, Zenon
<1>14. p' = Met(p, TheWrite)
  BY <1>11, <1>13 DEF Serve, Out
<1>15. trouble' = trouble => Meets(n)
  BY <1>2, <1>4, <1>5, <1>7, <1>8, <1>1, <1>10, <1>13, <1>14, Zenon DEF Meets
<1>16. CASE o = Out(Met(p, TheWrite), <<>>, <<ToReader("data", From(told, n))>>)
  <2>1. toWriter' = <<>> /\ toReader' = <<ToReader("data", From(told, n))>>
    BY <1>5, <1>7, <1>11, <1>16 DEF Serve, Out
  <2>2. o.w = <<>>
    BY <1>16 DEF Out
  <2>3. ~Beyond(<<>>)
    BY DEF Beyond
  <2>4. trouble' = trouble
    BY <1>11, <2>2, <2>3
  <2> QED
    BY <1>15, <2>1, <2>4, MeetsWithDataCorrect
<1>17. CASE \E first \in 1 .. n : o = Out(Met(p, TheWrite), <<Sizes(n, first, port)>>, <<>>)
  <2>0. PICK first \in 1 .. n : o = Out(Met(p, TheWrite), <<Sizes(n, first, port)>>, <<>>)
    BY <1>17
  <2>1. toReader' = <<>> /\ toWriter' = <<Sizes(n, first, port)>>
    BY <1>5, <1>7, <1>11, <2>0 DEF Serve, Out
  <2>2. o.w = <<Sizes(n, first, port)>>
    BY <2>0 DEF Out
  <2>3. ~Beyond(<<Sizes(n, first, port)>>)
    BY DEF Beyond, Sizes
  <2>4. trouble' = trouble
    BY <1>11, <2>2, <2>3
  <2> QED
    BY <1>15, <2>1, <2>4, MeetsWithSizesCorrect
<1> QED
  BY <1>13, <1>16, <1>17

(* The server gets a write.                                                *)
LEMMA ServeWriteCorrect ==
  ASSUME PipeInv, trouble = "no", ServeWrite
  PROVE  Correct
<1>1. CASE p.WritePos = told
  BY <1>1, ServeWriteMisleadsCorrect, ServeWriteRepeatsCorrect
<1>2. CASE p.WritePos # told /\ p.readReq # None
  BY <1>2, ServeWriteExchangesCorrect
<1>3. CASE p.WritePos # told /\ p.readReq = None
  <2>1. TypeOK /\ Deep /\ Numbers /\ p \in PipeInfo /\ p.got <= p.max
    BY NumbersAre DEF PipeInv, TypeOK
  <2>2. toServer # <<>> /\ Head(toServer).kind = "write"
    BY DEF ServeWrite
  <2>3. Active
    BY <2>1, <2>2 DEF Deep, Resting, TheClose
  <2>4. Head(toServer) = TheWrite /\ toWriter = <<>>
    BY <2>1, <2>2, <2>3 DEF Deep, Asking, OneToken
  <2>5. PICK o \in DoPipeWrite(p, TheWrite) : Serve(o)
               /\ trouble' = IF Beyond(o.w) THEN "already" ELSE trouble
    BY <2>4 DEF ServeWrite
  <2>6. /\ TheWrite \in WriteReqs /\ TheWrite.size >= 1 /\ TheWrite.pos = told
             /\ TheWrite.size = goal - told
        /\ goal <= Total
    BY <2>1, <2>3, RequestIs
  <2>7. PICK x, w : o = Out(x, w, <<>>) /\ Unread(p, TheWrite, x, w)
    BY <1>3, <2>1, <2>6, UnreadIs
  <2>8. TheWrite.pos + TheWrite.size <= Total
    <3>1. told + (goal - told) = goal
      BY <2>1 DEF Numbers, NumWriter
    <3> QED
      BY <2>6, <3>1
  <2>9. w \in Seq(Replies)
    <3>1. Counted(p)
      BY <2>1 DEF PipeInv, NoWaitInVain, Counted
    <3> QED
      BY <1>3, <2>1, <2>6, <2>7, <2>8, <3>1, UnreadLeaves
  <2>10. p' = x /\ toWriter' = w /\ toReader' = toReader
    <3>1. toReader \in Seq(Answers)
      BY <2>1 DEF TypeOK
    <3>2. p' = x /\ toWriter' = <<>> \o w /\ toReader' = toReader \o <<>>
      BY <2>4, <2>5, <2>7 DEF Serve, Out
    <3> QED
      BY <2>9, <3>1, <3>2, NothingJoined
  <2>11. ~Repeats(p, TheWrite, x, w)
    BY <1>3, <2>6 DEF Repeats
  <2>12. trouble' = trouble
    <3>1. \A i \in 1 .. Len(w) : w[i].kind # "already"
      <4>1. CASE Holds(p, TheWrite, x, w)
        BY <4>1 DEF Holds
      <4>2. CASE Stores(p, TheWrite, x, w)
        BY <4>2 DEF Stores, Reply
      <4>3. CASE Awaits(p, TheWrite, x, w)
        BY <4>3 DEF Awaits, Sizes
      <4> QED
        BY <2>7, <2>11, <4>1, <4>2, <4>3 DEF Unread
    <3>2. o.w = w
      BY <2>7 DEF Out
    <3>3. ~Beyond(w)
      BY <3>1, Zenon DEF Beyond
    <3> QED
      BY <2>5, <3>2, <3>3, Zenon
  <2>13. CASE Holds(p, TheWrite, x, w)
    BY <1>3, <2>10, <2>12, <2>13, ServeWriteHoldsCorrect
  <2>14. CASE Stores(p, TheWrite, x, w)
    BY <1>3, <2>10, <2>12, <2>14, ServeWriteStoresCorrect
  <2>15. CASE Awaits(p, TheWrite, x, w)
    BY <1>3, <2>10, <2>12, <2>15, ServeWriteAwaitsCorrect
  <2> QED
    BY <2>7, <2>11, <2>13, <2>14, <2>15 DEF Unread
<1> QED
  BY <1>1, <1>2, <1>3

(* There are bytes in the buffer.                                          *)
LEMMA ServeReadDataCorrect ==
  ASSUME PipeInv, trouble = "no", p.pend # <<>>, ServeRead
  PROVE  Correct
<1> USE SizeAssumption, NoneAssumption DEF Deep, Active, Live, Taken, TheWrite, TheClose
<1>i. TypeOK /\ Deep /\ Numbers
  BY NumbersAre DEF PipeInv
<1>u. UNCHANGED <<toServer, toData, wpc, told, goal, xfer, want, res, seq, err, port, given,
                  eof, lost, left, trouble>>
  BY DEF ServeRead, writer, losses
<1>1. /\ rpc = "request" /\ rpc' = "data" /\ p.data = None /\ res = <<>> /\ seq = 0
           /\ err = "none" /\ want # NoWant /\ toReader = <<>> /\ p.readReq = None
  BY <1>i DEF ServeRead, Idle, ReaderRequest
<1>st. stale' = (stale /\ (p.pend # <<>> \/ p.writeReq = None))
  BY DEF ServeRead
<1>w2. Counted(p) /\ p \in PipeInfo /\ NoneInVain(p)
  BY <1>i DEF PipeInv, NoWaitInVain, TypeOK, Counted, NoneInVain
<1>r. PICK r : r = [size |-> want.size, wait |-> want.wait, port |-> port]
  OBVIOUS
<1>r1. want \in Waits
  BY <1>i, <1>1 DEF TypeOK
<1>r2. r \in Requests /\ r.size = want.size /\ r.wait = want.wait /\ r.port = port
         /\ r.size \in 1 .. MaxSize /\ r # None
  BY <1>i, <1>r, <1>r1 DEF Waits, Requests, NumPort, Numbers
<1>o. PICK o \in DoPipeRead(p, r) : Serve(o)
  BY <1>r DEF ServeRead
<1>q. toWriter \in Seq(Replies) /\ toReader \in Seq(Answers)
  BY <1>i DEF TypeOK
<1>p0. [p EXCEPT !.readReq = None] = p
  BY <1>1, <1>w2 DEF PipeInfo
<1>k. stale' = stale /\ p.pend # <<>>
  BY <1>i, <1>st DEF NumFlags, Numbers
<1>a. PICK n \in Tfrs(Least(r.size, Len(p.pend))) :
          o = Out([p EXCEPT !.readReq = None], <<>>, <<ToReader("data", SubSeq(p.pend, 1, n))>>)
  BY <1>o DEF DoPipeRead
<1>l. Len(p.pend) \in Nat /\ Len(p.pend) >= 1 /\ p.pend = From(Len(given), Len(p.pend))
        /\ Len(given) \in Nat /\ goal <= Total /\ Len(given) + Len(p.pend) <= goal
             /\ goal \in Nat
  BY <1>i, <1>k DEF Ordered, NumStream, NumWriter, TypeOK, Numbers
<1>l0. r.size \in Nat /\ r.size >= 1 /\ r.size <= MaxSize /\ r.size = want.size
  BY <1>r2
<1>l1. PICK l : l = Least(r.size, Len(p.pend))
  OBVIOUS
<1>l2. l \in Nat /\ l >= 1 /\ l <= r.size /\ l <= Len(p.pend)
  BY <1>l, <1>l0, <1>l1 DEF Least
<1>l3. n \in 1 .. l
  BY <1>a, <1>l1, <1>l2, TfrsAre
<1>n0. n \in Nat /\ n >= 1 /\ n <= want.size /\ n <= Len(p.pend) /\ n \in 0 .. Len(p.pend)
  BY <1>l, <1>l0, <1>l2, <1>l3
<1>n1. Len(given) + n <= Total /\ n \in 1 .. want.size /\ Len(given) \in Int
  BY <1>l, <1>l0, <1>n0, <1>i DEF TypeOK
<1>b0. SubSeq(From(Len(given), Len(p.pend)), 1, n) = From(Len(given), n)
  BY <1>l, <1>n0, FromSub, Zenon
<1>b. PICK b : b = From(Len(given), n)
  OBVIOUS
<1>b1. From(Len(given), n) \in Bytes /\ Len(From(Len(given), n)) = n
  BY <1>l, <1>n0, <1>n1, FromBytes, FromType
<1>b2. b \in Bytes /\ Len(b) = n /\ b = From(Len(given), Len(b)) /\ SubSeq(p.pend, 1, n) = b
  BY <1>l, <1>b, <1>b0, <1>b1, Zenon
<1>e. PICK e : e = ToReader("data", b)
  OBVIOUS
<1>4. /\ e \in Answers /\ e.kind = "data" /\ e.seq = 0 /\ e.last /\ Len(e.bytes) = n
           /\ e.bytes = From(Len(given), Len(e.bytes))
  BY <1>e, <1>b2 DEF Answers, ToReader
<1>o1. o = Out(p, <<>>, <<e>>)
  BY <1>a, <1>p0, <1>b2, <1>e
<1>5. toReader' = <<e>> /\ toWriter' = toWriter
  BY <1>o, <1>o1, <1>1, <1>q, NothingJoined DEF Serve, Out
<1>2. p' = p /\ p' \in PipeInfo /\ NoneInVain(p')
  BY <1>o, <1>o1, <1>w2 DEF Serve, Out
<1>6. n \in 1 .. want.size /\ n <= Len(p.pend)
  BY <1>n0, <1>n1
<1>A. TypeOK'
  <2>1. p' \in PipeInfo /\ p'.got <= p'.max
    BY <1>2 DEF NoneInVain, Counted
  <2>2. toReader' \in Seq(Answers) /\ toWriter' \in Seq(Replies) /\ stale' \in BOOLEAN
    BY <1>i, <1>4, <1>5, <1>k DEF TypeOK
  <2>5. TypeOK
    BY <1>i
  <2> QED
    BY <2>5, <1>u, <1>1, <2>1, <2>2 DEF TypeOK
<1>B. NoWaitInVain'
  BY <1>i, <1>u, <1>1, <1>k, <1>4, <1>5, <1>2, <1>6 DEF NoWaitInVain,
     PipeInv, NoneInVain, Counted
<1>L. OnlyByLoss'
  BY <1>i, <1>u, <1>1, <1>k, <1>4, <1>5, <1>2, <1>6 DEF OnlyByLoss, PipeInv
<1>C. Ordered' /\ Placed' /\ Untold'
  BY <1>i, <1>u, <1>1, <1>k, <1>4, <1>5, <1>2, <1>6 DEF Ordered, Placed,
     Untold, Numbers, NumWriter, NumStream
<1>D. Resting' /\ Ending' /\ Asking' /\ OneToken'
  BY <1>i, <1>u, <1>1, <1>k, <1>4, <1>5, <1>2, <1>6 DEF Resting, Ending,
     Asking, OneToken, Numbers, NumWriter
<1>F. Answered' /\ Delivering'
  BY <1>i, <1>u, <1>1, <1>k, <1>4, <1>5, <1>2, <1>6 DEF Answered, Delivering,
     Answer, OneToken, Numbers, NumWriter, NumStream
<1>G. Stale'
  BY <1>i, <1>u, <1>1, <1>k, <1>4, <1>5, <1>2, <1>6 DEF Stale, Numbers,
     NumFlags
<1>M. Sending'
  BY <1>i, <1>u, <1>1, <1>k, <1>4, <1>5, <1>2, <1>6 DEF Stale, Sending,
     FromWriter, Numbers, NumWriter, NumXfer, NumPort
<1>K. Exchanging'
  BY <1>i, <1>u, <1>1, <1>k, <1>4, <1>5, <1>2, <1>6 DEF Stale, Sending,
     Exchanging, Numbers, NumWriter
<1>H. ReaderIdle' /\ ReaderRequest' /\ ReaderData' /\ ReaderAck'
  BY <1>i, <1>u, <1>1, <1>k, <1>4, <1>5, <1>2, <1>6 DEF ReaderIdle,
     ReaderRequest, ReaderData, ReaderAck, Numbers, NumReader
<1>J. ToReaderOK'
  <2>1. ~Live'
    BY <1>i, <1>2, <1>k DEF Exchanging
  <2>2. /\ Len(toReader') = 1 /\ toReader'[1] = e /\ res' = <<>> /\ seq' = 0 /\ rpc' = "data"
             /\ p'.readReq = None
        /\ want' = want /\ given' = given /\ p' = p
    BY <1>5, <1>u, <1>1, <1>2
  <2>3. FromServer(e)'
    BY <2>1, <2>2, <1>4, <1>6 DEF FromServer
  <2> QED
    BY <2>2, <2>3 DEF ToReaderOK
<1>S. UNCHANGED Stream!vars
  BY <1>i, <1>u, <1>1, <1>k, <1>4, <1>5, <1>2, <1>6 DEF Stream!vars, State
<1> QED
  BY <1>A, <1>B, <1>L, <1>C, <1>D, <1>F, <1>G, <1>M, <1>K, <1>H, <1>J, <1>S
     DEF Correct

(* There is nothing to read, and the read does not wait.                   *)
LEMMA ServeReadNothingCorrect ==
  ASSUME PipeInv, trouble = "no", p.pend = <<>>, p.writeReq = None,
         want.wait = "poll" \/ ~p.open, ServeRead
  PROVE  Correct
<1> USE SizeAssumption, NoneAssumption DEF Deep, Active, Live, Taken, TheWrite, TheClose
<1>i. TypeOK /\ Deep /\ Numbers
  BY NumbersAre DEF PipeInv
<1>u. UNCHANGED <<toServer, toData, wpc, told, goal, xfer, want, res, seq, err, port, given,
                  eof, lost, left, trouble>>
  BY DEF ServeRead, writer, losses
<1>1. /\ rpc = "request" /\ rpc' = "data" /\ p.data = None /\ res = <<>> /\ seq = 0
           /\ err = "none" /\ want # NoWant /\ toReader = <<>> /\ p.readReq = None
  BY <1>i DEF ServeRead, Idle, ReaderRequest
<1>st. stale' = (stale /\ (p.pend # <<>> \/ p.writeReq = None))
  BY DEF ServeRead
<1>w2. Counted(p) /\ p \in PipeInfo /\ NoneInVain(p)
  BY <1>i DEF PipeInv, NoWaitInVain, TypeOK, Counted, NoneInVain
<1>r. PICK r : r = [size |-> want.size, wait |-> want.wait, port |-> port]
  OBVIOUS
<1>r1. want \in Waits
  BY <1>i, <1>1 DEF TypeOK
<1>r2. r \in Requests /\ r.size = want.size /\ r.wait = want.wait /\ r.port = port
         /\ r.size \in 1 .. MaxSize /\ r # None
  BY <1>i, <1>r, <1>r1 DEF Waits, Requests, NumPort, Numbers
<1>o. PICK o \in DoPipeRead(p, r) : Serve(o)
  BY <1>r DEF ServeRead
<1>q. toWriter \in Seq(Replies) /\ toReader \in Seq(Answers)
  BY <1>i DEF TypeOK
<1>p0. [p EXCEPT !.readReq = None] = p
  BY <1>1, <1>w2 DEF PipeInfo
<1>k. stale' = stale /\ p.pend = <<>>
  BY <1>i, <1>st DEF NumFlags, Numbers
<1>a. o = Out(p, <<>>, <<ToReader(IF p.open THEN "timeout" ELSE "eof", <<>>)>>)
  BY <1>o, <1>p0, <1>r2 DEF DoPipeRead
<1>e. PICK e : e = ToReader(IF p.open THEN "timeout" ELSE "eof", <<>>)
  OBVIOUS
<1>4. /\ e \in Answers /\ (e.kind = "timeout" \/ (e.kind = "eof" /\ ~p.open)) /\ e.kind # "data"
  BY <1>e DEF Answers, ToReader, Bytes
<1>5. toReader' = <<e>> /\ toWriter' = toWriter
  BY <1>o, <1>a, <1>e, <1>1, <1>q, NothingJoined DEF Serve, Out
<1>2. p' = p /\ p' \in PipeInfo /\ NoneInVain(p')
  BY <1>o, <1>a, <1>w2 DEF Serve, Out
<1>6. ~(wpc = "send" /\ Live)
  BY <1>i, <1>1 DEF Sending, Delivering
<1>A. TypeOK'
  <2>1. p' \in PipeInfo /\ p'.got <= p'.max
    BY <1>2 DEF NoneInVain, Counted
  <2>2. toReader' \in Seq(Answers) /\ toWriter' \in Seq(Replies) /\ stale' \in BOOLEAN
    BY <1>i, <1>4, <1>5, <1>k DEF TypeOK
  <2>5. TypeOK
    BY <1>i
  <2> QED
    BY <2>5, <1>u, <1>1, <2>1, <2>2 DEF TypeOK
<1>B. NoWaitInVain'
  BY <1>i, <1>u, <1>1, <1>k, <1>4, <1>5, <1>2, <1>6 DEF NoWaitInVain,
     PipeInv, NoneInVain, Counted
<1>L. OnlyByLoss'
  BY <1>i, <1>u, <1>1, <1>k, <1>4, <1>5, <1>2, <1>6 DEF OnlyByLoss, PipeInv
<1>C. Ordered' /\ Placed' /\ Untold'
  BY <1>i, <1>u, <1>1, <1>k, <1>4, <1>5, <1>2, <1>6 DEF Ordered, Placed,
     Untold, Numbers, NumWriter, NumStream
<1>D. Resting' /\ Ending' /\ Asking' /\ OneToken'
  BY <1>i, <1>u, <1>1, <1>k, <1>4, <1>5, <1>2, <1>6 DEF Resting, Ending,
     Asking, OneToken, Numbers, NumWriter
<1>F. Answered' /\ Delivering'
  BY <1>i, <1>u, <1>1, <1>k, <1>4, <1>5, <1>2, <1>6 DEF Answered, Delivering,
     Answer, OneToken, Numbers, NumWriter, NumStream
<1>G. Stale'
  BY <1>i, <1>u, <1>1, <1>k, <1>4, <1>5, <1>2, <1>6 DEF Stale, Numbers,
     NumFlags
<1>M. Sending'
  BY <1>i, <1>u, <1>1, <1>k, <1>4, <1>5, <1>2, <1>6 DEF Stale, Sending,
     FromWriter, Numbers, NumWriter, NumXfer, NumPort
<1>K. Exchanging'
  BY <1>i, <1>u, <1>1, <1>k, <1>4, <1>5, <1>2, <1>6 DEF Stale, Sending,
     Exchanging, Numbers, NumWriter
<1>H. ReaderIdle' /\ ReaderRequest' /\ ReaderData' /\ ReaderAck'
  BY <1>i, <1>u, <1>1, <1>k, <1>4, <1>5, <1>2, <1>6 DEF ReaderIdle,
     ReaderRequest, ReaderData, ReaderAck, Numbers, NumReader
<1>J. ToReaderOK'
  BY <1>i, <1>u, <1>1, <1>k, <1>4, <1>5, <1>2, <1>6 DEF ToReaderOK,
     FromServer, Numbers, NumReader
<1>S. UNCHANGED Stream!vars
  BY <1>i, <1>u, <1>1, <1>k, <1>4, <1>5, <1>2, <1>6 DEF Stream!vars, State
<1> QED
  BY <1>A, <1>B, <1>L, <1>C, <1>D, <1>F, <1>G, <1>M, <1>K, <1>H, <1>J, <1>S
     DEF Correct

(* There is nothing to read, and the read waits.                           *)
LEMMA ServeReadWaitsCorrect ==
  ASSUME PipeInv, trouble = "no", p.pend = <<>>, p.writeReq = None, want.wait # "poll",
         p.open, ServeRead
  PROVE  Correct
<1> USE SizeAssumption, NoneAssumption DEF Deep, Active, Live, Taken, TheWrite, TheClose
<1>i. TypeOK /\ Deep /\ Numbers
  BY NumbersAre DEF PipeInv
<1>u. UNCHANGED <<toServer, toData, wpc, told, goal, xfer, want, res, seq, err, port, given,
                  eof, lost, left, trouble>>
  BY DEF ServeRead, writer, losses
<1>1. /\ rpc = "request" /\ rpc' = "data" /\ p.data = None /\ res = <<>> /\ seq = 0
           /\ err = "none" /\ want # NoWant /\ toReader = <<>> /\ p.readReq = None
  BY <1>i DEF ServeRead, Idle, ReaderRequest
<1>st. stale' = (stale /\ (p.pend # <<>> \/ p.writeReq = None))
  BY DEF ServeRead
<1>w2. Counted(p) /\ p \in PipeInfo /\ NoneInVain(p)
  BY <1>i DEF PipeInv, NoWaitInVain, TypeOK, Counted, NoneInVain
<1>r. PICK r : r = [size |-> want.size, wait |-> want.wait, port |-> port]
  OBVIOUS
<1>r1. want \in Waits
  BY <1>i, <1>1 DEF TypeOK
<1>r2. r \in Requests /\ r.size = want.size /\ r.wait = want.wait /\ r.port = port
         /\ r.size \in 1 .. MaxSize /\ r # None
  BY <1>i, <1>r, <1>r1 DEF Waits, Requests, NumPort, Numbers
<1>o. PICK o \in DoPipeRead(p, r) : Serve(o)
  BY <1>r DEF ServeRead
<1>q. toWriter \in Seq(Replies) /\ toReader \in Seq(Answers)
  BY <1>i DEF TypeOK
<1>k. stale' = stale /\ p.pend = <<>>
  BY <1>i, <1>st DEF NumFlags, Numbers
<1>a. o = Out([p EXCEPT !.readReq = r], <<>>, <<>>)
  BY <1>o, <1>r2 DEF DoPipeRead
<1>4. r \in Requests /\ r # None /\ r = [size |-> want.size, wait |-> want.wait, port |-> port]
  BY <1>r, <1>r2
<1>5. toReader' = <<>> /\ toWriter' = toWriter
  BY <1>o, <1>a, <1>1, <1>q, NothingJoined DEF Serve, Out
<1>p0. p' = [p EXCEPT !.readReq = r]
  BY <1>o, <1>a DEF Serve, Out
<1>p1. /\ p' \in PipeInfo /\ p'.readReq = r /\ p'.writeReq = p.writeReq /\ p'.data = p.data
            /\ p'.pend = p.pend /\ p'.got = p.got /\ p'.max = p.max /\ p'.open = p.open
                 /\ p'.ack = p.ack /\ p'.ackPos = p.ackPos /\ p'.WritePos = p.WritePos
  BY <1>p0, <1>w2, <1>4 DEF PipeInfo
<1>2. /\ p' \in PipeInfo /\ NoneInVain(p') /\ p'.readReq = r /\ p'.writeReq = None
           /\ p'.writeReq = p.writeReq /\ p'.data = p.data /\ p'.pend = p.pend /\ p'.got = p.got
                /\ p'.max = p.max /\ p'.open = p.open /\ p'.ack = p.ack /\ p'.ackPos = p.ackPos
                     /\ p'.WritePos = p.WritePos
  BY <1>p1, <1>w2 DEF NoneInVain, Counted
<1>6. ~(wpc = "send" /\ Live)
  BY <1>i, <1>1 DEF Sending, Delivering
<1>A. TypeOK'
  <2>1. p' \in PipeInfo /\ p'.got <= p'.max
    BY <1>2 DEF NoneInVain, Counted
  <2>2. toReader' \in Seq(Answers) /\ toWriter' \in Seq(Replies) /\ stale' \in BOOLEAN
    BY <1>i, <1>4, <1>5, <1>k DEF TypeOK
  <2>5. TypeOK
    BY <1>i
  <2> QED
    BY <2>5, <1>u, <1>1, <2>1, <2>2 DEF TypeOK
<1>B. NoWaitInVain'
  BY <1>i, <1>u, <1>1, <1>k, <1>4, <1>5, <1>2, <1>6 DEF NoWaitInVain,
     PipeInv, NoneInVain, Counted
<1>L. OnlyByLoss'
  BY <1>i, <1>u, <1>1, <1>k, <1>4, <1>5, <1>2, <1>6 DEF OnlyByLoss, PipeInv
<1>C. Ordered' /\ Placed' /\ Untold'
  BY <1>i, <1>u, <1>1, <1>k, <1>4, <1>5, <1>2, <1>6 DEF Ordered, Placed,
     Untold, Numbers, NumWriter, NumStream
<1>D. Resting' /\ Ending' /\ Asking' /\ OneToken'
  BY <1>i, <1>u, <1>1, <1>k, <1>4, <1>5, <1>2, <1>6 DEF Resting, Ending,
     Asking, OneToken, Numbers, NumWriter
<1>F. Answered' /\ Delivering'
  BY <1>i, <1>u, <1>1, <1>k, <1>4, <1>5, <1>2, <1>6 DEF Answered, Delivering,
     Answer, OneToken, Numbers, NumWriter, NumStream
<1>G. Stale'
  BY <1>i, <1>u, <1>1, <1>k, <1>4, <1>5, <1>2, <1>6 DEF Stale, Numbers,
     NumFlags
<1>M. Sending'
  BY <1>i, <1>u, <1>1, <1>k, <1>4, <1>5, <1>2, <1>6 DEF Stale, Sending,
     FromWriter, Numbers, NumWriter, NumXfer, NumPort
<1>K. Exchanging'
  BY <1>i, <1>u, <1>1, <1>k, <1>4, <1>5, <1>2, <1>6 DEF Stale, Sending,
     Exchanging, Numbers, NumWriter
<1>H. ReaderIdle' /\ ReaderRequest' /\ ReaderData' /\ ReaderAck'
  BY <1>i, <1>u, <1>1, <1>k, <1>4, <1>5, <1>2, <1>6 DEF ReaderIdle,
     ReaderRequest, ReaderData, ReaderAck, Numbers, NumReader
<1>J. ToReaderOK'
  BY <1>i, <1>u, <1>1, <1>k, <1>4, <1>5, <1>2, <1>6 DEF ToReaderOK,
     FromServer, Numbers, NumReader
<1>S. UNCHANGED Stream!vars
  BY <1>i, <1>u, <1>1, <1>k, <1>4, <1>5, <1>2, <1>6 DEF Stream!vars, State
<1> QED
  BY <1>A, <1>B, <1>L, <1>C, <1>D, <1>F, <1>G, <1>M, <1>K, <1>H, <1>J, <1>S
     DEF Correct

(* A read meets a write that waits.                                        *)
LEMMA ServeReadExchangesCorrect ==
  ASSUME PipeInv, trouble = "no", p.pend = <<>>, p.writeReq # None, ServeRead
  PROVE  Correct
<1> USE SizeAssumption, NoneAssumption DEF Deep, Active, Live, Taken, TheWrite, TheClose
<1>i. TypeOK /\ Deep /\ Numbers
  BY NumbersAre DEF PipeInv
<1>1. /\ rpc = "request" /\ rpc' = "data" /\ p.data = None /\ res = <<>> /\ seq = 0
           /\ err = "none" /\ want # NoWant
      /\ toReader = <<>> /\ p.readReq = None
  BY <1>i DEF ServeRead, Idle, ReaderRequest
<1>2. Active /\ p.writeReq = TheWrite /\ wpc = "reply"
  BY <1>i DEF Resting, Asking
<1>3. toServer = <<>> /\ toWriter = <<>> /\ ~Live /\ Taken = told
  BY <1>i DEF OneToken
<1>4. /\ TheWrite \in WriteReqs /\ TheWrite.size >= 1 /\ TheWrite.pos = told
           /\ TheWrite.size = goal - told
  BY <1>i, <1>2, RequestIs
<1>5. PICK r : r = [size |-> want.size, wait |-> want.wait, port |-> port]
  OBVIOUS
<1>6. r \in Requests /\ r.size = want.size /\ r.port = port
  <2>1. want \in Waits
    BY <1>i, <1>1 DEF TypeOK
  <2> QED
    BY <1>i, <1>5, <2>1 DEF Waits, Requests, Numbers, NumPort
<1>7. UNCHANGED <<toServer, toData, wpc, told, goal, xfer, want, res, seq, err, port, given,
                  eof, lost, left, trouble>>
  BY DEF ServeRead, writer, losses
<1>8. stale' = FALSE
  BY DEF ServeRead
<1>9. PICK o \in DoPipeRead(p, r) : Serve(o)
  BY <1>5 DEF ServeRead
<1> HIDE DEF TheWrite, Active, Live, Taken
<1>10. o \in ExchangeData(p, r, TheWrite)
  BY <1>2, <1>9 DEF DoPipeRead
<1>11. PICK n \in 1 .. goal - told :
         /\ n <= want.size
         /\ \/ o = Out(Met(p, TheWrite), <<>>, <<ToReader("data", From(told, n))>>)
            \/ \E first \in 1 .. n : o = Out(Met(p, TheWrite), <<Sizes(n, first, port)>>, <<>>)
  <2>1. Exchanges(o, p, r, TheWrite)
    BY <1>4, <1>6, <1>10, ExchangeIs
  <2>2. \E n \in 1 .. TheWrite.size :
          /\ n <= r.size
          /\ \/ o = Out(Met(p, TheWrite), <<>>, <<ToReader("data", From(TheWrite.pos, n))>>)
             \/ \E first \in 1 .. n : o = Out(Met(p, TheWrite), <<Sizes(n, first, r.port)>>, <<>>)
    BY <2>1, Zenon DEF Exchanges
  <2> QED
    BY <2>2, <1>4, <1>6, Zenon
<1>12. p' = Met(p, TheWrite)
  BY <1>9, <1>11 DEF Serve, Out
<1>13. Meets(n)
  <2>1. toServer' = <<>> /\ p'= Met(p, TheWrite) /\ rpc \in {"data", "request"}
    BY <1>1, <1>3, <1>7, <1>12
  <2> QED
    BY <2>1, <1>1, <1>2, <1>3, <1>7, <1>8, <1>11, Zenon DEF Meets
<1>14. CASE o = Out(Met(p, TheWrite), <<>>, <<ToReader("data", From(told, n))>>)
  <2>1. toWriter' = <<>> /\ toReader' = <<ToReader("data", From(told, n))>>
    BY <1>1, <1>3, <1>9, <1>14 DEF Serve, Out
  <2> QED
    BY <1>13, <2>1, MeetsWithDataCorrect
<1>15. CASE \E first \in 1 .. n : o = Out(Met(p, TheWrite), <<Sizes(n, first, port)>>, <<>>)
  <2>1. PICK first \in 1 .. n : o = Out(Met(p, TheWrite), <<Sizes(n, first, port)>>, <<>>)
    BY <1>15
  <2>2. toReader' = <<>> /\ toWriter' = <<Sizes(n, first, port)>>
    BY <1>1, <1>3, <1>9, <2>1 DEF Serve, Out
  <2> QED
    BY <1>13, <2>2, MeetsWithSizesCorrect
<1> QED
  BY <1>11, <1>14, <1>15

(* The server gets a read.                                                 *)
LEMMA ServeReadCorrect ==
  ASSUME PipeInv, trouble = "no", ServeRead
  PROVE  Correct
<1>1. CASE p.pend # <<>>
  BY <1>1, ServeReadDataCorrect
<1>2. CASE p.pend = <<>> /\ p.writeReq # None
  BY <1>2, ServeReadExchangesCorrect
<1>3. CASE p.pend = <<>> /\ p.writeReq = None /\ (want.wait = "poll" \/ ~p.open)
  BY <1>3, ServeReadNothingCorrect
<1>4. CASE p.pend = <<>> /\ p.writeReq = None /\ want.wait # "poll" /\ p.open
  BY <1>4, ServeReadWaitsCorrect
<1> QED
  BY <1>1, <1>2, <1>3, <1>4

----------------------------------------------------------------------------
(* All of them together.                                                   *)

(* The reader gets data, from the server or from the writer.               *)
LEMMA ReadDataCorrect ==
  ASSUME PipeInv, trouble = "no", ReadData
  PROVE  Correct
<1>1. toReader # <<>> /\ ToReaderOK
  BY DEF PipeInv, Deep, ReadData, Receives
<1>2. FromServer(toReader[1]) \/ FromWriter
  BY <1>1 DEF ToReaderOK
<1> QED
  BY <1>2, ReadFromServerCorrect, ReadFromWriterCorrect

(* The network loses data.                                                 *)
LEMMA LoseDataCorrect ==
  ASSUME PipeInv, trouble = "no", LoseData
  PROVE  Correct
<1>1. CASE toData # <<>> /\ toData' = <<>> /\ toReader' = toReader
  BY <1>1, LoseDeliveryCorrect
<1>2. ASSUME NEW k \in 1 .. Len(toReader), xfer.to \in Ports, toReader[k].kind = "data",
             toReader' = Remove(toReader, k), toData' = toData
      PROVE  Correct
  BY <1>2, LoseChunkCorrect
<1> QED
  BY <1>1, <1>2 DEF LoseData

(* Every step keeps the invariant, and is one of the byte stream or none.  *)
LEMMA NextCorrect ==
  ASSUME PipeInv, trouble = "no", Next
  PROVE  Correct
<1>1. CASE Writer
  BY <1>1, WriteCorrect, CloseCorrect DEF Writer
<1>2. CASE Waiting
  BY <1>2, WriteTimesOutCorrect, WriteSizesCorrect, WriteSendsCorrect, WriteDoneCorrect,
     WriteConfirmedCorrect DEF Waiting
<1>3. CASE WriteGivesUp
  BY <1>3, WriteGivesUpCorrect
<1>4. CASE Server
  BY <1>4, ServeWriteCorrect, ServeCloseCorrect, ServeReadCorrect, ServeDataCorrect,
     DataTimesOutCorrect, ReadReqTimesOutCorrect, WriteReqTimesOutCorrect DEF Server
<1>5. CASE Reader
  BY <1>5, ReadCorrect DEF Reader
<1>6. CASE Reading
  BY <1>6, ReadOutOfSequenceCorrect, ReadDataCorrect, ReadEofCorrect,
       ReadTimesOutCorrect DEF Reading
<1>7. CASE ReadGivesUp
  BY <1>7, ReadGivesUpCorrect
<1>8. CASE ReadAck
  BY <1>8, ReadAckCorrect
<1>9. CASE Network
  BY <1>9, LoseRequestCorrect, LoseReplyCorrect, LoseDataCorrect DEF Network
<1> QED
  BY <1>1, <1>2, <1>3, <1>4, <1>5, <1>6, <1>7, <1>8, <1>9 DEF Next

(* Nothing happens.                                                        *)
LEMMA StuttersCorrect ==
  ASSUME PipeInv, UNCHANGED vars
  PROVE  PipeInv' /\ UNCHANGED Stream!vars
<1> USE DEF vars, writer, reader, network, history, losses
<1>1. TypeOK' /\ NoWaitInVain' /\ OnlyByLoss'
  BY DEF PipeInv, TypeOK, NoWaitInVain, OnlyByLoss
<1>2. UNCHANGED Stream!vars
  BY DEF Stream!vars, State
<1>3. ASSUME Deep PROVE Deep'
  <2> USE <1>3 DEF Deep, Active, Live, Taken, TheWrite, TheClose
  <2>1. Ordered' /\ Placed' /\ Untold' /\ Resting' /\ Ending' /\ Asking' /\ OneToken'
    BY DEF Ordered, Placed, Untold, Resting, Ending, Asking, OneToken
  <2>2. Answered' /\ Delivering' /\ Stale'
    BY DEF Answered, Answer, Delivering, Stale
  <2>3. Sending' /\ Exchanging'
    BY DEF Sending, Exchanging, FromWriter
  <2>4. ReaderIdle' /\ ReaderRequest' /\ ReaderData' /\ ReaderAck' /\ ToReaderOK'
    BY DEF ReaderIdle, ReaderRequest, ReaderData, ReaderAck, ToReaderOK, FromServer, FromWriter
  <2> QED
    BY <2>1, <2>2, <2>3, <2>4
<1> QED
  BY <1>1, <1>2, <1>3 DEF PipeInv

(* The invariant and the byte stream begin.                                *)
LEMMA PipeInit == Init => PipeInv /\ Stream!Init
<1> SUFFICES ASSUME Init PROVE PipeInv /\ Stream!Init
  OBVIOUS
<1> USE SizeAssumption DEF Init
<1>1. PICK size \in BufSizes :
        p = [pend |-> <<>>, got |-> 0, max |-> size, open |-> TRUE, readReq |-> None,
             writeReq |-> None, ack |-> FALSE, ackPos |-> 0, WritePos |-> 1, data |-> None]
  OBVIOUS
<1>2. /\ p.pend = <<>> /\ p.got = 0 /\ p.max = size /\ p.open = TRUE /\ p.readReq = None
      /\ p.writeReq = None /\ p.ack = FALSE /\ p.ackPos = 0 /\ p.WritePos = 1 /\ p.data = None
  BY <1>1
<1>3. p \in PipeInfo /\ p.got <= p.max
  <2>1. 0 \in 0 .. Total /\ 1 \in 0 .. Total /\ size \in Nat /\ <<>> \in Bytes
    BY DEF Bytes
  <2>2. p \in PipeInfo
    BY <1>1, <2>1 DEF PipeInfo
  <2> QED
    BY <1>2, <2>1, <2>2
<1>4. xfer \in Transfers
  BY DEF Transfers, Places, NoXfer
<1>5. TypeOK
  <2>1. /\ told \in 0 .. Total /\ goal \in told .. Total /\ seq \in 0 .. MaxSize
             /\ left \in 0 .. MaxLost
        /\ Len(res) <= want.size
    BY DEF NoWant
  <2>2. /\ toServer \in Seq(WriteReqs) /\ toData \in Seq(Bytes)
        /\ toWriter \in Seq(Replies) /\ toReader \in Seq(Answers)
    OBVIOUS
  <2>3. res \in Bytes /\ given \in Bytes /\ want \in Waits \cup {NoWant} /\ port \in Ports
    BY DEF Bytes, Ports
  <2>4. /\ wpc \in {"idle", "reply", "send", "confirm", "closed"}
        /\ rpc \in {"idle", "request", "data", "ack"}
        /\ err \in {"none", "timeout", "sequence", "eof"}
        /\ trouble \in {"no", "already", "stale", "garbage", "repeated", "wild"}
        /\ eof \in BOOLEAN /\ stale \in BOOLEAN
        /\ lost \subseteq {"request", "done", "already", "sizes", "timeout", "data"}
    OBVIOUS
  <2> HIDE DEF Init
  <2> QED
    BY <1>3, <1>4, <2>1, <2>2, <2>3, <2>4 DEF TypeOK
<1>6. NoWaitInVain /\ OnlyByLoss
  BY <1>2 DEF NoWaitInVain, OnlyByLoss
<1>7. Deep
  <2> USE <1>2 DEF Deep, Active, Live, Taken, TheWrite, TheClose
  <2>0. From(0, 0) = <<>>
    BY FromEmpty, 0 \in Nat
  <2>1. Ordered /\ Placed /\ Untold
    BY <2>0 DEF Ordered, Placed, Untold
  <2>2. Resting /\ Ending /\ Asking /\ OneToken
    BY DEF Resting, Ending, Asking, OneToken
  <2>3. Answered /\ Delivering /\ Stale /\ Sending /\ Exchanging
    BY DEF Answered, Delivering, Stale, Sending, Exchanging
  <2>4. ReaderIdle /\ ReaderRequest /\ ReaderData /\ ReaderAck /\ ToReaderOK
    BY DEF ReaderIdle, ReaderRequest, ReaderData, ReaderAck, ToReaderOK
  <2> QED
    BY <2>1, <2>2, <2>3, <2>4
<1>8. Stream!Init
  BY <1>2 DEF Stream!Init, State
<1> QED
  BY <1>5, <1>6, <1>7, <1>8 DEF PipeInv

(* The invariant is kept, and each step is one of the byte stream or none. *)
LEMMA PipeNext ==
  ASSUME PipeInv, [Next]_vars
  PROVE  PipeInv' /\ [Stream!Next]_(Stream!vars)
<1>1. CASE trouble = "no" /\ Next
  BY <1>1, NextCorrect DEF Correct, PipeInv
<1>2. CASE UNCHANGED vars
  BY <1>2, StuttersCorrect
<1>3. CASE trouble # "no" /\ Next
  <2>1. UNCHANGED vars
    BY <1>3 DEF Next
  <2> QED
    BY <2>1, StuttersCorrect
<1> QED
  BY <1>1, <1>2, <1>3

(* The inductive invariant of the pipe.                                    *)
THEOREM PipeInvariant == Spec => []PipeInv
<1>1. Init => PipeInv
  BY PipeInit
<1>2. PipeInv /\ [Next]_vars => PipeInv'
  BY PipeNext
<1> QED
  BY <1>1, <1>2, PTL DEF Spec

(* The server's buffer and the requests that wait on it are consistent:    *)
(* nobody waits for bytes or room that are there, and room is counted.     *)
THEOREM PipeIsSound == Spec => []Sound
<1>1. PipeInv => Sound
  BY DEF PipeInv, Sound
<1> QED
  BY <1>1, PipeInvariant, PTL

(* The protocol goes wrong only by a loss, of the kind named.              *)
THEOREM GoesWrongByLoss == Spec => []OnlyByLoss
<1>1. PipeInv => OnlyByLoss
  BY DEF PipeInv
<1> QED
  BY <1>1, PipeInvariant, PTL

(* Until the protocol has gone wrong, a pipe implements the byte stream,   *)
(* for every size of stream, buffer, request and message and every number  *)
(* of lost messages.                                                       *)
THEOREM PipeIsStream == Spec => IsStream
<1>1. Init => Stream!Init
  BY PipeInit
<1>2. PipeInv /\ [Next]_vars => [Stream!Next]_(Stream!vars)
  BY PipeNext
<1> QED
  BY <1>1, <1>2, PipeInvariant, PTL DEF Spec, IsStream, Stream!Spec

=============================================================================
