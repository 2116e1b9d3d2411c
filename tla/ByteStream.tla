----------------------------- MODULE ByteStream -----------------------------
(***************************************************************************)
(* What a pipe promises the programs at its ends: a stream of bytes.  The  *)
(* reader gets the bytes the writer wrote, all of them, once and in order; *)
(* the writer is told that a byte is written only when it has gone into    *)
(* the pipe or to the reader; and the reader is told of the end when it    *)
(* has got everything.  The n-th byte of the stream is the number n.       *)
(***************************************************************************)
EXTENDS Integers, Sequences

VARIABLES
  written, \* the bytes the writer has asked to be written
  told,    \* those it has been told are written
  pipe,    \* what the pipe holds
  out,     \* what the reader has got
  state    \* "open", "closed" by the writer, "ended" for the reader, "broken"

vars == <<written, told, pipe, out, state>>

Taken == Len(out) + Len(pipe)

From(pos, n) == [i \in 1 .. n |-> pos + i]

Init == written = 0 /\ told = 0 /\ pipe = <<>> /\ out = <<>> /\ state = "open"

Offer ==
  /\ state = "open" /\ told = written
  /\ written' > written
  /\ UNCHANGED <<told, pipe, out, state>>

(* `put' bytes go in, `get' bytes come out.                                *)
Carry(put, get) ==
  LET all == pipe \o From(Taken, put) IN
  /\ put + get > 0
  /\ out'  = out \o SubSeq(all, 1, get)
  /\ pipe' = SubSeq(all, get + 1, Len(all))
  /\ UNCHANGED <<written, told, state>>

Tell ==
  /\ told' \in told + 1 .. Taken
  /\ UNCHANGED <<written, pipe, out, state>>

Close ==
  /\ state = "open" /\ told = written
  /\ state' = "closed"
  /\ UNCHANGED <<written, told, pipe, out>>

End ==
  /\ state = "closed" /\ Len(out) = written
  /\ state' = "ended"
  /\ UNCHANGED <<written, told, pipe, out>>

(* From here on nothing is promised.                                       *)
Break == state # "broken" /\ state' = "broken"

Next ==
  \/ Offer \/ Tell \/ Close \/ End \/ Break
  \/ \E put \in 0 .. written - Taken : \E get \in 0 .. Len(pipe) + put : Carry(put, get)

Spec == Init /\ [][Next]_vars
=============================================================================
