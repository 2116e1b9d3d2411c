------------------------------- MODULE Relay -------------------------------
(***************************************************************************)
(* What a direct transfer between two links promises: the message goes out *)
(* as its protocol byte, its header and its pieces in the order in which   *)
(* they came in, each once and whatever fails, at most Places pieces are   *)
(* inside at any time, and unless a link failed the transfer ends when the *)
(* whole message has gone.                                                 *)
(***************************************************************************)
EXTENDS Naturals, Sequences

CONSTANTS Sources, Lengths, Places, None

VARIABLES
  carrier,  \* the link whose message is carried, or None
  total,    \* the pieces of its message
  inside,   \* the pieces that came in and have not gone out
  taken,    \* how many came in
  out,      \* what went out: 1 the protocol byte, 2 the header, p + 2 piece p
  failed    \* a link failed

vars == <<carrier, total, inside, taken, out, failed>>

Free == /\ carrier = None /\ total = 0
        /\ inside = <<>> /\ taken = 0 /\ out = <<>> /\ failed = FALSE

Init == Free

Begin(s) ==
  /\ carrier = None /\ carrier' = s
  /\ total' \in Lengths
  /\ UNCHANGED <<inside, taken, out, failed>>

Take ==
  /\ carrier # None
  /\ taken < total /\ Len(inside) < Places
  /\ taken' = taken + 1
  /\ inside' = Append(inside, taken')
  /\ UNCHANGED <<carrier, total, out, failed>>

Head2 ==
  /\ carrier # None /\ Len(out) < 2
  /\ out' = Append(out, Len(out) + 1)
  /\ UNCHANGED <<carrier, total, inside, taken, failed>>

Give ==
  /\ inside # <<>> /\ Head(inside) + 2 = Len(out) + 1
  /\ out' = Append(out, Head(inside) + 2)
  /\ inside' = Tail(inside)
  /\ UNCHANGED <<carrier, total, taken, failed>>

Fail ==
  /\ carrier # None
  /\ failed' = TRUE
  /\ UNCHANGED <<carrier, total, inside, taken, out>>

(* After a failure what is inside may be thrown away.                      *)
Discard ==
  /\ failed
  /\ \E i \in 1 .. Len(inside) :
       inside' = [j \in 1 .. Len(inside) - 1 |-> IF j < i THEN inside[j] ELSE inside[j + 1]]
  /\ UNCHANGED <<carrier, total, taken, out, failed>>

End ==
  /\ carrier # None
  /\ failed \/ Len(out) = total + 2
  /\ Free'

Next == (\E s \in Sources : Begin(s)) \/ Take \/ Head2 \/ Give \/ Fail \/ Discard \/ End

Spec == Init /\ [][Next]_vars
=============================================================================
