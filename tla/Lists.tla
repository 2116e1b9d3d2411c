------------------------------- MODULE Lists -------------------------------
(* The kernel's linked lists of threads, slots and messages, as sequences. *)
EXTENDS Naturals, Sequences, FiniteSets

(* x is on the list.                                                       *)
In(q, x) == \E i \in 1 .. Len(q) : q[i] = x

(* Nothing is on the list twice.                                           *)
Once(q)  == \A i, j \in 1 .. Len(q) : q[i] = q[j] => i = j

(* The list without the members of S.                                      *)
Drop(q, S) ==
  LET kept == {i \in 1 .. Len(q) : q[i] \notin S} IN
  [n \in 1 .. Cardinality(kept) |->
     q[CHOOSE i \in kept : Cardinality({j \in kept : j <= i}) = n]]
=============================================================================
