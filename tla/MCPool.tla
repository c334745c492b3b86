------------------------------- MODULE MCPool -------------------------------
(***************************************************************************)
(* Instances of Pool.                                                      *)
(***************************************************************************)
EXTENDS Pool

Tx(s, n, c, p) == [from |-> s, nonce |-> n, cap |-> c, tip |-> p, value |-> 1]
Rich == [s \in {"a", "b"} |-> 100]

(* The pool is full of the first transactions of a and b.  A client sends  *)
(* the second one of a, which evicts the first; a peer sends a replacement *)
(* of the first one of a, and b's again; others mine a's first one.        *)
A0 == Tx("a", 0, 9, 1)
A0b == Tx("a", 0, 10, 2)
A1 == Tx("a", 1, 9, 2)
B0 == Tx("b", 0, 9, 2)
Four == {A0, A0b, A1, B0}
Files == {<<B0, A0>>}
Sends == {A1}
Deliveries == {<<A0b, B0>>}
Blocks == {<<>>, <<A0>>}

(* Two senders, the second transaction of a worth more than the first.     *)
TwoSenders == {Tx("a", 0, 9, 0), Tx("a", 1, 11, 2), Tx("b", 0, 10, 1)}
None == {<<>>}
Nothing == {}
=============================================================================
