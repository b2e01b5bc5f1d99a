--------------------------- MODULE MCTransactions ---------------------------
(* Transactions of two binder threads: synchronous, animated, queued behind a *)
(* fence, with input commands, and empty.                                     *)
EXTENDS Transactions

CONSTANTS c1, c2, t1, t2

Kind(changes, synchronous, animation, inputSync, token, when0) ==
    [changes |-> changes, synchronous |-> synchronous, animation |-> animation,
     inputSync |-> inputSync, token |-> token, when |-> {when0}]
SmallKinds == {
    Kind({"content"}, TRUE, FALSE, FALSE, t1, "far"),
    Kind({"display"}, FALSE, TRUE, FALSE, t1, "later"),
    Kind({}, TRUE, FALSE, TRUE, t2, "now"),
    Kind({}, FALSE, FALSE, FALSE, t2, "now")}
=============================================================================
