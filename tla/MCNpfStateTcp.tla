--------------------------- MODULE MCNpfStateTcp -----------------------------
(* Instance of NpfStateTcp for TLC: initial sequence numbers of which one    *)
(* does not wrap and the other wraps past zero in the data, or onto zero.    *)
EXTENDS NpfStateTcp

Pair(a, b) == [f \in Flows |-> IF f = "forw" THEN a ELSE b]
MCIsses == {Pair(29, 3), Pair(3, 28)}
====
