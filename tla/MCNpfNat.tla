------------------------------ MODULE MCNpfNat -------------------------------
(***************************************************************************)
(* Instance of NpfNat for TLC.  Memory is interchangeable: the policies,   *)
(* the entries and the connections are symmetric.                          *)
(***************************************************************************)
EXTENDS NpfNat, TLC

Symmetry == Permutations(Policies) \cup Permutations(Nats) \cup Permutations(Conns)
              \cup Permutations(Packets)
====
