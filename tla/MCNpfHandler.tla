---------------------------- MODULE MCNpfHandler -----------------------------
(* Instances of NpfHandler for TLC. *)
EXTENDS NpfHandler, TLC

ProcRules == [rproc : {TRUE}, stateful : BOOLEAN, pass : BOOLEAN]

\* NAT together with rules that have a procedure.
NatProcSites == {[rules |-> ProcRules, results |-> {TRUE}, nat |-> TRUE]}

\* Stateful rules with a procedure that may consume the packet.
ConsumeSites == {[rules |-> ProcRules, results |-> BOOLEAN, nat |-> FALSE]}

Symmetry == Permutations(Threads) \cup Permutations(Conns) \cup Permutations(Rprocs)
====
