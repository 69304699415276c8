------------------------------- MODULE MCNpfMaps -------------------------------
(***************************************************************************)
(* The two structures that packet threads share with the G/C: either the   *)
(* port map of an address (NpfPortmap) or the lists of connections         *)
(* (NpfConndbGc).  They share no state; a behaviour is one of either, and  *)
(* only that one is scheduled.                                             *)
(***************************************************************************)
EXTENDS NpfPortmap, NpfConndbGc

VARIABLE part

MapsInit == part \in {"ports", "gc"} /\ Init /\ GcInit

MapsNext ==
  \/ part = "ports" /\ Next /\ UNCHANGED <<part, gcVars>>
  \/ part = "gc" /\ GcNext /\ UNCHANGED <<part, vars>>

MapsSpec ==
  /\ MapsInit /\ [][MapsNext]_<<part, vars, gcVars>>
  /\ Fairness
  /\ WF_gcVars(part = "gc" /\ Worker)
  /\ \A c \in Conns : WF_gcVars(part = "gc" /\ npf_conn_release(c) /\ c \in removed)
====
