------------------------------ MODULE NpfWorkerAlg ------------------------------
(***************************************************************************)
(* NpfWorker with the PPTP ALG loaded.  npf_alg_exec() runs the ALGs       *)
(* inside of an EBR section, and pptp_gre_establish_state() establishes a  *)
(* connection there: when there is no memory for it, npf_worker_signal()   *)
(* takes the lock of the workers inside of the section.                    *)
(***************************************************************************)
EXTENDS NpfWorker

alg_establish(n) ==
  /\ p_pc[n] = "read" /\ p_pc' = [p_pc EXCEPT ![n] = "alg_nomem"]
  /\ UNCHANGED <<sys, exit, instances, cv, exit_cv, worker_flags, conn_tracking, ebr, alive, drain,
                 wvars, locks, cvars, ref>>

alg_nomem(n) ==
  /\ p_pc[n] = "alg_nomem" /\ p_pc' = [p_pc EXCEPT ![n] = "idle"]
  /\ npf_worker_signal(n)
  /\ ReadExit(n)
  /\ UNCHANGED <<c_pc, ref>>

AlgNext == Next \/ \E n \in Handling : alg_establish(n) \/ alg_nomem(n)

AlgSpec == Init /\ [][AlgNext]_vars /\ Fairness /\ \A n \in Handling : SF_vars(alg_nomem(n))

\* "Synchronise: drain all references": npf_ebr_full_sync() ends, whoever
\* called it, because every reader leaves its section.
GraceEnds == \A t \in Threads : drain[t] # None ~> drain[t] = None
====
