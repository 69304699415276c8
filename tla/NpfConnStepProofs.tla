-------------------------- MODULE NpfConnStepProofs ---------------------------
(***************************************************************************)
(* Core of NpfConnInv is preserved by the steps of the G/C worker and of   *)
(* the environment, gc_reap apart (NpfConnProofs), and by those with which *)
(* a packet thread looks up and inspects a connection: one lemma per       *)
(* action, one step per conjunct that the action can disturb.  An action   *)
(* with two branches is split first, and step <2>1 of a branch says what   *)
(* it does.  In the lemmas on packet threads, step <1>1 says in which sets *)
(* of labels the labels of the action lie.                                 *)
(***************************************************************************)
EXTENDS NpfConnInv, TLAPS

\* A thread at a ConPCs label refers to allocated memory with valid keys, in
\* the one database there is.
LEMMA UsesConn ==
  ASSUME IInv, NEW t \in Threads, pc[t] \in ConPCs
  PROVE  /\ conn_db = db0 /\ w_cd = db0 /\ t_cd[t] = db0
         /\ t_con[t] \in Conns /\ t_con[t] \notin pool
         /\ c_forw[t_con[t]] \in Keys /\ c_back[t_con[t]] \in Keys
<1>1. t_con[t] \in Conns /\ t_con[t] \notin pool
  BY DEF IInv, Core, TypeOK, ControlInv, PoolInv
<1> QED
  BY <1>1 DEF IInv, Core, SingleDB, KeyInv

\* So does the worker when it removes or destroys a connection.
LEMMA UsesWorkerConn ==
  ASSUME IInv, w_pc \in {"remove_forw", "remove_back", "destroy"}
  PROVE  /\ conn_db = db0 /\ w_cd = db0
         /\ w_con \in Conns /\ w_con \notin pool
         /\ c_forw[w_con] \in Keys /\ c_back[w_con] \in Keys
<1>1. w_con \in Conns /\ w_con \notin pool
  BY DEF IInv, Core, TypeOK, ControlInv, PoolInv
<1> QED
  BY <1>1 DEF IInv, Core, SingleDB, KeyInv

USE DEF IInv, Core, Goto, EbrExit, Vacant, LoadDB, SetRemoved, Unreferenced,
        NatRefused, npf_conn_init, npf_conn_check, npf_conndb_insert,
        npf_conndb_remove, npf_conndb_update, npf_config_sync, dbVars,
        lockVars, keyVars, connVars, ebrVars, threadVars, workerVars

-----------------------------------------------------------------------------
(* The G/C worker and the environment.                                     *)

\* npf_natpolicy_destroy expires a connection it has no reference to.
LEMMA Ind_natpolicy_expire ==
  ASSUME IInv, NEW c \in Conns, natpolicy_expire(c)
  PROVE  Core'
<1>1. conn_db = db0 /\ w_cd = db0
  BY DEF SingleDB
<1>2. SingleDB' /\ ControlInv' /\ LockInv' /\ ListInv' /\ GraceInv'
  BY DEF natpolicy_expire, TypeOK, SingleDB, Listed, ControlInv, LockInv,
         ListInv, GraceInv
<1>3. TypeOK'
  BY <1>1 DEF natpolicy_expire, TypeOK, Flags, WorkerPCs
<1>4. PoolInv' /\ FlagInv' /\ KeyInv' /\ LinkInv'
  BY <1>1
     DEF natpolicy_expire, TypeOK, PoolInv, FlagInv, KeyInv, LinkInv, Listed,
         HolderAt, ForwLinked, BackLinked
<1>5. GcInv' /\ EmbryonicIsPrivate'
  BY <1>1 DEF natpolicy_expire, TypeOK, GcInv, EmbryonicIsPrivate
<1> QED
  BY <1>2, <1>3, <1>4, <1>5

\* npf_conndb_export migrates the new connections.
LEMMA Ind_npf_conndb_export ==
  ASSUME IInv, npf_conndb_export
  PROVE  Core'
<1>1. conn_db = db0 /\ w_cd = db0
  BY DEF SingleDB
<1>2. ControlInv' /\ LockInv' /\ FlagInv' /\ KeyInv' /\ LinkInv' /\ GcInv' /\ GraceInv'
    /\ EmbryonicIsPrivate'
  BY DEF npf_conndb_export, TypeOK, ControlInv, LockInv, FlagInv, KeyInv,
         HolderAt, LinkInv, ForwLinked, BackLinked, GcInv, GraceInv,
         EmbryonicIsPrivate
<1>3. TypeOK'
  BY <1>1 DEF npf_conndb_export, TypeOK, Flags, WorkerPCs
<1>4. SingleDB' /\ PoolInv'
  BY <1>1 DEF npf_conndb_export, TypeOK, SingleDB, PoolInv, Listed
<1>5. ListInv'
  BY <1>1 DEF npf_conndb_export, TypeOK, ListInv, Listed
<1> QED
  BY <1>2, <1>3, <1>4, <1>5

\* npf_conn_worker loads the database pointer.
LEMMA Ind_npf_conn_worker ==
  ASSUME IInv, npf_conn_worker
  PROVE  Core'
<1>1. conn_db = db0 /\ w_cd = db0
  BY Zenon DEF SingleDB
<1>2. PoolInv' /\ ListInv' /\ KeyInv' /\ LinkInv' /\ EmbryonicIsPrivate'
  BY DEF npf_conn_worker, TypeOK, PoolInv, Listed, ListInv, KeyInv, HolderAt,
         LinkInv, ForwLinked, BackLinked, EmbryonicIsPrivate
<1>3. TypeOK'
  BY <1>1 DEF npf_conn_worker, TypeOK, Flags, WorkerPCs
<1>4. SingleDB' /\ ControlInv' /\ LockInv' /\ FlagInv'
  BY <1>1
     DEF npf_conn_worker, TypeOK, SingleDB, ControlInv, LockInv, FlagInv,
         Listed
<1>5. GcInv' /\ GraceInv'
  BY <1>1 DEF npf_conn_worker, TypeOK, GcInv, GraceInv
<1> QED
  BY <1>2, <1>3, <1>4, <1>5

\* npf_conndb_gc migrates the new connections under conn_lock.
LEMMA Ind_npf_conndb_gc ==
  ASSUME IInv, npf_conndb_gc
  PROVE  Core'
<1>1. conn_db = db0 /\ w_cd = db0
  BY Zenon DEF SingleDB
<1>2. KeyInv' /\ LinkInv' /\ EmbryonicIsPrivate'
  BY DEF npf_conndb_gc, TypeOK, KeyInv, HolderAt, LinkInv, ForwLinked,
         BackLinked, EmbryonicIsPrivate
<1>3. TypeOK'
  BY <1>1 DEF npf_conndb_gc, TypeOK, Flags, WorkerPCs
<1>4. SingleDB' /\ ControlInv' /\ LockInv' /\ PoolInv'
  BY <1>1
     DEF npf_conndb_gc, TypeOK, SingleDB, ControlInv, LockInv, PoolInv, Listed
<1>5. ListInv'
  BY <1>1 DEF npf_conndb_gc, TypeOK, ListInv, Listed
<1>6. FlagInv' /\ GcInv' /\ GraceInv'
  BY <1>1 DEF npf_conndb_gc, TypeOK, FlagInv, GcInv, GraceInv
<1> QED
  BY <1>2, <1>3, <1>4, <1>5, <1>6

\* npf_conndb_gc_incr moves a connection from one list to the other.
LEMMA Ind_npf_conndb_gc_incr ==
  ASSUME IInv, NEW c \in Conns, npf_conndb_gc_incr(c)
  PROVE  Core'
<1>1. conn_db = db0 /\ w_cd = db0
  BY DEF SingleDB
<1>2. KeyInv' /\ LinkInv' /\ EmbryonicIsPrivate'
  BY DEF npf_conndb_gc_incr, TypeOK, KeyInv, HolderAt, LinkInv, ForwLinked,
         BackLinked, EmbryonicIsPrivate
<1>3. TypeOK'
  BY <1>1 DEF npf_conndb_gc_incr, TypeOK, Flags, WorkerPCs
<1>4. SingleDB' /\ LockInv' /\ PoolInv' /\ FlagInv'
  BY <1>1
     DEF npf_conndb_gc_incr, TypeOK, SingleDB, LockInv, PoolInv, FlagInv,
         Listed
<1>5. ControlInv'
  BY <1>1, NamesAssumption DEF npf_conndb_gc_incr, TypeOK, ControlInv
<1>6. ListInv'
  BY <1>1 DEF npf_conndb_gc_incr, TypeOK, ListInv, Listed
<1>7. GcInv'
  BY <1>1 DEF npf_conndb_gc_incr, TypeOK, GcInv
<1>8. GraceInv'
  BY <1>1, Zenon DEF npf_conndb_gc_incr, TypeOK, GraceInv
<1> QED
  BY <1>2, <1>3, <1>4, <1>5, <1>6, <1>7, <1>8

\* npf_conn_remove: the "forwards" entry, or nothing left to remove.
LEMMA Ind_npf_conn_remove ==
  ASSUME IInv, npf_conn_remove
  PROVE  Core'
<1>1. /\ conn_db = db0 /\ w_cd = db0 /\ w_con \in Conns
      /\ w_con \notin pool /\ c_forw[w_con] \in Keys
      /\ c_back[w_con] \in Keys
  BY UsesWorkerConn, Zenon DEF npf_conn_remove, TypeOK
<1>2. CASE "REMOVED" \notin c_flags[w_con]
  <2>1. /\ w_pc = "remove_forw"
        /\ c_lock[w_con] = None
        /\ "REMOVED" \notin c_flags[w_con]
        /\ c_lock' = [c_lock EXCEPT ![w_con] = Worker]
        /\ cd_map' = [cd_map EXCEPT ![<<db0, c_forw[w_con]>>] = None]
        /\ w_pc' = "remove_back"
        /\ UNCHANGED <<c_flags, w_con, conn_db, conn_tracking, cd_new, cd_list,
                       cd_gclist, lockVars, c_refcnt, keyVars, pool, ebrVars,
                       threadVars, w_cd>>
    BY <1>1, <1>2, Zenon DEF npf_conn_remove
  <2>2. EmbryonicIsPrivate'
    BY <2>1 DEF TypeOK, EmbryonicIsPrivate
  <2>3. TypeOK'
    BY <1>1, <2>1, Zenon DEF TypeOK, Flags, WorkerPCs
  <2>4. SingleDB' /\ ControlInv' /\ FlagInv' /\ GcInv'
    BY <1>1, <2>1 DEF TypeOK, SingleDB, ControlInv, FlagInv, GcInv, Listed
  <2>5. LockInv'
    BY <1>1, <2>1, NamesAssumption DEF TypeOK, LockInv
  <2>6. PoolInv'
    BY <1>1, <2>1, NamesAssumption DEF TypeOK, PoolInv, Listed
  <2>7. ListInv'
    BY <1>1, <2>1, NamesAssumption DEF TypeOK, ListInv, Listed
  <2>8. KeyInv'
    BY <1>1, <2>1, NamesAssumption, Zenon DEF TypeOK, KeyInv, HolderAt
  <2>9. LinkInv'
    BY <1>1, <2>1, NamesAssumption
       DEF TypeOK, LinkInv, LockInv, PoolInv, FlagInv, KeyInv, ForwLinked,
           BackLinked, HolderAt, Listed
  <2>10. GraceInv'
    BY <1>1, <2>1, Zenon DEF TypeOK, GraceInv
  <2> QED
    BY <2>2, <2>3, <2>4, <2>5, <2>6, <2>7, <2>8, <2>9, <2>10, SMTT(30)
<1>3. CASE "REMOVED" \in c_flags[w_con]
  <2>1. /\ w_pc = "remove_forw"
        /\ c_lock[w_con] = None
        /\ "REMOVED" \in c_flags[w_con]
        /\ c_flags' = [c_flags EXCEPT ![w_con] = @ \cup {"REMOVED", "EXPIRE"}]
        /\ w_pc' = "scan"
        /\ w_con' = None
        /\ UNCHANGED <<c_lock, cd_map, conn_db, conn_tracking, cd_new, cd_list,
                       cd_gclist, lockVars, c_refcnt, keyVars, pool, ebrVars,
                       threadVars, w_cd>>
    BY <1>1, <1>3, Zenon DEF npf_conn_remove
  <2>2. SingleDB' /\ ListInv'
    BY <2>1 DEF TypeOK, SingleDB, Listed, ListInv
  <2>3. TypeOK'
    BY <1>1, <2>1, Zenon DEF TypeOK, Flags, WorkerPCs
  <2>4. ControlInv' /\ LockInv' /\ FlagInv' /\ KeyInv'
    BY <1>1, <2>1 DEF TypeOK, ControlInv, LockInv, FlagInv, KeyInv, HolderAt
  <2>5. PoolInv'
    BY <1>1, <2>1, NamesAssumption DEF TypeOK, PoolInv, Listed
  <2>6. LinkInv' /\ GcInv' /\ GraceInv' /\ EmbryonicIsPrivate'
    BY <1>1, <2>1
       DEF TypeOK, LinkInv, GcInv, GraceInv, EmbryonicIsPrivate, ForwLinked,
           BackLinked, HolderAt
  <2> QED
    BY <2>2, <2>3, <2>4, <2>5, <2>6, SMTT(30)
<1> QED
  BY <1>2, <1>3

\* npf_conn_remove: the "backwards" entry, the flags and c_lock.
LEMMA Ind_conn_remove_back ==
  ASSUME IInv, conn_remove_back
  PROVE  Core'
<1>1. /\ conn_db = db0 /\ w_cd = db0 /\ w_con \in Conns
      /\ w_con \notin pool /\ c_forw[w_con] \in Keys
      /\ c_back[w_con] \in Keys
  BY UsesWorkerConn, Zenon DEF conn_remove_back, TypeOK
<1>2. TypeOK'
  BY <1>1, Zenon DEF conn_remove_back, TypeOK, Flags, WorkerPCs
<1>3. SingleDB' /\ ControlInv' /\ GraceInv' /\ EmbryonicIsPrivate'
  BY <1>1
     DEF conn_remove_back, TypeOK, SingleDB, ControlInv, GraceInv,
         EmbryonicIsPrivate, Listed
<1>4. LockInv'
  BY <1>1, NamesAssumption DEF conn_remove_back, TypeOK, LockInv
<1>5. PoolInv'
  BY <1>1, NamesAssumption DEF conn_remove_back, TypeOK, PoolInv, Listed
<1>6. ListInv'
  BY <1>1, NamesAssumption
     DEF conn_remove_back, TypeOK, ListInv, LockInv, Listed
<1>7. FlagInv'
  BY <1>1, NamesAssumption DEF conn_remove_back, TypeOK, FlagInv, LockInv
<1>8. KeyInv'
  BY <1>1, Zenon DEF conn_remove_back, TypeOK, KeyInv, HolderAt
<1>9. LinkInv'
  BY <1>1, NamesAssumption
     DEF conn_remove_back, TypeOK, LinkInv, LockInv, PoolInv, FlagInv, KeyInv,
         ForwLinked, BackLinked, HolderAt, Listed
<1>10. GcInv'
  BY <1>1, Zenon DEF conn_remove_back, TypeOK, GcInv
<1> QED
  BY <1>2, <1>3, <1>4, <1>5, <1>6, <1>7, <1>8, <1>9, <1>10

\* npf_conndb_gc releases conn_lock.
LEMMA Ind_gc_scan_done ==
  ASSUME IInv, gc_scan_done
  PROVE  Core'
<1>1. conn_db = db0 /\ w_cd = db0
  BY Zenon DEF SingleDB
<1>2. SingleDB' /\ PoolInv' /\ ListInv' /\ KeyInv' /\ LinkInv' /\ EmbryonicIsPrivate'
  BY DEF gc_scan_done, TypeOK, SingleDB, Listed, PoolInv, ListInv, KeyInv,
         HolderAt, LinkInv, ForwLinked, BackLinked, EmbryonicIsPrivate
<1>3. TypeOK'
  BY <1>1, Zenon DEF gc_scan_done, TypeOK, Flags, WorkerPCs
<1>4. ControlInv' /\ LockInv' /\ FlagInv' /\ GcInv'
  BY <1>1 DEF gc_scan_done, TypeOK, ControlInv, LockInv, FlagInv, GcInv
<1>5. GraceInv'
  BY <1>1, Zenon DEF gc_scan_done, TypeOK, GraceInv
<1> QED
  BY <1>2, <1>3, <1>4, <1>5

\* npf_conndb_gc: the readers to wait for are those inside a section now;
\* any thread that already fetched a connection of the G/C list is one.
LEMMA Ind_gc_sync ==
  ASSUME IInv, gc_sync
  PROVE  Core'
<1>1. conn_db = db0 /\ w_cd = db0
  BY DEF SingleDB
<1>2. SingleDB' /\ PoolInv' /\ ListInv' /\ KeyInv' /\ LinkInv' /\ EmbryonicIsPrivate'
  BY DEF gc_sync, TypeOK, SingleDB, Listed, PoolInv, ListInv, KeyInv,
         HolderAt, LinkInv, ForwLinked, BackLinked, EmbryonicIsPrivate
<1>3. TypeOK'
  BY <1>1, Zenon DEF gc_sync, TypeOK, Flags, WorkerPCs
<1>4. ControlInv' /\ LockInv' /\ FlagInv' /\ GcInv'
  BY <1>1 DEF gc_sync, TypeOK, ControlInv, LockInv, FlagInv, GcInv
<1>5. GraceInv'
  BY <1>1, Zenon DEF gc_sync, TypeOK, ControlInv, GraceInv
<1> QED
  BY <1>2, <1>3, <1>4, <1>5, Zenon

\* npf_conndb_gc: nobody is left to wait for.
LEMMA Ind_gc_sync_done ==
  ASSUME IInv, gc_sync_done
  PROVE  Core'
<1>1. conn_db = db0 /\ w_cd = db0
  BY DEF SingleDB
<1>2. SingleDB' /\ PoolInv' /\ ListInv' /\ KeyInv' /\ LinkInv' /\ EmbryonicIsPrivate'
  BY DEF gc_sync_done, TypeOK, SingleDB, Listed, PoolInv, ListInv, KeyInv,
         HolderAt, LinkInv, ForwLinked, BackLinked, EmbryonicIsPrivate
<1>3. TypeOK'
  BY <1>1, Zenon DEF gc_sync_done, TypeOK, Flags, WorkerPCs
<1>4. ControlInv' /\ LockInv' /\ FlagInv' /\ GcInv'
  BY <1>1 DEF gc_sync_done, TypeOK, ControlInv, LockInv, FlagInv, GcInv
<1>5. GraceInv'
  BY <1>1 DEF gc_sync_done, TypeOK, GraceInv
<1> QED
  BY <1>2, <1>3, <1>4, <1>5, Zenon

\* npf_conndb_gc: the G/C list is empty.
LEMMA Ind_gc_reap_done ==
  ASSUME IInv, gc_reap_done
  PROVE  Core'
<1>1. conn_db = db0 /\ w_cd = db0
  BY DEF SingleDB
<1>2. SingleDB' /\ PoolInv' /\ ListInv' /\ KeyInv' /\ LinkInv' /\ EmbryonicIsPrivate'
  BY DEF gc_reap_done, TypeOK, SingleDB, Listed, PoolInv, ListInv, KeyInv,
         HolderAt, LinkInv, ForwLinked, BackLinked, EmbryonicIsPrivate
<1>3. TypeOK'
  BY <1>1, Zenon DEF gc_reap_done, TypeOK, Flags, WorkerPCs
<1>4. ControlInv' /\ LockInv' /\ FlagInv' /\ GcInv'
  BY <1>1 DEF gc_reap_done, TypeOK, ControlInv, LockInv, FlagInv, GcInv
<1>5. GraceInv'
  BY <1>1, Zenon DEF gc_reap_done, TypeOK, GraceInv
<1> QED
  BY <1>2, <1>3, <1>4, <1>5, Zenon

\* npf_conn_destroy returns the memory to the pool.
LEMMA Ind_npf_conn_destroy ==
  ASSUME IInv, npf_conn_destroy
  PROVE  Core'
<1>1. /\ conn_db = db0 /\ w_cd = db0 /\ w_con \in Conns
      /\ w_con \notin pool /\ c_forw[w_con] \in Keys
      /\ c_back[w_con] \in Keys
  BY UsesWorkerConn, Zenon DEF npf_conn_destroy, TypeOK
<1>2. TypeOK'
  BY <1>1, Zenon DEF npf_conn_destroy, TypeOK, Flags, WorkerPCs
<1>3. SingleDB' /\ ControlInv' /\ LockInv' /\ ListInv'
  BY <1>1
     DEF npf_conn_destroy, TypeOK, SingleDB, ControlInv, LockInv, ListInv,
         Listed
<1>4. PoolInv'
  BY <1>1, NamesAssumption
     DEF npf_conn_destroy, TypeOK, ControlInv, LockInv, PoolInv, ListInv,
         FlagInv, KeyInv, LinkInv, GcInv, GraceInv, Listed, HolderAt,
         ForwLinked, BackLinked
<1>5. FlagInv'
  BY <1>1
     DEF npf_conn_destroy, TypeOK, ControlInv, LockInv, PoolInv, ListInv,
         FlagInv, KeyInv, LinkInv, GcInv, GraceInv, Listed, HolderAt,
         ForwLinked, BackLinked
<1>6. KeyInv' /\ LinkInv' /\ GraceInv'
  BY <1>1
     DEF npf_conn_destroy, TypeOK, KeyInv, LinkInv, GraceInv, HolderAt,
         ForwLinked, BackLinked
<1>7. GcInv'
  BY <1>1, Zenon DEF npf_conn_destroy, TypeOK, GcInv
<1>8. EmbryonicIsPrivate'
  BY <1>1
     DEF npf_conn_destroy, TypeOK, ControlInv, LockInv, PoolInv, ListInv,
         FlagInv, KeyInv, LinkInv, GcInv, GraceInv, EmbryonicIsPrivate,
         Listed, HolderAt, ForwLinked, BackLinked
<1> QED
  BY <1>2, <1>3, <1>4, <1>5, <1>6, <1>7, <1>8
-----------------------------------------------------------------------------
(* A packet thread looks up and inspects a connection.                     *)

\* npf_conn_inspect: a packet arrives and the database pointer is loaded.
LEMMA Ind_npf_conn_inspect ==
  ASSUME IInv, NEW t \in Threads, NEW k \in PktKeys, npf_conn_inspect(t, k)
  PROVE  Core'
<1>1. /\ "start" \in ThreadPCs /\ "start" \notin ConPCs /\ "start" \notin LockPCs
      /\ "start" \notin NewPCs /\ "start" \notin KeyPCs /\ "start" \notin RefPCs
      /\ "enter" \in ThreadPCs /\ "enter" \notin ConPCs /\ "enter" \notin LockPCs
      /\ "enter" \notin NewPCs /\ "enter" \in KeyPCs /\ "enter" \notin RefPCs
  BY Zenon DEF ThreadPCs, ConPCs, RefPCs, LockPCs, NewPCs, KeyPCs
<1>2. conn_db = db0 /\ w_cd = db0
  BY DEF SingleDB
<1>3. PoolInv' /\ GcInv'
  BY Zenon DEF npf_conn_inspect, TypeOK, PoolInv, Listed, GcInv
<1>4. TypeOK'
  BY <1>1, <1>2, Zenon DEF npf_conn_inspect, TypeOK, Flags, WorkerPCs
<1>5. SingleDB' /\ KeyInv' /\ LinkInv' /\ GraceInv'
  BY <1>2
     DEF npf_conn_inspect, TypeOK, SingleDB, KeyInv, LinkInv, GraceInv,
         Listed, HolderAt, ForwLinked, BackLinked
<1>6. ControlInv'
  BY <1>1, <1>2, NamesAssumption, KeysAssumption
     DEF npf_conn_inspect, TypeOK, ControlInv
<1>7. LockInv' /\ ListInv' /\ FlagInv' /\ EmbryonicIsPrivate'
  BY <1>1, <1>2
     DEF npf_conn_inspect, TypeOK, LockInv, ListInv, FlagInv,
         EmbryonicIsPrivate, Listed
<1> QED
  BY <1>3, <1>4, <1>5, <1>6, <1>7

\* npf_config_read_enter: the lookup enters its EBR section.
LEMMA Ind_npf_config_read_enter ==
  ASSUME IInv, NEW t \in Threads, npf_config_read_enter(t)
  PROVE  Core'
<1>1. /\ "enter" \in ThreadPCs /\ "enter" \notin ConPCs /\ "enter" \notin LockPCs
      /\ "enter" \notin NewPCs /\ "enter" \in KeyPCs /\ "enter" \notin RefPCs
      /\ "get" \in ThreadPCs /\ "get" \notin ConPCs /\ "get" \notin LockPCs
      /\ "get" \notin NewPCs /\ "get" \in KeyPCs /\ "get" \notin RefPCs
  BY Zenon DEF ThreadPCs, ConPCs, RefPCs, LockPCs, NewPCs, KeyPCs
<1>2. conn_db = db0 /\ w_cd = db0
  BY DEF SingleDB
<1>3. SingleDB' /\ PoolInv' /\ GcInv'
  BY Zenon DEF npf_config_read_enter, TypeOK, SingleDB, Listed, PoolInv, GcInv
<1>4. TypeOK'
  BY <1>1, <1>2, Zenon DEF npf_config_read_enter, TypeOK, Flags, WorkerPCs
<1>5. ControlInv'
  BY <1>1, <1>2, Zenon DEF npf_config_read_enter, TypeOK, ControlInv
<1>6. LockInv' /\ ListInv' /\ FlagInv' /\ EmbryonicIsPrivate'
  BY <1>1, <1>2
     DEF npf_config_read_enter, TypeOK, LockInv, ListInv, FlagInv,
         EmbryonicIsPrivate, Listed
<1>7. KeyInv' /\ LinkInv' /\ GraceInv'
  BY <1>2
     DEF npf_config_read_enter, TypeOK, KeyInv, LinkInv, GraceInv, HolderAt,
         ForwLinked, BackLinked
<1> QED
  BY <1>3, <1>4, <1>5, <1>6, <1>7

\* npf_conndb_lookup, thmap_get: what it finds is linked, hence not on the
\* G/C list of a worker that has started to wait, unless the worker is still
\* removing it.
LEMMA Ind_npf_conndb_lookup ==
  ASSUME IInv, NEW t \in Threads, npf_conndb_lookup(t)
  PROVE  Core'
<1>1. /\ "get" \in ThreadPCs /\ "get" \notin ConPCs /\ "get" \notin LockPCs
      /\ "get" \notin NewPCs /\ "get" \in KeyPCs /\ "get" \notin RefPCs
      /\ "miss" \in ThreadPCs /\ "miss" \notin ConPCs /\ "miss" \notin LockPCs
      /\ "miss" \notin NewPCs /\ "miss" \in KeyPCs /\ "miss" \notin RefPCs
      /\ "ref" \in ThreadPCs /\ "ref" \in ConPCs /\ "ref" \notin LockPCs
      /\ "ref" \notin NewPCs /\ "ref" \in KeyPCs /\ "ref" \notin RefPCs
  BY Zenon DEF ThreadPCs, ConPCs, RefPCs, LockPCs, NewPCs, KeyPCs
<1>2. /\ conn_db = db0 /\ w_cd = db0 /\ t_cd[t] = db0
      /\ t_key[t] \in Keys
  BY <1>1, KeysAssumption DEF npf_conndb_lookup, TypeOK, SingleDB, ControlInv
<1>3. CASE cd_map[<<db0, t_key[t]>>] = None
  <2>1. /\ pc[t] = "get"
        /\ cd_map[<<db0, t_key[t]>>] = None
        /\ readers' = readers \ {t}
        /\ grace' = grace \ {t}
        /\ pc' = [pc EXCEPT ![t] = "miss"]
        /\ UNCHANGED <<t_con, dbVars, lockVars, connVars, t_key, t_cd, t_ncon,
                       workerVars>>
    BY <1>2, <1>3, NamesAssumption DEF TypeOK, npf_conndb_lookup
  <2>2. SingleDB' /\ PoolInv' /\ GcInv'
    BY <2>1 DEF TypeOK, SingleDB, Listed, PoolInv, GcInv
  <2>3. TypeOK'
    BY <1>1, <1>2, <2>1, Zenon DEF TypeOK, Flags, WorkerPCs
  <2>4. ControlInv'
    BY <1>1, <1>2, <2>1, Zenon DEF TypeOK, ControlInv
  <2>5. LockInv' /\ ListInv' /\ FlagInv' /\ EmbryonicIsPrivate'
    BY <1>1, <1>2, <2>1
       DEF TypeOK, LockInv, ListInv, FlagInv, EmbryonicIsPrivate, Listed
  <2>6. KeyInv' /\ LinkInv' /\ GraceInv'
    BY <1>2, <2>1
       DEF TypeOK, KeyInv, LinkInv, GraceInv, HolderAt, ForwLinked, BackLinked
  <2> QED
    BY <2>2, <2>3, <2>4, <2>5, <2>6, Zenon
<1>4. CASE cd_map[<<db0, t_key[t]>>] # None
  <2>1. /\ pc[t] = "get"
        /\ cd_map[<<db0, t_key[t]>>] \in Conns
        /\ t_con' = [t_con EXCEPT ![t] = cd_map[<<db0, t_key[t]>>]]
        /\ pc' = [pc EXCEPT ![t] = "ref"]
        /\ UNCHANGED <<ebrVars, dbVars, lockVars, connVars, t_key, t_cd, t_ncon,
                       workerVars>>
    BY <1>2, <1>4, NamesAssumption, Zenon DEF TypeOK, npf_conndb_lookup
  <2>2. SingleDB' /\ GcInv'
    BY <2>1, Zenon DEF TypeOK, SingleDB, Listed, GcInv
  <2>3. TypeOK'
    BY <1>1, <1>2, <2>1, Zenon DEF TypeOK, Flags, WorkerPCs
  <2>4. ControlInv'
    BY <1>1, <1>2, <2>1, NamesAssumption DEF TypeOK, ControlInv
  <2>5. LockInv' /\ ListInv' /\ FlagInv' /\ EmbryonicIsPrivate'
    BY <1>1, <1>2, <2>1
       DEF TypeOK, LockInv, ListInv, FlagInv, EmbryonicIsPrivate, Listed
  <2>6. PoolInv' /\ KeyInv' /\ LinkInv'
    BY <1>2, <2>1
       DEF TypeOK, PoolInv, KeyInv, LinkInv, Listed, HolderAt, ForwLinked,
           BackLinked
  <2>7. GraceInv'
    BY <1>2, <2>1
       DEF TypeOK, ControlInv, GraceInv, GcInv, LinkInv, PoolInv, FlagInv,
           ForwLinked, BackLinked, HolderAt, Listed
  <2> QED
    BY <2>2, <2>3, <2>4, <2>5, <2>6, <2>7
<1> QED
  BY <1>3, <1>4, Zenon

\* npf_conndb_lookup: the reference is counted and the EBR section left.
LEMMA Ind_conndb_lookup_ref ==
  ASSUME IInv, NEW t \in Threads, conndb_lookup_ref(t)
  PROVE  Core'
<1>1. /\ "ref" \in ThreadPCs /\ "ref" \in ConPCs /\ "ref" \notin LockPCs
      /\ "ref" \notin NewPCs /\ "ref" \in KeyPCs /\ "ref" \notin RefPCs
      /\ "check" \in ThreadPCs /\ "check" \in ConPCs /\ "check" \notin LockPCs
      /\ "check" \notin NewPCs /\ "check" \in KeyPCs /\ "check" \in RefPCs
  BY Zenon DEF ThreadPCs, ConPCs, RefPCs, LockPCs, NewPCs, KeyPCs
<1>2. /\ conn_db = db0 /\ w_cd = db0 /\ t_con[t] \in Conns
      /\ t_con[t] \notin pool /\ c_forw[t_con[t]] \in Keys
      /\ c_back[t_con[t]] \in Keys /\ t_cd[t] = db0
  BY UsesConn, <1>1 DEF conndb_lookup_ref, TypeOK
<1>3. SingleDB' /\ PoolInv' /\ GcInv'
  BY Zenon DEF conndb_lookup_ref, TypeOK, SingleDB, Listed, PoolInv, GcInv
<1>4. TypeOK'
  BY <1>1, <1>2 DEF conndb_lookup_ref, TypeOK, Flags, WorkerPCs
<1>5. ControlInv'
  BY <1>1, <1>2, Zenon DEF conndb_lookup_ref, TypeOK, ControlInv
<1>6. LockInv' /\ ListInv' /\ FlagInv'
  BY <1>1, <1>2
     DEF conndb_lookup_ref, TypeOK, LockInv, ListInv, FlagInv, Listed
<1>7. KeyInv' /\ LinkInv' /\ EmbryonicIsPrivate'
  BY <1>2
     DEF conndb_lookup_ref, TypeOK, KeyInv, LinkInv, EmbryonicIsPrivate,
         HolderAt, ForwLinked, BackLinked
<1>8. GraceInv'
  BY <1>2, Zenon DEF conndb_lookup_ref, TypeOK, GraceInv
<1> QED
  BY <1>3, <1>4, <1>5, <1>6, <1>7, <1>8

\* npf_conn_lookup: a connection that fails npf_conn_check is given back.
LEMMA Ind_npf_conn_lookup ==
  ASSUME IInv, NEW t \in Threads, NEW match \in BOOLEAN,
         npf_conn_lookup(t, match)
  PROVE  Core'
<1>1. /\ "check" \in ThreadPCs /\ "check" \in ConPCs /\ "check" \notin LockPCs
      /\ "check" \notin NewPCs /\ "check" \in KeyPCs /\ "check" \in RefPCs
      /\ "inspect" \in ThreadPCs /\ "inspect" \in ConPCs /\ "inspect" \notin LockPCs
      /\ "inspect" \notin NewPCs /\ "inspect" \in KeyPCs /\ "inspect" \in RefPCs
      /\ "miss" \in ThreadPCs /\ "miss" \notin ConPCs /\ "miss" \notin LockPCs
      /\ "miss" \notin NewPCs /\ "miss" \in KeyPCs /\ "miss" \notin RefPCs
  BY Zenon DEF ThreadPCs, ConPCs, RefPCs, LockPCs, NewPCs, KeyPCs
<1>2. /\ conn_db = db0 /\ w_cd = db0 /\ t_con[t] \in Conns
      /\ t_con[t] \notin pool /\ c_forw[t_con[t]] \in Keys
      /\ c_back[t_con[t]] \in Keys /\ t_cd[t] = db0
  BY UsesConn, <1>1 DEF npf_conn_lookup, TypeOK
<1>3. CASE match /\ "ACTIVE" \in c_flags[t_con[t]] /\ "EXPIRE" \notin c_flags[t_con[t]]
  <2>1. /\ pc[t] = "check"
        /\ "ACTIVE" \in c_flags[t_con[t]]
        /\ pc' = [pc EXCEPT ![t] = "inspect"]
        /\ UNCHANGED <<c_refcnt, t_con, dbVars, lockVars, c_flags, keyVars, c_lock,
                       pool, ebrVars, t_key, t_cd, t_ncon, workerVars>>
    BY <1>2, <1>3, ZenonT(30) DEF npf_conn_lookup
  <2>2. SingleDB' /\ PoolInv' /\ GcInv'
    BY <2>1 DEF TypeOK, SingleDB, Listed, PoolInv, GcInv
  <2>3. TypeOK'
    BY <1>1, <1>2, <2>1, Zenon DEF TypeOK, Flags, WorkerPCs
  <2>4. ControlInv' /\ LockInv' /\ ListInv' /\ FlagInv'
    BY <1>1, <1>2, <2>1
       DEF TypeOK, ControlInv, LockInv, ListInv, FlagInv, Listed
  <2>5. KeyInv' /\ LinkInv' /\ GraceInv' /\ EmbryonicIsPrivate'
    BY <1>2, <2>1
       DEF TypeOK, KeyInv, LinkInv, GraceInv, EmbryonicIsPrivate, HolderAt,
           ForwLinked, BackLinked
  <2> QED
    BY <2>2, <2>3, <2>4, <2>5, SMTT(30)
<1>4. CASE ~(match /\ "ACTIVE" \in c_flags[t_con[t]] /\ "EXPIRE" \notin c_flags[t_con[t]])
  <2>1. /\ pc[t] = "check"
        /\ c_refcnt' = [c_refcnt EXCEPT ![t_con[t]] = @ - 1]
        /\ t_con' = [t_con EXCEPT ![t] = None]
        /\ pc' = [pc EXCEPT ![t] = "miss"]
        /\ UNCHANGED <<dbVars, lockVars, c_flags, keyVars, c_lock, pool, ebrVars, t_key,
                       t_cd, t_ncon, workerVars>>
    BY <1>2, <1>4, Zenon DEF npf_conn_lookup
  <2>2. SingleDB' /\ GcInv'
    BY <2>1, Zenon DEF TypeOK, SingleDB, Listed, GcInv
  <2>3. TypeOK'
    BY <1>1, <1>2, <2>1 DEF TypeOK, Flags, WorkerPCs
  <2>4. ControlInv'
    BY <1>1, <1>2, <2>1, Zenon DEF TypeOK, ControlInv
  <2>5. LockInv' /\ ListInv' /\ FlagInv' /\ EmbryonicIsPrivate'
    BY <1>1, <1>2, <2>1
       DEF TypeOK, LockInv, ListInv, FlagInv, EmbryonicIsPrivate, Listed
  <2>6. PoolInv'
    BY <1>2, <2>1, NamesAssumption DEF TypeOK, PoolInv, Listed
  <2>7. KeyInv' /\ LinkInv'
    BY <1>2, <2>1
       DEF TypeOK, KeyInv, LinkInv, HolderAt, ForwLinked, BackLinked
  <2>8. GraceInv'
    BY <1>2, <2>1, Zenon DEF TypeOK, ControlInv, GraceInv
  <2> QED
    BY <2>2, <2>3, <2>4, <2>5, <2>6, <2>7, <2>8
<1> QED
  BY <1>3, <1>4, Zenon

\* npf_conn_inspect: the outcome of npf_state_inspect.
LEMMA Ind_conn_inspect_state ==
  ASSUME IInv, NEW t \in Threads, NEW ok \in BOOLEAN,
         conn_inspect_state(t, ok)
  PROVE  Core'
<1>1. /\ "inspect" \in ThreadPCs /\ "inspect" \in ConPCs /\ "inspect" \notin LockPCs
      /\ "inspect" \notin NewPCs /\ "inspect" \in KeyPCs /\ "inspect" \in RefPCs
      /\ "held" \in ThreadPCs /\ "held" \in ConPCs /\ "held" \notin LockPCs
      /\ "held" \notin NewPCs /\ "held" \notin KeyPCs /\ "held" \in RefPCs
      /\ "release" \in ThreadPCs /\ "release" \in ConPCs /\ "release" \notin LockPCs
      /\ "release" \notin NewPCs /\ "release" \notin KeyPCs /\ "release" \in RefPCs
  BY Zenon DEF ThreadPCs, ConPCs, RefPCs, LockPCs, NewPCs, KeyPCs
<1>2. /\ conn_db = db0 /\ w_cd = db0 /\ t_con[t] \in Conns
      /\ t_con[t] \notin pool /\ c_forw[t_con[t]] \in Keys
      /\ c_back[t_con[t]] \in Keys /\ t_cd[t] = db0
  BY UsesConn, <1>1 DEF conn_inspect_state, TypeOK
<1>3. SingleDB' /\ PoolInv' /\ GcInv'
  BY DEF conn_inspect_state, TypeOK, SingleDB, Listed, PoolInv, GcInv
<1>4. TypeOK'
  BY <1>1, <1>2 DEF conn_inspect_state, TypeOK, Flags, WorkerPCs
<1>5. ControlInv'
  BY <1>1, <1>2 DEF conn_inspect_state, TypeOK, ControlInv
<1>6. LockInv' /\ ListInv' /\ FlagInv' /\ EmbryonicIsPrivate'
  BY <1>1, <1>2
     DEF conn_inspect_state, TypeOK, LockInv, ListInv, FlagInv,
         EmbryonicIsPrivate, Listed
<1>7. KeyInv' /\ LinkInv' /\ GraceInv'
  BY <1>2
     DEF conn_inspect_state, TypeOK, KeyInv, LinkInv, GraceInv, HolderAt,
         ForwLinked, BackLinked
<1> QED
  BY <1>3, <1>4, <1>5, <1>6, <1>7

\* A packet that ends without a connection.
LEMMA Ind_packet_untracked ==
  ASSUME IInv, NEW t \in Threads, packet_untracked(t)
  PROVE  Core'
<1>1. /\ "start" \in ThreadPCs /\ "start" \notin ConPCs /\ "start" \notin LockPCs
      /\ "start" \notin NewPCs /\ "start" \notin KeyPCs /\ "start" \notin RefPCs
      /\ "miss" \in ThreadPCs /\ "miss" \notin ConPCs /\ "miss" \notin LockPCs
      /\ "miss" \notin NewPCs /\ "miss" \in KeyPCs /\ "miss" \notin RefPCs
  BY Zenon DEF ThreadPCs, ConPCs, RefPCs, LockPCs, NewPCs, KeyPCs
<1>2. conn_db = db0 /\ w_cd = db0
  BY DEF SingleDB
<1>3. SingleDB' /\ PoolInv' /\ GcInv'
  BY DEF packet_untracked, TypeOK, SingleDB, Listed, PoolInv, GcInv
<1>4. TypeOK'
  BY <1>1, <1>2, Zenon DEF packet_untracked, TypeOK, Flags, WorkerPCs
<1>5. ControlInv'
  BY <1>1, <1>2, Zenon DEF packet_untracked, TypeOK, ControlInv
<1>6. LockInv' /\ ListInv' /\ FlagInv' /\ EmbryonicIsPrivate'
  BY <1>1, <1>2
     DEF packet_untracked, TypeOK, LockInv, ListInv, FlagInv,
         EmbryonicIsPrivate, Listed
<1>7. KeyInv' /\ LinkInv' /\ GraceInv'
  BY <1>2
     DEF packet_untracked, TypeOK, KeyInv, LinkInv, GraceInv, HolderAt,
         ForwLinked, BackLinked
<1> QED
  BY <1>3, <1>4, <1>5, <1>6, <1>7
====
