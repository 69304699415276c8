--------------------------- MODULE NpfConnUseProofs ---------------------------
(***************************************************************************)
(* Core of NpfConnInv is preserved by the steps with which a packet thread *)
(* establishes and translates a connection: one lemma per action, laid out *)
(* as in NpfConnStepProofs.                                                *)
(***************************************************************************)
EXTENDS NpfConnStepProofs

USE DEF IInv, Core, Goto, EbrExit, Vacant, LoadDB, SetRemoved, Unreferenced,
        NatRefused, npf_conn_init, npf_conn_check, npf_conndb_insert,
        npf_conndb_remove, npf_conndb_update, npf_config_sync, dbVars,
        lockVars, keyVars, connVars, ebrVars, threadVars, workerVars

-----------------------------------------------------------------------------
(* A packet thread translates a connection.                                *)

\* npf_conn_setnat: refused, or the "backwards" entry removed under c_lock.
LEMMA Ind_npf_conn_setnat ==
  ASSUME IInv, NEW t \in Threads, NEW k \in NatKeys, npf_conn_setnat(t, k)
  PROVE  Core'
<1>1. /\ "held" \in ThreadPCs /\ "held" \in ConPCs /\ "held" \notin LockPCs
      /\ "held" \notin NewPCs /\ "held" \notin KeyPCs /\ "held" \in RefPCs
      /\ "error" \in ThreadPCs /\ "error" \in ConPCs /\ "error" \notin LockPCs
      /\ "error" \notin NewPCs /\ "error" \notin KeyPCs /\ "error" \in RefPCs
      /\ "nat_insert" \in ThreadPCs /\ "nat_insert" \in ConPCs /\ "nat_insert" \in LockPCs
      /\ "nat_insert" \notin NewPCs /\ "nat_insert" \notin KeyPCs /\ "nat_insert" \in RefPCs
  BY Zenon DEF ThreadPCs, ConPCs, RefPCs, LockPCs, NewPCs, KeyPCs
<1>2. /\ conn_db = db0 /\ w_cd = db0 /\ t_con[t] \in Conns
      /\ t_con[t] \notin pool /\ c_forw[t_con[t]] \in Keys
      /\ c_back[t_con[t]] \in Keys /\ t_cd[t] = db0
  BY UsesConn, <1>1 DEF npf_conn_setnat, TypeOK
<1>3. CASE "EXPIRE" \in c_flags[t_con[t]] \/ c_nat[t_con[t]]
  <2>1. /\ pc[t] = "held"
        /\ c_lock[t_con[t]] = None
        /\ pc' = [pc EXCEPT ![t] = "error"]
        /\ UNCHANGED <<c_lock, t_cd, cd_map, c_back>>
        /\ UNCHANGED <<conn_db, conn_tracking, cd_new, cd_list, cd_gclist, lockVars,
                       c_flags, c_refcnt, c_forw, c_nat, pool, ebrVars, t_key,
                       t_con, t_ncon, workerVars>>
    BY <1>2, <1>3, Zenon DEF npf_conn_setnat
  <2>2. SingleDB' /\ PoolInv' /\ GcInv'
    BY <2>1 DEF TypeOK, SingleDB, Listed, PoolInv, GcInv
  <2>3. TypeOK'
    BY <1>1, <1>2, <2>1, Zenon DEF TypeOK, Flags, WorkerPCs
  <2>4. ControlInv' /\ LockInv' /\ ListInv' /\ FlagInv'
    BY <1>1, <1>2, <2>1
       DEF TypeOK, ControlInv, LockInv, ListInv, FlagInv, Listed
  <2>5. KeyInv' /\ LinkInv' /\ GraceInv'
    BY <1>2, <2>1
       DEF TypeOK, KeyInv, LinkInv, GraceInv, HolderAt, ForwLinked, BackLinked
  <2>6. EmbryonicIsPrivate'
    BY <1>1, <1>2, <2>1 DEF TypeOK, EmbryonicIsPrivate
  <2> QED
    BY <2>2, <2>3, <2>4, <2>5, <2>6
<1>4. CASE ~("EXPIRE" \in c_flags[t_con[t]] \/ c_nat[t_con[t]])
  <2>1. /\ pc[t] = "held"
        /\ c_lock[t_con[t]] = None
        /\ "EXPIRE" \notin c_flags[t_con[t]]
        /\ c_lock' = [c_lock EXCEPT ![t_con[t]] = t]
        /\ t_cd' = [t_cd EXCEPT ![t] = db0]
        /\ cd_map' = [cd_map EXCEPT ![<<db0, c_back[t_con[t]]>>] = None]
        /\ c_back' = [c_back EXCEPT ![t_con[t]] = k]
        /\ pc' = [pc EXCEPT ![t] = "nat_insert"]
        /\ UNCHANGED <<conn_db, conn_tracking, cd_new, cd_list, cd_gclist, lockVars,
                       c_flags, c_refcnt, c_forw, c_nat, pool, ebrVars, t_key,
                       t_con, t_ncon, workerVars>>
    BY <1>2, <1>4, Zenon DEF npf_conn_setnat
  <2>2. GcInv'
    BY <2>1, Zenon DEF TypeOK, GcInv
  <2>3. TypeOK'
    BY <1>1, <1>2, <2>1, KeysAssumption DEF TypeOK, Flags, WorkerPCs
  <2>4. SingleDB' /\ FlagInv' /\ GraceInv'
    BY <1>2, <2>1 DEF TypeOK, SingleDB, FlagInv, GraceInv, Listed
  <2>5. ControlInv' /\ EmbryonicIsPrivate'
    BY <1>1, <1>2, <2>1 DEF TypeOK, ControlInv, EmbryonicIsPrivate
  <2>6. LockInv'
    BY <1>1, <1>2, <2>1, NamesAssumption DEF TypeOK, LockInv
  <2>7. PoolInv'
    BY <1>2, <2>1, NamesAssumption DEF TypeOK, PoolInv, Listed
  <2>8. ListInv'
    BY <1>1, <1>2, <2>1, NamesAssumption DEF TypeOK, ListInv, Listed
  <2>9. KeyInv'
    BY <1>2, <2>1, KeysAssumption, Zenon DEF TypeOK, KeyInv, HolderAt
  <2>10. LinkInv'
    BY <1>2, <2>1, NamesAssumption
       DEF TypeOK, LinkInv, LockInv, PoolInv, FlagInv, KeyInv, ForwLinked,
           BackLinked, HolderAt, Listed
  <2> QED
    BY <2>2, <2>3, <2>4, <2>5, <2>6, <2>7, <2>8, <2>9, <2>10
<1> QED
  BY <1>3, <1>4, Zenon

\* npf_conn_setnat: the translated key inserted, or the connection unlinked.
LEMMA Ind_setnat_insert ==
  ASSUME IInv, NEW t \in Threads, NEW ok \in BOOLEAN, setnat_insert(t, ok)
  PROVE  Core'
<1>1. /\ "nat_insert" \in ThreadPCs /\ "nat_insert" \in ConPCs /\ "nat_insert" \in LockPCs
      /\ "nat_insert" \notin NewPCs /\ "nat_insert" \notin KeyPCs /\ "nat_insert" \in RefPCs
      /\ "release" \in ThreadPCs /\ "release" \in ConPCs /\ "release" \notin LockPCs
      /\ "release" \notin NewPCs /\ "release" \notin KeyPCs /\ "release" \in RefPCs
      /\ "error" \in ThreadPCs /\ "error" \in ConPCs /\ "error" \notin LockPCs
      /\ "error" \notin NewPCs /\ "error" \notin KeyPCs /\ "error" \in RefPCs
  BY Zenon DEF ThreadPCs, ConPCs, RefPCs, LockPCs, NewPCs, KeyPCs
<1>2. /\ conn_db = db0 /\ w_cd = db0 /\ t_con[t] \in Conns
      /\ t_con[t] \notin pool /\ c_forw[t_con[t]] \in Keys
      /\ c_back[t_con[t]] \in Keys /\ t_cd[t] = db0
  BY UsesConn, <1>1 DEF setnat_insert, TypeOK
<1>3. CASE Vacant(db0, c_back[t_con[t]])
  <2>1. /\ pc[t] = "nat_insert"
        /\ c_lock' = [c_lock EXCEPT ![t_con[t]] = None]
        /\ cd_map[<<db0, c_back[t_con[t]]>>] = None
        /\ cd_map' = [cd_map EXCEPT ![<<db0, c_back[t_con[t]]>>] = t_con[t]]
        /\ c_nat' = [c_nat EXCEPT ![t_con[t]] = TRUE]
        /\ pc' = [pc EXCEPT ![t] = IF ok THEN "release" ELSE "error"]
        /\ UNCHANGED <<c_flags, conn_db, conn_tracking, cd_new, cd_list, cd_gclist,
                       lockVars, c_refcnt, c_forw, c_back, pool, ebrVars,
                       t_key, t_cd, t_con, t_ncon, workerVars>>
    BY <1>2, <1>3, Zenon DEF setnat_insert
  <2>2. GcInv'
    BY <2>1 DEF TypeOK, GcInv
  <2>3. TypeOK'
    BY <1>1, <1>2, <2>1, Zenon DEF TypeOK, Flags, WorkerPCs
  <2>4. SingleDB' /\ PoolInv'
    BY <1>2, <2>1 DEF TypeOK, SingleDB, PoolInv, Listed
  <2>5. ControlInv' /\ FlagInv' /\ GraceInv' /\ EmbryonicIsPrivate'
    <3>1. ControlInv'
      BY <1>1, <1>2, <2>1, Zenon DEF TypeOK, ControlInv
    <3>2. FlagInv'
      BY <1>1, <1>2, <2>1, Zenon DEF TypeOK, FlagInv
    <3>3. GraceInv'
      BY <1>1, <1>2, <2>1, Zenon DEF TypeOK, GraceInv
    <3>4. EmbryonicIsPrivate'
      BY <1>1, <1>2, <2>1 DEF TypeOK, EmbryonicIsPrivate
    <3> QED
      BY <3>1, <3>2, <3>3, <3>4
  <2>6. LockInv'
    BY <1>1, <1>2, <2>1, NamesAssumption DEF TypeOK, LockInv
  <2>7. ListInv'
    BY <1>1, <1>2, <2>1 DEF TypeOK, ListInv, LockInv, Listed
  <2>8. KeyInv'
    BY <1>2, <2>1, NamesAssumption
       DEF TypeOK, KeyInv, LockInv, PoolInv, LinkInv, FlagInv, HolderAt,
           Listed, ForwLinked, BackLinked
  <2>9. LinkInv'
    BY <1>1, <1>2, <2>1, NamesAssumption
       DEF TypeOK, LinkInv, LockInv, PoolInv, FlagInv, KeyInv, ForwLinked,
           BackLinked, HolderAt, Listed
  <2> QED
    BY <2>2, <2>3, <2>4, <2>5, <2>6, <2>7, <2>8, <2>9, SMTT(30)
<1>4. CASE ~Vacant(db0, c_back[t_con[t]])
  <2>1. /\ pc[t] = "nat_insert"
        /\ c_lock' = [c_lock EXCEPT ![t_con[t]] = None]
        /\ cd_map' = [cd_map EXCEPT ![<<db0, c_forw[t_con[t]]>>] = None]
        /\ c_flags' = [c_flags EXCEPT ![t_con[t]] = @ \cup {"REMOVED", "EXPIRE"}]
        /\ pc' = [pc EXCEPT ![t] = "error"]
        /\ UNCHANGED <<c_nat, conn_db, conn_tracking, cd_new, cd_list, cd_gclist,
                       lockVars, c_refcnt, c_forw, c_back, pool, ebrVars,
                       t_key, t_cd, t_con, t_ncon, workerVars>>
    BY <1>2, <1>4, Zenon DEF setnat_insert
  <2>2. TypeOK'
    BY <1>1, <1>2, <2>1 DEF TypeOK, Flags, WorkerPCs
  <2>3. SingleDB' /\ GraceInv'
    BY <1>2, <2>1 DEF TypeOK, SingleDB, GraceInv, Listed
  <2>4. ControlInv' /\ GcInv' /\ EmbryonicIsPrivate'
    BY <1>1, <1>2, <2>1 DEF TypeOK, ControlInv, GcInv, EmbryonicIsPrivate
  <2>5. LockInv'
    BY <1>1, <1>2, <2>1, NamesAssumption DEF TypeOK, LockInv
  <2>6. PoolInv'
    BY <1>2, <2>1, NamesAssumption DEF TypeOK, PoolInv, Listed
  <2>7. ListInv'
    BY <1>1, <1>2, <2>1 DEF TypeOK, ListInv, LockInv, Listed
  <2>8. FlagInv'
    BY <1>1, <1>2, <2>1, NamesAssumption DEF TypeOK, FlagInv, LockInv
  <2>9. KeyInv'
    BY <1>2, <2>1
       DEF TypeOK, KeyInv, LockInv, PoolInv, LinkInv, FlagInv, HolderAt,
           Listed, ForwLinked, BackLinked
  <2>10. LinkInv'
    BY <1>1, <1>2, <2>1, NamesAssumption
       DEF TypeOK, LinkInv, LockInv, PoolInv, FlagInv, KeyInv, ForwLinked,
           BackLinked, HolderAt, Listed
  <2> QED
    BY <2>2, <2>3, <2>4, <2>5, <2>6, <2>7, <2>8, <2>9, <2>10, SMTT(30)
<1> QED
  BY <1>3, <1>4, Zenon

-----------------------------------------------------------------------------
(* A packet thread establishes a connection.                               *)

\* npf_conn_establish: the new connection was in the pool, referred to by
\* nothing, and is locked by its creator.
LEMMA Ind_npf_conn_establish ==
  ASSUME IInv, NEW t \in Threads, NEW c \in Conns, NEW ncon \in BOOLEAN,
         npf_conn_establish(t, c, ncon)
  PROVE  Core'
<1>1. /\ "miss" \in ThreadPCs /\ "miss" \notin ConPCs /\ "miss" \notin LockPCs
      /\ "miss" \notin NewPCs /\ "miss" \in KeyPCs /\ "miss" \notin RefPCs
      /\ "insert_forw" \in ThreadPCs /\ "insert_forw" \in ConPCs /\ "insert_forw" \in LockPCs
      /\ "insert_forw" \in NewPCs /\ "insert_forw" \in KeyPCs /\ "insert_forw" \in RefPCs
  BY Zenon DEF ThreadPCs, ConPCs, RefPCs, LockPCs, NewPCs, KeyPCs
<1>2. conn_db = db0 /\ w_cd = db0 /\ t_key[t] \in PktKeys
  BY <1>1 DEF npf_conn_establish, TypeOK, SingleDB, ControlInv
<1>3. TypeOK'
  BY <1>1, <1>2, KeysAssumption
     DEF npf_conn_establish, TypeOK, Flags, WorkerPCs
<1>4. SingleDB' /\ PoolInv'
  BY <1>2 DEF npf_conn_establish, TypeOK, SingleDB, PoolInv, Listed
<1>5. ControlInv'
  BY <1>1, <1>2, NamesAssumption DEF npf_conn_establish, TypeOK, ControlInv
<1>6. LockInv'
  BY <1>1, <1>2, NamesAssumption
     DEF npf_conn_establish, TypeOK, ControlInv, LockInv, PoolInv, Listed
<1>7. ListInv'
  BY <1>1, <1>2 DEF npf_conn_establish, TypeOK, ListInv, PoolInv, Listed
<1>8. FlagInv'
  BY <1>2 DEF npf_conn_establish, TypeOK, FlagInv, LockInv, PoolInv, Listed
<1>9. KeyInv'
  BY <1>2, KeysAssumption DEF npf_conn_establish, TypeOK, KeyInv, HolderAt
<1>10. LinkInv'
  BY <1>2, NamesAssumption
     DEF npf_conn_establish, TypeOK, LinkInv, LockInv, PoolInv, ForwLinked,
         BackLinked, HolderAt, Listed
<1>11. GcInv'
  BY <1>2 DEF npf_conn_establish, TypeOK, GcInv, PoolInv, Listed
<1>12. GraceInv'
  BY <1>2
     DEF npf_conn_establish, TypeOK, ControlInv, GraceInv, GcInv, PoolInv,
         Listed
<1>13. EmbryonicIsPrivate'
  BY <1>2 DEF npf_conn_establish, TypeOK, EmbryonicIsPrivate, PoolInv, Listed
<1> QED
  BY <1>3, <1>4, <1>5, <1>6, <1>7, <1>8, <1>9, <1>10, <1>11, <1>12, <1>13

\* npf_conn_establish: the "forwards" entry, or a duplicate.
LEMMA Ind_establish_insert_forw ==
  ASSUME IInv, NEW t \in Threads, establish_insert_forw(t)
  PROVE  Core'
<1>1. /\ "insert_forw" \in ThreadPCs /\ "insert_forw" \in ConPCs /\ "insert_forw" \in LockPCs
      /\ "insert_forw" \in NewPCs /\ "insert_forw" \in KeyPCs /\ "insert_forw" \in RefPCs
      /\ "insert_back" \in ThreadPCs /\ "insert_back" \in ConPCs /\ "insert_back" \in LockPCs
      /\ "insert_back" \in NewPCs /\ "insert_back" \in KeyPCs /\ "insert_back" \in RefPCs
      /\ "duplicate" \in ThreadPCs /\ "duplicate" \in ConPCs /\ "duplicate" \in LockPCs
      /\ "duplicate" \in NewPCs /\ "duplicate" \in KeyPCs /\ "duplicate" \in RefPCs
  BY Zenon DEF ThreadPCs, ConPCs, RefPCs, LockPCs, NewPCs, KeyPCs
<1>2. /\ conn_db = db0 /\ w_cd = db0 /\ t_con[t] \in Conns
      /\ t_con[t] \notin pool /\ c_forw[t_con[t]] \in Keys
      /\ c_back[t_con[t]] \in Keys /\ t_cd[t] = db0
  BY UsesConn, <1>1 DEF establish_insert_forw, TypeOK
<1>3. CASE Vacant(db0, c_forw[t_con[t]])
  <2>1. /\ pc[t] = "insert_forw"
        /\ cd_map[<<db0, c_forw[t_con[t]]>>] = None
        /\ cd_map' = [cd_map EXCEPT ![<<db0, c_forw[t_con[t]]>>] = t_con[t]]
        /\ pc' = [pc EXCEPT ![t] = "insert_back"]
        /\ UNCHANGED <<conn_db, conn_tracking, cd_new, cd_list, cd_gclist, lockVars,
                       connVars, ebrVars, t_key, t_cd, t_con, t_ncon,
                       workerVars>>
    BY <1>2, <1>3 DEF establish_insert_forw
  <2>2. GcInv'
    BY <2>1 DEF TypeOK, GcInv
  <2>3. TypeOK'
    BY <1>1, <1>2, <2>1, Zenon DEF TypeOK, Flags, WorkerPCs
  <2>4. SingleDB' /\ PoolInv' /\ KeyInv' /\ GraceInv'
    BY <1>2, <2>1
       DEF TypeOK, SingleDB, PoolInv, KeyInv, GraceInv, Listed, HolderAt
  <2>5. ControlInv' /\ LockInv' /\ ListInv' /\ FlagInv'
    BY <1>1, <1>2, <2>1
       DEF TypeOK, ControlInv, LockInv, ListInv, FlagInv, Listed
  <2>6. LinkInv'
    BY <1>1, <1>2, <2>1, NamesAssumption
       DEF TypeOK, LinkInv, LockInv, PoolInv, FlagInv, KeyInv, ForwLinked,
           BackLinked, HolderAt, Listed
  <2>7. EmbryonicIsPrivate'
    BY <1>1, <1>2, <2>1 DEF TypeOK, EmbryonicIsPrivate
  <2> QED
    BY <2>2, <2>3, <2>4, <2>5, <2>6, <2>7
<1>4. CASE ~Vacant(db0, c_forw[t_con[t]])
  <2>1. /\ pc[t] = "insert_forw"
        /\ pc' = [pc EXCEPT ![t] = "duplicate"]
        /\ UNCHANGED cd_map
        /\ UNCHANGED <<conn_db, conn_tracking, cd_new, cd_list, cd_gclist, lockVars,
                       connVars, ebrVars, t_key, t_cd, t_con, t_ncon,
                       workerVars>>
    BY <1>2, <1>4 DEF establish_insert_forw
  <2>2. SingleDB' /\ PoolInv' /\ GcInv'
    BY <2>1, Zenon DEF TypeOK, SingleDB, Listed, PoolInv, GcInv
  <2>3. TypeOK'
    BY <1>1, <1>2, <2>1, Zenon DEF TypeOK, Flags, WorkerPCs
  <2>4. ControlInv' /\ LockInv' /\ ListInv' /\ FlagInv'
    BY <1>1, <1>2, <2>1
       DEF TypeOK, ControlInv, LockInv, ListInv, FlagInv, Listed
  <2>5. KeyInv' /\ LinkInv' /\ GraceInv'
    BY <1>2, <2>1
       DEF TypeOK, KeyInv, LinkInv, GraceInv, HolderAt, ForwLinked, BackLinked
  <2>6. EmbryonicIsPrivate'
    BY <1>1, <1>2, <2>1 DEF TypeOK, EmbryonicIsPrivate
  <2> QED
    BY <2>2, <2>3, <2>4, <2>5, <2>6
<1> QED
  BY <1>3, <1>4

\* npf_conn_establish: the "backwards" entry, or the "forwards" one taken
\* back.
LEMMA Ind_establish_insert_back ==
  ASSUME IInv, NEW t \in Threads, establish_insert_back(t)
  PROVE  Core'
<1>1. /\ "insert_back" \in ThreadPCs /\ "insert_back" \in ConPCs /\ "insert_back" \in LockPCs
      /\ "insert_back" \in NewPCs /\ "insert_back" \in KeyPCs /\ "insert_back" \in RefPCs
      /\ "enqueue" \in ThreadPCs /\ "enqueue" \in ConPCs /\ "enqueue" \in LockPCs
      /\ "enqueue" \in NewPCs /\ "enqueue" \in KeyPCs /\ "enqueue" \in RefPCs
      /\ "duplicate" \in ThreadPCs /\ "duplicate" \in ConPCs /\ "duplicate" \in LockPCs
      /\ "duplicate" \in NewPCs /\ "duplicate" \in KeyPCs /\ "duplicate" \in RefPCs
  BY Zenon DEF ThreadPCs, ConPCs, RefPCs, LockPCs, NewPCs, KeyPCs
<1>2. /\ conn_db = db0 /\ w_cd = db0 /\ t_con[t] \in Conns
      /\ t_con[t] \notin pool /\ c_forw[t_con[t]] \in Keys
      /\ c_back[t_con[t]] \in Keys /\ t_cd[t] = db0
  BY UsesConn, <1>1 DEF establish_insert_back, TypeOK
<1>3. CASE Vacant(db0, c_back[t_con[t]])
  <2>1. /\ pc[t] = "insert_back"
        /\ cd_map[<<db0, c_back[t_con[t]]>>] = None
        /\ cd_map' = [cd_map EXCEPT ![<<db0, c_back[t_con[t]]>>] = t_con[t]]
        /\ pc' = [pc EXCEPT ![t] = "enqueue"]
        /\ UNCHANGED <<conn_db, conn_tracking, cd_new, cd_list, cd_gclist, lockVars,
                       connVars, ebrVars, t_key, t_cd, t_con, t_ncon,
                       workerVars>>
    BY <1>2, <1>3, Zenon DEF establish_insert_back
  <2>2. GcInv'
    BY <2>1, Zenon DEF TypeOK, GcInv
  <2>3. TypeOK'
    BY <1>1, <1>2, <2>1 DEF TypeOK, Flags, WorkerPCs
  <2>4. SingleDB' /\ PoolInv' /\ KeyInv'
    BY <1>2, <2>1 DEF TypeOK, SingleDB, PoolInv, KeyInv, Listed, HolderAt
  <2>5. ControlInv' /\ LockInv' /\ ListInv' /\ FlagInv'
    BY <1>1, <1>2, <2>1
       DEF TypeOK, ControlInv, LockInv, ListInv, FlagInv, Listed
  <2>6. LinkInv'
    BY <1>1, <1>2, <2>1, NamesAssumption
       DEF TypeOK, LinkInv, LockInv, PoolInv, FlagInv, KeyInv, ForwLinked,
           BackLinked, HolderAt, Listed
  <2>7. GraceInv' /\ EmbryonicIsPrivate'
    BY <1>1, <1>2, <2>1 DEF TypeOK, GraceInv, EmbryonicIsPrivate
  <2> QED
    BY <2>2, <2>3, <2>4, <2>5, <2>6, <2>7
<1>4. CASE ~Vacant(db0, c_back[t_con[t]])
  <2>1. /\ pc[t] = "insert_back"
        /\ cd_map[<<db0, c_back[t_con[t]]>>] # None
        /\ cd_map' = [cd_map EXCEPT ![<<db0, c_forw[t_con[t]]>>] = None]
        /\ pc' = [pc EXCEPT ![t] = "duplicate"]
        /\ UNCHANGED <<conn_db, conn_tracking, cd_new, cd_list, cd_gclist, lockVars,
                       connVars, ebrVars, t_key, t_cd, t_con, t_ncon,
                       workerVars>>
    BY <1>2, <1>4, Zenon DEF establish_insert_back
  <2>2. GcInv'
    BY <2>1, Zenon DEF TypeOK, GcInv
  <2>3. TypeOK'
    BY <1>1, <1>2, <2>1 DEF TypeOK, Flags, WorkerPCs
  <2>4. SingleDB' /\ KeyInv' /\ GraceInv'
    BY <1>2, <2>1 DEF TypeOK, SingleDB, KeyInv, GraceInv, Listed, HolderAt
  <2>5. ControlInv' /\ LockInv' /\ ListInv' /\ FlagInv'
    BY <1>1, <1>2, <2>1
       DEF TypeOK, ControlInv, LockInv, ListInv, FlagInv, Listed
  <2>6. PoolInv'
    BY <1>2, <2>1, NamesAssumption DEF TypeOK, PoolInv, Listed
  <2>7. LinkInv'
    BY <1>1, <1>2, <2>1, NamesAssumption
       DEF TypeOK, LinkInv, LockInv, PoolInv, FlagInv, KeyInv, ForwLinked,
           BackLinked, HolderAt, Listed
  <2>8. EmbryonicIsPrivate'
    BY <1>1, <1>2, <2>1 DEF TypeOK, EmbryonicIsPrivate
  <2> QED
    BY <2>2, <2>3, <2>4, <2>5, <2>6, <2>7, <2>8
<1> QED
  BY <1>3, <1>4

\* npf_conn_establish: a duplicate is flagged, its reference dropped.
LEMMA Ind_establish_duplicate ==
  ASSUME IInv, NEW t \in Threads, establish_duplicate(t)
  PROVE  Core'
<1>1. /\ "duplicate" \in ThreadPCs /\ "duplicate" \in ConPCs /\ "duplicate" \in LockPCs
      /\ "duplicate" \in NewPCs /\ "duplicate" \in KeyPCs /\ "duplicate" \in RefPCs
      /\ "enqueue_dup" \in ThreadPCs /\ "enqueue_dup" \in ConPCs /\ "enqueue_dup" \in LockPCs
      /\ "enqueue_dup" \in NewPCs /\ "enqueue_dup" \in KeyPCs /\ "enqueue_dup" \notin RefPCs
  BY Zenon DEF ThreadPCs, ConPCs, RefPCs, LockPCs, NewPCs, KeyPCs
<1>2. /\ conn_db = db0 /\ w_cd = db0 /\ t_con[t] \in Conns
      /\ t_con[t] \notin pool /\ c_forw[t_con[t]] \in Keys
      /\ c_back[t_con[t]] \in Keys /\ t_cd[t] = db0
  BY UsesConn, <1>1 DEF establish_duplicate, TypeOK
<1>3. SingleDB'
  BY Zenon DEF establish_duplicate, TypeOK, SingleDB, Listed
<1>4. TypeOK'
  BY <1>1, <1>2 DEF establish_duplicate, TypeOK, Flags, WorkerPCs
<1>5. ControlInv' /\ LockInv' /\ ListInv' /\ EmbryonicIsPrivate'
  BY <1>1, <1>2
     DEF establish_duplicate, TypeOK, ControlInv, LockInv, ListInv,
         EmbryonicIsPrivate, Listed
<1>6. PoolInv' /\ KeyInv' /\ GcInv' /\ GraceInv'
  BY <1>2
     DEF establish_duplicate, TypeOK, PoolInv, KeyInv, GcInv, GraceInv,
         Listed, HolderAt
<1>7. FlagInv'
  BY <1>1, <1>2, NamesAssumption
     DEF establish_duplicate, TypeOK, FlagInv, LockInv
<1>8. LinkInv'
  BY <1>1, <1>2, NamesAssumption, SMTT(30), Zenon
     DEF establish_duplicate, TypeOK, LinkInv, LockInv, ForwLinked,
         BackLinked, HolderAt
<1> QED
  BY <1>3, <1>4, <1>5, <1>6, <1>7, <1>8

\* npf_conn_establish: npf_conndb_enqueue and the release of c_lock.
LEMMA Ind_establish_enqueue ==
  ASSUME IInv, NEW t \in Threads, establish_enqueue(t)
  PROVE  Core'
<1>1. /\ "enqueue" \in ThreadPCs /\ "enqueue" \in ConPCs /\ "enqueue" \in LockPCs
      /\ "enqueue" \in NewPCs /\ "enqueue" \in KeyPCs /\ "enqueue" \in RefPCs
      /\ "held" \in ThreadPCs /\ "held" \in ConPCs /\ "held" \notin LockPCs
      /\ "held" \notin NewPCs /\ "held" \notin KeyPCs /\ "held" \in RefPCs
      /\ "start" \in ThreadPCs /\ "start" \notin ConPCs /\ "start" \notin LockPCs
      /\ "start" \notin NewPCs /\ "start" \notin KeyPCs /\ "start" \notin RefPCs
      /\ "miss" \in ThreadPCs /\ "miss" \notin ConPCs /\ "miss" \notin LockPCs
      /\ "miss" \notin NewPCs /\ "miss" \in KeyPCs /\ "miss" \notin RefPCs
      /\ "enqueue_dup" \in ThreadPCs /\ "enqueue_dup" \in ConPCs /\ "enqueue_dup" \in LockPCs
      /\ "enqueue_dup" \in NewPCs /\ "enqueue_dup" \in KeyPCs /\ "enqueue_dup" \notin RefPCs
      /\ NewPCs \subseteq LockPCs
  BY Zenon DEF ThreadPCs, ConPCs, RefPCs, LockPCs, NewPCs, KeyPCs
<1>2. /\ conn_db = db0 /\ w_cd = db0 /\ t_con[t] \in Conns
      /\ t_con[t] \notin pool /\ c_forw[t_con[t]] \in Keys
      /\ c_back[t_con[t]] \in Keys /\ t_cd[t] = db0
  BY UsesConn, <1>1 DEF establish_enqueue, TypeOK
<1>3. CASE pc[t] = "enqueue"
  <2>1. /\ pc[t] = "enqueue"
        /\ cd_new' = [cd_new EXCEPT ![db0] = @ \cup {t_con[t]}]
        /\ c_lock' = [c_lock EXCEPT ![t_con[t]] = None]
        /\ pc' = [pc EXCEPT ![t] = "held"]
        /\ t_key' = [t_key EXCEPT ![t] = None]
        /\ UNCHANGED <<t_con, t_ncon, conn_db, conn_tracking, cd_map, cd_list,
                       cd_gclist, lockVars, c_flags, c_refcnt, keyVars, pool,
                       ebrVars, t_cd, workerVars>>
    BY <1>2, <1>3, Zenon DEF establish_enqueue
  <2>2. GcInv'
    BY <2>1, Zenon DEF TypeOK, GcInv
  <2>3. TypeOK'
    BY <1>1, <1>2, <2>1 DEF TypeOK, Flags, WorkerPCs
  <2>4. SingleDB' /\ PoolInv' /\ GraceInv'
    BY <1>2, <2>1 DEF TypeOK, SingleDB, PoolInv, GraceInv, Listed
  <2>5. ControlInv'
    BY <1>1, <1>2, <2>1, Zenon DEF TypeOK, ControlInv
  <2>6. LockInv'
    BY <1>1, <1>2, <2>1, NamesAssumption DEF TypeOK, LockInv
  <2>7. ListInv'
    BY <1>1, <1>2, <2>1 DEF TypeOK, LockInv, PoolInv, ListInv, Listed
  <2>8. FlagInv' /\ EmbryonicIsPrivate'
    BY <1>1, <1>2, <2>1 DEF TypeOK, FlagInv, EmbryonicIsPrivate
  <2>9. KeyInv'
    BY <1>1, <1>2, <2>1 DEF TypeOK, KeyInv, LockInv, HolderAt
  <2>10. LinkInv'
    BY <1>1, <1>2, <2>1
       DEF TypeOK, LinkInv, LockInv, PoolInv, FlagInv, KeyInv, ForwLinked,
           BackLinked, HolderAt, Listed
  <2> QED
    BY <2>2, <2>3, <2>4, <2>5, <2>6, <2>7, <2>8, <2>9, <2>10
<1>4. CASE pc[t] = "enqueue_dup"
  <2>1. /\ pc[t] = "enqueue_dup"
        /\ cd_new' = [cd_new EXCEPT ![db0] = @ \cup {t_con[t]}]
        /\ c_lock' = [c_lock EXCEPT ![t_con[t]] = None]
        /\ pc' = [pc EXCEPT ![t] = IF t_ncon[t] THEN "start" ELSE "miss"]
        /\ t_key' = [t_key EXCEPT ![t] = IF t_ncon[t] THEN None ELSE @]
        /\ t_con' = [t_con EXCEPT ![t] = None]
        /\ t_ncon' = [t_ncon EXCEPT ![t] = FALSE]
        /\ UNCHANGED <<conn_db, conn_tracking, cd_map, cd_list, cd_gclist, lockVars,
                       c_flags, c_refcnt, keyVars, pool, ebrVars, t_cd,
                       workerVars>>
    BY <1>2, <1>4, Zenon DEF establish_enqueue
  <2>2. GcInv'
    BY <2>1, Zenon DEF TypeOK, GcInv
  <2>3. TypeOK'
    BY <1>1, <1>2, <2>1 DEF TypeOK, Flags, WorkerPCs
  <2>4. SingleDB'
    BY <1>2, <2>1, Zenon DEF TypeOK, SingleDB, Listed
  <2>5. ControlInv'
    <3>1. /\ t_con'[t] = None /\ (t_ncon[t] => pc'[t] = "start")
          /\ ~t_ncon[t] => (pc'[t] = "miss" /\ t_key'[t] = t_key[t])
          /\ \A x \in Threads : x # t => pc'[x] = pc[x] /\ t_con'[x] = t_con[x] /\ t_key'[x] = t_key[x]
          /\ readers' = readers /\ grace' = grace /\ w_pc' = w_pc /\ w_con' = w_con
      BY <2>1, Zenon DEF TypeOK, ebrVars, workerVars
    <3>2. pc'[t] \in {"start", "miss"}
      BY <3>1, Zenon
    <3>3. t \notin readers /\ t_key[t] # None
      BY <1>1, <2>1, Zenon DEF ControlInv
    <3>4. /\ pc'[t] \notin ConPCs /\ pc'[t] \notin {"get", "ref"}
          /\ (pc'[t] \in KeyPCs => t_key'[t] # None)
      <4>1. CASE t_ncon[t]
        BY <4>1, <1>1, <3>1, Zenon
      <4>2. CASE ~t_ncon[t]
        BY <4>2, <1>1, <3>1, <3>3, Zenon
      <4> QED
        BY <4>1, <4>2, Zenon
    <3>5. ASSUME NEW x \in Threads
          PROVE  /\ pc'[x] \in ConPCs <=> t_con'[x] # None
                 /\ pc'[x] \in KeyPCs => t_key'[x] # None
                 /\ x \in readers <=> pc'[x] \in {"get", "ref"}
      <4>1. CASE x = t
        BY <4>1, <3>1, <3>3, <3>4, Zenon
      <4>2. CASE x # t
        BY <4>2, <3>1, Zenon DEF ControlInv
      <4> QED
        BY <4>1, <4>2, Zenon
    <3> QED
      BY <3>1, <3>5, Zenon DEF ControlInv
  <2>6. LockInv'
    BY <1>1, <1>2, <2>1, NamesAssumption DEF TypeOK, LockInv
  <2>7. PoolInv'
    BY <1>2, <2>1, NamesAssumption DEF TypeOK, PoolInv, Listed
  <2>8. ListInv'
    BY <1>1, <1>2, <2>1 DEF TypeOK, LockInv, PoolInv, ListInv, Listed
  <2>9. FlagInv'
    BY <1>1, <1>2, <2>1, Zenon DEF TypeOK, FlagInv
  <2>10. KeyInv'
    BY <1>1, <1>2, <2>1, SMTT(30), Zenon DEF TypeOK, KeyInv, LockInv, HolderAt
  <2>11. LinkInv'
    BY <1>2, <2>1
       DEF TypeOK, LinkInv, LockInv, PoolInv, FlagInv, KeyInv, ForwLinked,
           BackLinked, HolderAt, Listed
  <2>12. GraceInv'
    BY <1>2, <2>1, Zenon DEF TypeOK, ControlInv, GraceInv
  <2>13. EmbryonicIsPrivate'
    BY <1>1, <1>2, <2>1, NamesAssumption DEF TypeOK, EmbryonicIsPrivate
  <2> QED
    BY <2>2, <2>3, <2>4, <2>5, <2>6, <2>7, <2>8, <2>9, <2>10, <2>11, <2>12,
       <2>13
<1> QED
  BY <1>2, <1>3, <1>4, ZenonT(40) DEF establish_enqueue
===============================================================================
