---------------------------- MODULE NpfConnProofs -----------------------------
(***************************************************************************)
(* IInv of NpfConnInv is an invariant of connection tracking, for any      *)
(* number of threads, connections and keys, and what it gives: the         *)
(* invariants of NpfConn.  NpfConnStepProofs and NpfConnUseProofs show,    *)
(* action by action, that Core is preserved; this module begins with the   *)
(* actions that expire and release a connection, and adds the reference    *)
(* counts, and gc_reap, the step that relies on them.                      *)
(***************************************************************************)
EXTENDS NpfConnUseProofs, FiniteSetTheorems

USE DEF IInv, Core, Goto, EbrExit, Vacant, LoadDB, SetRemoved, Unreferenced,
        NatRefused, npf_conn_init, npf_conn_check, npf_conndb_insert,
        npf_conndb_remove, npf_conndb_update, npf_config_sync, dbVars,
        lockVars, keyVars, connVars, ebrVars, threadVars, workerVars

\* Core is a state predicate: a step that changes nothing keeps it.
LEMMA CoreStutter ==
  ASSUME Core, UNCHANGED vars
  PROVE  Core'
<1> USE DEF vars
<1>1. TypeOK' /\ SingleDB' /\ ControlInv'
  BY Zenon DEF TypeOK, SingleDB, Listed, ControlInv
<1>2. LockInv' /\ PoolInv'
  BY DEF LockInv, PoolInv, Listed
<1>3. ListInv' /\ FlagInv'
  BY DEF ListInv, Listed, FlagInv
<1>4. KeyInv' /\ LinkInv'
  BY DEF KeyInv, LinkInv, ForwLinked, BackLinked, HolderAt
<1>5. GcInv' /\ GraceInv' /\ EmbryonicIsPrivate'
  BY DEF GcInv, GraceInv, EmbryonicIsPrivate
<1> QED
  BY <1>1, <1>2, <1>3, <1>4, <1>5, Zenon

-----------------------------------------------------------------------------
(* A packet thread expires and releases a connection.                      *)

\* npf_do_nat: the NAT entry could not be created.
LEMMA Ind_do_nat_failed ==
  ASSUME IInv, NEW t \in Threads, do_nat_failed(t)
  PROVE  Core'
<1>1. /\ "held" \in ThreadPCs /\ "held" \in ConPCs /\ "held" \notin LockPCs
      /\ "held" \notin NewPCs /\ "held" \notin KeyPCs /\ "held" \in RefPCs
      /\ "error" \in ThreadPCs /\ "error" \in ConPCs /\ "error" \notin LockPCs
      /\ "error" \notin NewPCs /\ "error" \notin KeyPCs /\ "error" \in RefPCs
  BY Zenon DEF ThreadPCs, ConPCs, RefPCs, LockPCs, NewPCs, KeyPCs
<1>2. /\ conn_db = db0 /\ w_cd = db0 /\ t_con[t] \in Conns
      /\ t_con[t] \notin pool /\ c_forw[t_con[t]] \in Keys
      /\ c_back[t_con[t]] \in Keys /\ t_cd[t] = db0
  BY UsesConn, <1>1 DEF do_nat_failed, TypeOK
<1>3. SingleDB' /\ PoolInv' /\ GcInv'
  BY DEF do_nat_failed, TypeOK, SingleDB, Listed, PoolInv, GcInv
<1>4. TypeOK'
  BY <1>1, <1>2 DEF do_nat_failed, TypeOK, Flags, WorkerPCs
<1>5. ControlInv' /\ LockInv' /\ ListInv' /\ FlagInv'
  <2>1. ControlInv'
    BY <1>1, <1>2, Zenon DEF do_nat_failed, TypeOK, ControlInv, Listed
  <2>2. LockInv'
    BY <1>1, <1>2 DEF do_nat_failed, TypeOK, LockInv, Listed
  <2>3. ListInv'
    BY <1>1, <1>2 DEF do_nat_failed, TypeOK, ListInv, Listed
  <2>4. FlagInv'
    BY <1>1, <1>2, Zenon DEF do_nat_failed, TypeOK, FlagInv, Listed
  <2> QED
    BY <2>1, <2>2, <2>3, <2>4
<1>6. KeyInv' /\ LinkInv' /\ GraceInv'
  <2>1. KeyInv'
    BY <1>2, Zenon DEF do_nat_failed, TypeOK, KeyInv, HolderAt, ForwLinked, BackLinked
  <2>2. LinkInv'
    BY <1>2 DEF do_nat_failed, TypeOK, LinkInv, HolderAt, ForwLinked, BackLinked
  <2>3. GraceInv'
    BY <1>2, Zenon DEF do_nat_failed, TypeOK, GraceInv, HolderAt, ForwLinked, BackLinked
  <2> QED
    BY <2>1, <2>2, <2>3
<1>7. EmbryonicIsPrivate'
  BY <1>1, <1>2 DEF do_nat_failed, TypeOK, EmbryonicIsPrivate
<1> QED
  BY <1>3, <1>4, <1>5, <1>6, <1>7

\* npf_conn_expire: sets a flag the invariants read only with REMOVED.
LEMMA Ind_npf_conn_expire ==
  ASSUME IInv, NEW t \in Threads, npf_conn_expire(t)
  PROVE  Core'
<1>1. /\ "error" \in ThreadPCs /\ "error" \in ConPCs /\ "error" \notin LockPCs
      /\ "error" \notin NewPCs /\ "error" \notin KeyPCs /\ "error" \in RefPCs
      /\ "release" \in ThreadPCs /\ "release" \in ConPCs /\ "release" \notin LockPCs
      /\ "release" \notin NewPCs /\ "release" \notin KeyPCs /\ "release" \in RefPCs
  BY Zenon DEF ThreadPCs, ConPCs, RefPCs, LockPCs, NewPCs, KeyPCs
<1>2. /\ conn_db = db0 /\ w_cd = db0 /\ t_con[t] \in Conns
      /\ t_con[t] \notin pool /\ c_forw[t_con[t]] \in Keys
      /\ c_back[t_con[t]] \in Keys /\ t_cd[t] = db0
  BY UsesConn, <1>1 DEF npf_conn_expire, TypeOK
<1>3. SingleDB'
  BY Zenon DEF npf_conn_expire, TypeOK, SingleDB, Listed
<1>4. TypeOK'
  BY <1>1, <1>2 DEF npf_conn_expire, TypeOK, Flags, WorkerPCs
<1>5. ControlInv' /\ LockInv' /\ ListInv' /\ FlagInv'
  <2>1. ControlInv'
    BY <1>1, <1>2, Zenon DEF npf_conn_expire, TypeOK, ControlInv, Listed
  <2>2. LockInv'
    BY <1>1, <1>2 DEF npf_conn_expire, TypeOK, LockInv, Listed
  <2>3. ListInv'
    BY <1>1, <1>2 DEF npf_conn_expire, TypeOK, ListInv, Listed
  <2>4. FlagInv'
    BY <1>1, <1>2 DEF npf_conn_expire, TypeOK, FlagInv, Listed
  <2> QED
    BY <2>1, <2>2, <2>3, <2>4
<1>6. PoolInv' /\ KeyInv' /\ LinkInv' /\ GcInv'
  <2>1. PoolInv'
    BY <1>2, Zenon DEF npf_conn_expire, TypeOK, PoolInv, Listed, HolderAt, ForwLinked, BackLinked
  <2>2. KeyInv'
    BY <1>2, Zenon DEF npf_conn_expire, TypeOK, KeyInv, Listed, HolderAt, ForwLinked, BackLinked
  <2>3. LinkInv'
    BY <1>2 DEF npf_conn_expire, TypeOK, LinkInv, Listed, HolderAt, ForwLinked, BackLinked
  <2>4. GcInv'
    BY <1>2, Zenon DEF npf_conn_expire, TypeOK, GcInv, Listed, HolderAt, ForwLinked, BackLinked
  <2> QED
    BY <2>1, <2>2, <2>3, <2>4
<1>7. GraceInv'
  BY <1>2, Zenon DEF npf_conn_expire, TypeOK, GraceInv
<1>8. EmbryonicIsPrivate'
  BY <1>1, <1>2 DEF npf_conn_expire, TypeOK, EmbryonicIsPrivate
<1> QED
  BY <1>3, <1>4, <1>5, <1>6, <1>7, <1>8, Zenon

\* npf_conn_release: the holder of an embryonic connection is the only one
\* that may activate it.
LEMMA Ind_npf_conn_release ==
  ASSUME IInv, NEW t \in Threads, npf_conn_release(t)
  PROVE  Core'
<1>1. /\ "held" \in ThreadPCs /\ "held" \in ConPCs /\ "held" \notin LockPCs
      /\ "held" \notin NewPCs /\ "held" \notin KeyPCs /\ "held" \in RefPCs
      /\ "release" \in ThreadPCs /\ "release" \in ConPCs /\ "release" \notin LockPCs
      /\ "release" \notin NewPCs /\ "release" \notin KeyPCs /\ "release" \in RefPCs
      /\ "drop" \in ThreadPCs /\ "drop" \in ConPCs /\ "drop" \notin LockPCs
      /\ "drop" \notin NewPCs /\ "drop" \notin KeyPCs /\ "drop" \in RefPCs
  BY Zenon DEF ThreadPCs, ConPCs, RefPCs, LockPCs, NewPCs, KeyPCs
<1>2. /\ conn_db = db0 /\ w_cd = db0 /\ t_con[t] \in Conns
      /\ t_con[t] \notin pool /\ c_forw[t_con[t]] \in Keys
      /\ c_back[t_con[t]] \in Keys /\ t_cd[t] = db0
  BY UsesConn, <1>1 DEF npf_conn_release, TypeOK
<1>3. SingleDB'
  BY Zenon DEF npf_conn_release, TypeOK, SingleDB, Listed
<1>4. TypeOK'
  BY <1>1, <1>2 DEF npf_conn_release, TypeOK, Flags, WorkerPCs
<1>5. ControlInv' /\ LockInv' /\ ListInv' /\ FlagInv'
  <2>1. ControlInv'
    BY <1>1, <1>2, Zenon DEF npf_conn_release, TypeOK, ControlInv, Listed
  <2>2. LockInv'
    BY <1>1, <1>2 DEF npf_conn_release, TypeOK, LockInv, Listed
  <2>3. ListInv'
    BY <1>1, <1>2 DEF npf_conn_release, TypeOK, ListInv, Listed
  <2>4. FlagInv'
    BY <1>1, <1>2 DEF npf_conn_release, TypeOK, FlagInv, Listed
  <2> QED
    BY <2>1, <2>2, <2>3, <2>4
<1>6. PoolInv' /\ KeyInv' /\ LinkInv' /\ GcInv'
  <2>1. PoolInv'
    BY <1>2, Zenon DEF npf_conn_release, TypeOK, PoolInv, Listed, HolderAt, ForwLinked, BackLinked
  <2>2. KeyInv'
    BY <1>2, Zenon DEF npf_conn_release, TypeOK, KeyInv, Listed, HolderAt, ForwLinked, BackLinked
  <2>3. LinkInv'
    BY <1>2 DEF npf_conn_release, TypeOK, LinkInv, Listed, HolderAt, ForwLinked, BackLinked
  <2>4. GcInv'
    BY <1>2, Zenon DEF npf_conn_release, TypeOK, GcInv, Listed, HolderAt, ForwLinked, BackLinked
  <2> QED
    BY <2>1, <2>2, <2>3, <2>4
<1>7. GraceInv'
  BY <1>2, Zenon DEF npf_conn_release, TypeOK, GraceInv
<1>8. EmbryonicIsPrivate'
  BY <1>1, <1>2 DEF npf_conn_release, TypeOK, EmbryonicIsPrivate
<1> QED
  BY <1>3, <1>4, <1>5, <1>6, <1>7, <1>8

\* npf_conn_release: the reference goes.
LEMMA Ind_conn_release_ref ==
  ASSUME IInv, NEW t \in Threads, conn_release_ref(t)
  PROVE  Core'
<1>1. /\ "start" \in ThreadPCs /\ "start" \notin ConPCs /\ "start" \notin LockPCs
      /\ "start" \notin NewPCs /\ "start" \notin KeyPCs /\ "start" \notin RefPCs
      /\ "miss" \in ThreadPCs /\ "miss" \notin ConPCs /\ "miss" \notin LockPCs
      /\ "miss" \notin NewPCs /\ "miss" \in KeyPCs /\ "miss" \notin RefPCs
      /\ "drop" \in ThreadPCs /\ "drop" \in ConPCs /\ "drop" \notin LockPCs
      /\ "drop" \notin NewPCs /\ "drop" \notin KeyPCs /\ "drop" \in RefPCs
  BY Zenon DEF ThreadPCs, ConPCs, RefPCs, LockPCs, NewPCs, KeyPCs
<1>2. /\ conn_db = db0 /\ w_cd = db0 /\ t_con[t] \in Conns
      /\ t_con[t] \notin pool /\ c_forw[t_con[t]] \in Keys
      /\ c_back[t_con[t]] \in Keys /\ t_cd[t] = db0
  BY UsesConn, <1>1 DEF conn_release_ref, TypeOK
<1>3. SingleDB' /\ GcInv'
  BY Zenon DEF conn_release_ref, TypeOK, SingleDB, Listed, GcInv
<1>4. TypeOK'
  BY <1>1, <1>2 DEF conn_release_ref, TypeOK, Flags, WorkerPCs
<1>5. ControlInv'
  BY <1>1, <1>2 DEF conn_release_ref, TypeOK, ControlInv
<1>6. LockInv' /\ ListInv' /\ FlagInv'
  <2>1. LockInv'
    BY <1>1, <1>2 DEF conn_release_ref, TypeOK, LockInv, Listed
  <2>2. ListInv'
    BY <1>1, <1>2 DEF conn_release_ref, TypeOK, ListInv, Listed
  <2>3. FlagInv'
    BY <1>1, <1>2, Zenon DEF conn_release_ref, TypeOK, FlagInv, Listed
  <2> QED
    BY <2>1, <2>2, <2>3
<1>7. PoolInv'
  BY <1>2, NamesAssumption DEF conn_release_ref, TypeOK, PoolInv, Listed
<1>8. KeyInv' /\ LinkInv'
  <2>1. KeyInv'
    BY <1>2, Zenon DEF conn_release_ref, TypeOK, KeyInv, HolderAt, ForwLinked, BackLinked
  <2>2. LinkInv'
    BY <1>2 DEF conn_release_ref, TypeOK, LinkInv, HolderAt, ForwLinked, BackLinked
  <2> QED
    BY <2>1, <2>2
<1>9. GraceInv'
  BY <1>2 DEF conn_release_ref, TypeOK, ControlInv, GraceInv
<1>10. EmbryonicIsPrivate'
  BY <1>1, <1>2, NamesAssumption
     DEF conn_release_ref, TypeOK, EmbryonicIsPrivate
<1> QED
  BY <1>3, <1>4, <1>5, <1>6, <1>7, <1>8, <1>9, <1>10

-----------------------------------------------------------------------------
(* RefcntExact: what a step does to c_refcnt matches what it does to the   *)
(* set of threads that hold the connection.                                *)

\* Threads is finite, and so is the set of threads that hold a connection.
LEMMA HoldersFinite ==
  \A c : IsFiniteSet(Holders(c)) /\ Cardinality(Holders(c)) \in Nat
<1>1. \A c : Holders(c) \subseteq Threads
  BY DEF Holders
<1> QED
  BY <1>1, ThreadsAssumption, FS_Subset, FS_CardinalityType

\* A step that counts nothing must leave the holders as they are.
LEMMA RefSame ==
  ASSUME RefcntExact, c_refcnt' = c_refcnt,
         \A u \in Threads :
           \/ pc[u] \notin RefPCs /\ pc'[u] \notin RefPCs
           \/ /\ pc[u] \in RefPCs <=> pc'[u] \in RefPCs
              /\ t_con'[u] = t_con[u]
  PROVE  RefcntExact'
<1>1. \A c : Holders(c)' = Holders(c)
  BY DEF Holders
<1> QED
  BY <1>1 DEF RefcntExact

\* atomic_inc_uint(&con->c_refcnt) goes with a new holder ...
LEMMA RefGain ==
  ASSUME TypeOK, RefcntExact, NEW t \in Threads, NEW c \in Conns,
         pc[t] \notin RefPCs, pc'[t] \in RefPCs, t_con'[t] = c,
         \A u \in Threads \ {t} : pc'[u] = pc[u] /\ t_con'[u] = t_con[u],
         c_refcnt' = [c_refcnt EXCEPT ![c] = @ + 1]
  PROVE  RefcntExact'
<1>1. t \notin Holders(c) /\ Holders(c)' = Holders(c) \cup {t}
  BY DEF Holders
<1>2. Cardinality(Holders(c)') = Cardinality(Holders(c)) + 1
  BY <1>1, HoldersFinite, FS_AddElement, ZenonT(40)
<1>3. \A d \in Conns \ {c} : Holders(d)' = Holders(d)
  BY DEF Holders
<1>4. \A d \in Conns : c_refcnt'[d] = IF d = c THEN c_refcnt[d] + 1 ELSE c_refcnt[d]
  BY DEF TypeOK
<1> QED
  BY <1>2, <1>3, <1>4 DEF RefcntExact

\* ... and atomic_dec_uint(&con->c_refcnt) with one less.
LEMMA RefLoss ==
  ASSUME TypeOK, RefcntExact, NEW t \in Threads, NEW c \in Conns,
         t_con[t] = c, pc[t] \in RefPCs, pc'[t] \notin RefPCs,
         \A u \in Threads \ {t} : pc'[u] = pc[u] /\ t_con'[u] = t_con[u],
         c_refcnt' = [c_refcnt EXCEPT ![c] = @ - 1]
  PROVE  RefcntExact'
<1>1. t \in Holders(c) /\ Holders(c)' = Holders(c) \ {t}
  BY DEF Holders
<1>2. Cardinality(Holders(c)') = Cardinality(Holders(c)) - 1
  BY <1>1, HoldersFinite, FS_RemoveElement, ZenonT(40)
<1>3. \A d \in Conns \ {c} : Holders(d)' = Holders(d)
  BY DEF Holders
<1>4. \A d \in Conns : c_refcnt'[d] = IF d = c THEN c_refcnt[d] - 1 ELSE c_refcnt[d]
  BY DEF TypeOK
<1> QED
  BY <1>2, <1>3, <1>4 DEF RefcntExact

\* Every step of a packet thread keeps the count exact: three take or give a
\* reference back with the thread's pointer, the others leave both alone.
LEMMA RefcntThread ==
  ASSUME IInv, NEW t \in Threads, ThreadNext(t)
  PROVE  RefcntExact'
<1>1. CASE \E k \in PktKeys : npf_conn_inspect(t, k)
  BY <1>1, RefSame DEF npf_conn_inspect, TypeOK, RefPCs
<1>2. CASE npf_config_read_enter(t)
  BY <1>2, RefSame, Zenon DEF npf_config_read_enter, TypeOK, RefPCs
<1>3. CASE npf_conndb_lookup(t)
  BY <1>3, RefSame DEF npf_conndb_lookup, TypeOK, RefPCs
<1>4. CASE \E ok \in BOOLEAN : conn_inspect_state(t, ok)
  BY <1>4, RefSame, Zenon DEF conn_inspect_state, TypeOK, RefPCs
<1>5. CASE packet_untracked(t)
  BY <1>5, RefSame, Zenon DEF packet_untracked, TypeOK, RefPCs
<1>6. CASE establish_insert_forw(t)
  BY <1>6, RefSame, Zenon DEF establish_insert_forw, TypeOK, RefPCs
<1>7. CASE establish_insert_back(t)
  BY <1>7, RefSame, Zenon DEF establish_insert_back, TypeOK, RefPCs
<1>8. CASE establish_enqueue(t)
  BY <1>8, RefSame DEF establish_enqueue, TypeOK, RefPCs
<1>9. CASE \E k \in NatKeys : npf_conn_setnat(t, k)
  BY <1>9, RefSame DEF npf_conn_setnat, TypeOK, RefPCs
<1>10. CASE \E ok \in BOOLEAN : setnat_insert(t, ok)
  BY <1>10, RefSame DEF setnat_insert, TypeOK, RefPCs
<1>11. CASE do_nat_failed(t)
  BY <1>11, RefSame, Zenon DEF do_nat_failed, TypeOK, RefPCs
<1>12. CASE npf_conn_expire(t)
  BY <1>12, RefSame, Zenon DEF npf_conn_expire, TypeOK, RefPCs
<1>13. CASE npf_conn_release(t)
  BY <1>13, RefSame, Zenon DEF npf_conn_release, TypeOK, RefPCs
<1>14. CASE conndb_lookup_ref(t)
  <2>1. pc[t] \in ConPCs /\ pc[t] \notin RefPCs /\ pc'[t] \in RefPCs /\ t_con' = t_con
    BY <1>14 DEF conndb_lookup_ref, TypeOK, ConPCs, RefPCs
  <2>2. \A u \in Threads \ {t} : pc'[u] = pc[u]
    BY <1>14, Zenon DEF conndb_lookup_ref, TypeOK
  <2>3. c_refcnt' = [c_refcnt EXCEPT ![t_con[t]] = @ + 1]
    BY <1>14 DEF conndb_lookup_ref
  <2> QED
    BY <2>1, <2>2, <2>3, UsesConn, RefGain, ZenonT(40)
<1>15. ASSUME NEW c \in Conns, NEW ncon \in BOOLEAN, npf_conn_establish(t, c, ncon)
       PROVE  RefcntExact'
  <2>1. Holders(c) = {}
    BY <1>15 DEF npf_conn_establish, PoolInv, Holders
  <2>2. c_refcnt[c] = 0
    BY <2>1, FS_EmptySet DEF RefcntExact
  <2>3. c_refcnt' = [c_refcnt EXCEPT ![c] = @ + 1]
    BY <1>15, <2>2 DEF npf_conn_establish, TypeOK
  <2>4. pc[t] \notin RefPCs /\ pc'[t] \in RefPCs /\ t_con'[t] = c
    BY <1>15, Zenon DEF npf_conn_establish, TypeOK, RefPCs
  <2>5. \A u \in Threads \ {t} : pc'[u] = pc[u] /\ t_con'[u] = t_con[u]
    BY <1>15, Zenon DEF npf_conn_establish, TypeOK
  <2> QED
    BY <2>3, <2>4, <2>5, RefGain, ZenonT(40)
<1>16. CASE establish_duplicate(t)
  <2>1. pc[t] \in ConPCs /\ pc[t] \in RefPCs /\ pc'[t] \notin RefPCs
    BY <1>16 DEF establish_duplicate, TypeOK, ConPCs, RefPCs
  <2>2. \A u \in Threads \ {t} : pc'[u] = pc[u] /\ t_con'[u] = t_con[u]
    BY <1>16, Zenon DEF establish_duplicate, TypeOK
  <2>3. c_refcnt' = [c_refcnt EXCEPT ![t_con[t]] = @ - 1]
    BY <1>16 DEF establish_duplicate
  <2> QED
    BY <2>1, <2>2, <2>3, UsesConn, RefLoss, ZenonT(40)
<1>17. CASE conn_release_ref(t)
  <2>1. pc[t] \in ConPCs /\ pc[t] \in RefPCs /\ pc'[t] \notin RefPCs
    BY <1>17 DEF conn_release_ref, TypeOK, ConPCs, RefPCs
  <2>2. \A u \in Threads \ {t} : pc'[u] = pc[u] /\ t_con'[u] = t_con[u]
    BY <1>17, Zenon DEF conn_release_ref, TypeOK
  <2>3. c_refcnt' = [c_refcnt EXCEPT ![t_con[t]] = @ - 1]
    BY <1>17, Zenon DEF conn_release_ref
  <2> QED
    BY <2>1, <2>2, <2>3, UsesConn, RefLoss, ZenonT(40)
<1>18. ASSUME NEW match \in BOOLEAN, npf_conn_lookup(t, match)
       PROVE  RefcntExact'
  <2>1. CASE /\ UNCHANGED <<c_refcnt, t_con>>
             /\ pc' = [pc EXCEPT ![t] = "inspect"]
    BY <1>18, <2>1, RefSame, Zenon DEF npf_conn_lookup, TypeOK, RefPCs
  <2>2. CASE /\ c_refcnt' = [c_refcnt EXCEPT ![t_con[t]] = @ - 1]
             /\ t_con' = [t_con EXCEPT ![t] = None]
             /\ pc' = [pc EXCEPT ![t] = "miss"]
    <3>1. pc[t] \in ConPCs /\ pc[t] \in RefPCs /\ pc'[t] \notin RefPCs
      BY <1>18, <2>2 DEF npf_conn_lookup, TypeOK, ConPCs, RefPCs
    <3>2. \A u \in Threads \ {t} : pc'[u] = pc[u] /\ t_con'[u] = t_con[u]
      BY <2>2, Zenon DEF TypeOK
    <3> QED
      BY <2>2, <3>1, <3>2, UsesConn, RefLoss, ZenonT(40)
  <2> QED
    BY <1>18, <2>1, <2>2, Zenon DEF npf_conn_lookup
<1> QED
  BY <1>1, <1>2, <1>3, <1>4, <1>5, <1>6, <1>7, <1>8, <1>9, <1>10, <1>11,
     <1>12, <1>13, <1>14, <1>15, <1>16, <1>17, <1>18
     DEF ThreadNext

\* The worker and the environment touch neither the count nor the holders.
LEMMA RefcntOther ==
  ASSUME IInv, WorkerNext \/ EnvNext
  PROVE  RefcntExact'
<1>1. UNCHANGED <<pc, t_con, c_refcnt>>
  BY Zenon DEF WorkerNext, EnvNext, npf_conn_worker, npf_conndb_gc,
     npf_conndb_gc_incr, npf_conn_remove, conn_remove_back, gc_scan_done,
     gc_sync, gc_sync_done, gc_reap, gc_reap_done, npf_conn_destroy,
     natpolicy_expire, npf_conndb_export
<1> QED
  BY <1>1, RefSame, SMTT(30)

\* npf_conndb_gc: with c_refcnt = 0 after the grace period no thread has the
\* connection, neither counted nor about to count itself.
LEMMA Ind_gc_reap ==
  ASSUME IInv, NEW c \in Conns, gc_reap(c)
  PROVE  Core'
<1>1. conn_db = db0 /\ w_cd = db0
  BY Zenon DEF SingleDB
<1>2. SingleDB' /\ ListInv' /\ EmbryonicIsPrivate'
  BY DEF gc_reap, TypeOK, SingleDB, ListInv, Listed, EmbryonicIsPrivate
<1>3. KeyInv' /\ LinkInv'
  BY DEF gc_reap, TypeOK, KeyInv, LinkInv, ForwLinked, BackLinked, HolderAt
<1>4. TypeOK'
  BY <1>1, Zenon DEF gc_reap, TypeOK, WorkerPCs
<1>5. ControlInv'
  BY <1>1, NamesAssumption DEF gc_reap, TypeOK, ControlInv
<1>6. LockInv' /\ PoolInv' /\ FlagInv' /\ GcInv'
  BY <1>1 DEF gc_reap, TypeOK, LockInv, PoolInv, FlagInv, GcInv, Listed
<1>7. GraceInv'
  <2>1. CASE c_refcnt[c] # 0
    BY <1>1, <2>1, SMTT(30), Zenon DEF gc_reap, TypeOK, GraceInv
  <2>2. CASE c_refcnt[c] = 0
    <3>1. Holders(c) = {}
      BY <2>2, HoldersFinite, FS_EmptySet DEF RefcntExact
    <3>2. c \in cd_gclist[db0] /\ w_pc = "reap" /\ w_con' = c
      BY <1>1, <2>2, Zenon DEF gc_reap
    <3>3. \A t \in Threads : t_con[t] # c
      BY <3>1, <3>2, NamesAssumption
         DEF TypeOK, ThreadPCs, Holders, ControlInv, ConPCs, GraceInv,
             ListInv, Listed, NewPCs, LockPCs
    <3> QED
      BY <3>2, <3>3, ZenonT(40) DEF gc_reap, GraceInv
  <2> QED
    BY <2>1, <2>2
<1> QED
  BY <1>2, <1>3, <1>4, <1>5, <1>6, <1>7
-----------------------------------------------------------------------------
(* The inductive invariant, and what follows from it.                      *)

\* npf_conn_init() establishes the inductive invariant.
LEMMA IInvInit == Init => IInv
<1> SUFFICES ASSUME Init PROVE IInv
  OBVIOUS
<1>1. TypeOK
  BY NamesAssumption DEF Init, TypeOK, ThreadPCs, Flags, WorkerPCs
<1>2. SingleDB /\ ControlInv
  BY NamesAssumption, Zenon
     DEF Init, SingleDB, Listed, ControlInv, ConPCs, RefPCs, KeyPCs, NewPCs, LockPCs
<1>3. LockInv /\ PoolInv /\ ListInv
  BY NamesAssumption, Zenon DEF Init, LockInv, PoolInv, ListInv, Listed, LockPCs, NewPCs
<1>4. FlagInv /\ KeyInv /\ LinkInv /\ GcInv /\ GraceInv
  BY NamesAssumption, Zenon DEF Init, FlagInv, KeyInv, LinkInv, GcInv, GraceInv, LockPCs
<1>5. RefcntExact
  <2>1. \A c \in Conns : Holders(c) = {}
    BY DEF Init, Holders, RefPCs
  <2> QED
    BY <2>1, FS_EmptySet, ZenonT(40) DEF Init, RefcntExact
<1>6. EmbryonicIsPrivate
  BY Zenon DEF Init, EmbryonicIsPrivate, RefPCs, ConPCs
<1> QED
  BY <1>1, <1>2, <1>3, <1>4, <1>5, <1>6

\* Every step of a packet thread, of the worker and of the environment
\* preserves it.
LEMMA IInvStep == IInv /\ [Next]_vars => IInv'
<1> SUFFICES ASSUME IInv, [Next]_vars PROVE IInv'
  OBVIOUS
<1>1. ASSUME NEW t \in Threads, ThreadNext(t) PROVE IInv'
  BY <1>1, RefcntThread, Ind_npf_conn_inspect, Ind_npf_config_read_enter,
     Ind_npf_conndb_lookup, Ind_conndb_lookup_ref, Ind_npf_conn_lookup,
     Ind_conn_inspect_state, Ind_packet_untracked, Ind_npf_conn_establish,
     Ind_establish_insert_forw, Ind_establish_insert_back,
     Ind_establish_duplicate, Ind_establish_enqueue, Ind_npf_conn_setnat,
     Ind_setnat_insert, Ind_do_nat_failed, Ind_npf_conn_expire,
     Ind_npf_conn_release, Ind_conn_release_ref, ZenonT(40)
     DEF ThreadNext
<1>2. CASE WorkerNext
  BY <1>2, RefcntOther, Ind_npf_conn_worker, Ind_npf_conndb_gc, Ind_npf_conndb_gc_incr,
     Ind_npf_conn_remove, Ind_conn_remove_back, Ind_gc_scan_done, Ind_gc_sync,
     Ind_gc_sync_done, Ind_gc_reap, Ind_gc_reap_done, Ind_npf_conn_destroy
     DEF WorkerNext
<1>3. CASE EnvNext
  BY <1>3, RefcntOther, Ind_natpolicy_expire, Ind_npf_conndb_export DEF EnvNext
<1>4. CASE UNCHANGED vars
  <2>1. RefcntExact'
    BY <1>4, RefSame, Zenon DEF vars
  <2> QED
    BY <1>4, <2>1, CoreStutter, Zenon
<1> QED
  BY <1>1, <1>2, <1>3, <1>4, Zenon DEF Next

\* IInv is an invariant of connection tracking.
THEOREM Invariance == Spec => []IInv
<1> QED
  BY IInvInit, IInvStep, PTL DEF Spec

\* Type correctness of the state of npf_conn.c and npf_conndb.c.
THEOREM TypeCorrect == Spec => []TypeOK
<1>1. IInv => TypeOK
  OBVIOUS
<1> QED
  BY <1>1, Invariance, PTL

\* c_refcnt counts the references that exist, through every path of lookup,
\* establish, setnat and release.
THEOREM RefcntIsExact == Spec => []RefcntExact
<1>1. IInv => RefcntExact
  OBVIOUS
<1> QED
  BY <1>1, Invariance, PTL

\* Nothing refers to freed connection memory: no thread, not the worker, no
\* map entry, no list.
THEOREM MemorySafety == Spec => []NoUseAfterFree
<1>1. IInv => NoUseAfterFree
  <2> SUFFICES ASSUME IInv PROVE NoUseAfterFree
    OBVIOUS
  <2>1. \A t \in Threads : pc[t] \in ConPCs => t_con[t] \in Conns \ pool
    BY UsesConn
  <2>2. w_pc \in {"remove_forw", "remove_back", "destroy"} =>
          w_con \in Conns \ pool
    BY UsesWorkerConn, Zenon
  <2>3. \A d \in DBs, k \in Keys : cd_map[<<d, k>>] \notin pool
    <3>1. \A k \in Keys : cd_map[<<db0, k>>] \notin pool
      BY DEF PoolInv
    <3>2. \A d \in DBs \ {db0}, k \in Keys : cd_map[<<d, k>>] = None
      BY Zenon DEF SingleDB
    <3>3. None \notin pool
      BY NamesAssumption DEF TypeOK
    <3> QED
      BY <3>1, <3>2, <3>3, Zenon
  <2>4. \A d \in DBs : Listed(d) \cap pool = {}
    BY Zenon DEF SingleDB, PoolInv
  <2> QED
    BY <2>1, <2>2, <2>3, <2>4 DEF NoUseAfterFree
<1> QED
  BY <1>1, Invariance, PTL

\* Every npf_conndb_remove finds the connection it removes: the
\* KASSERT(ret == con) in npf_conn_establish, npf_conn_setnat and
\* npf_conn_remove hold as long as the database is not replaced.
THEOREM RemoveFinds == Spec => []RemoveFindsConn
<1>1. IInv => RemoveFindsConn
  <2> SUFFICES ASSUME IInv PROVE RemoveFindsConn
    OBVIOUS
  <2>1. ASSUME NEW t \in Threads, pc[t] \in {"insert_back", "nat_insert"}
        PROVE  cd_map[<<t_cd[t], c_forw[t_con[t]]>>] = t_con[t]
    <3>1. pc[t] \in ConPCs /\ pc[t] \in LockPCs
      BY <2>1 DEF ConPCs, LockPCs, RefPCs
    <3>2. c_lock[t_con[t]] = t /\ "REMOVED" \notin c_flags[t_con[t]]
      BY <2>1, <3>1, UsesConn, Zenon DEF LockInv, FlagInv
    <3> QED
      BY <2>1, <3>1, <3>2, UsesConn
         DEF LinkInv, ForwLinked, HolderAt
  <2>2. ASSUME NEW t \in Threads, pc[t] = "held", c_lock[t_con[t]] = None,
               "EXPIRE" \notin c_flags[t_con[t]]
        PROVE  /\ "REMOVED" \notin c_flags[t_con[t]]
               /\ cd_map[<<conn_db, c_back[t_con[t]]>>] = t_con[t]
    <3>1. pc[t] \in ConPCs
      BY <2>2 DEF ConPCs, RefPCs
    <3>2. "REMOVED" \notin c_flags[t_con[t]]
      BY <2>2, <3>1, UsesConn, Zenon DEF FlagInv
    <3> QED
      BY <2>2, <3>1, <3>2, UsesConn DEF LinkInv, BackLinked
  <2>3. ASSUME w_pc = "remove_forw", c_lock[w_con] = None,
               "REMOVED" \notin c_flags[w_con]
        PROVE  cd_map[<<w_cd, c_forw[w_con]>>] = w_con
    BY <2>3, UsesWorkerConn, Zenon DEF LinkInv, ForwLinked
  <2>4. ASSUME w_pc = "remove_back"
        PROVE  cd_map[<<w_cd, c_back[w_con]>>] = w_con
    BY <2>4, UsesWorkerConn DEF LinkInv, BackLinked, LockInv, FlagInv
  <2> QED
    BY <2>1, <2>2, <2>3, <2>4 DEF RemoveFindsConn
<1> QED
  BY <1>1, Invariance, PTL

\* The map and the connections agree: an entry carries a key of the connection
\* it names and a linked connection is reachable under both of its keys.
THEOREM MapAgrees == Spec => []MapMatchesConns
<1>1. IInv => MapMatchesConns
  <2> SUFFICES ASSUME IInv PROVE MapMatchesConns
    OBVIOUS
  <2>1. ASSUME NEW d \in DBs, NEW k \in Keys, NEW c \in Conns,
               cd_map[<<d, k>>] = c
        PROVE  k \in {c_forw[c], c_back[c]} /\ "REMOVED" \notin c_flags[c]
    <3>1. d = db0 /\ c \notin pool
      BY <2>1, NamesAssumption DEF SingleDB, PoolInv
    <3> QED
      BY <2>1, <3>1, Zenon DEF LinkInv, ForwLinked, BackLinked
  <2>2. ASSUME NEW d \in DBs, NEW c \in cd_new[d] \cup cd_list[d],
               c_lock[c] = None, "REMOVED" \notin c_flags[c],
               NEW k \in {c_forw[c], c_back[c]}
        PROVE  cd_map[<<d, k>>] = c
    <3>1. d = db0 /\ c \in Conns \ pool
      BY NamesAssumption, Zenon DEF TypeOK, SingleDB, PoolInv, Listed
    <3>2. k \in Keys
      BY <3>1, Zenon DEF KeyInv
    <3> QED
      BY <2>2, <3>1, <3>2, Zenon DEF LinkInv, ForwLinked, BackLinked
  <2> QED
    BY <2>1, <2>2, Zenon DEF MapMatchesConns
<1> QED
  BY <1>1, Invariance, PTL

\* npf_conndb_enqueue, npf_conndb_update and the G/C keep a connection on
\* exactly one list from its creation to its destruction.
THEOREM ListsAreDisjoint == Spec => []OnOneList
<1>1. IInv => OnOneList
  <2> SUFFICES ASSUME IInv PROVE OnOneList
    OBVIOUS
  <2>1. ASSUME NEW d \in DBs
        PROVE  /\ cd_new[d] \cap cd_list[d] = {}
               /\ cd_new[d] \cap cd_gclist[d] = {}
               /\ cd_list[d] \cap cd_gclist[d] = {}
    BY DEF SingleDB, ListInv, Listed
  <2>2. ASSUME NEW d1 \in DBs, NEW d2 \in DBs, d1 # d2
        PROVE  Listed(d1) \cap Listed(d2) = {}
    BY <2>2 DEF SingleDB
  <2>3. ASSUME NEW c \in Conns
        PROVE  (\A d \in DBs : c \notin Listed(d)) <=>
                 \/ c \in pool
                 \/ \E t \in Threads : t_con[t] = c /\ pc[t] \in NewPCs
    <3>1. (\A d \in DBs : c \notin Listed(d)) <=> c \notin Listed(db0)
      BY NamesAssumption, Zenon DEF SingleDB
    <3>2. c \in pool => c \notin Listed(db0)
      BY Zenon DEF PoolInv
    <3>3. ASSUME NEW t \in Threads, t_con[t] = c, pc[t] \in NewPCs
          PROVE  c \notin Listed(db0)
      BY <3>3, Zenon DEF ListInv
    <3>4. ASSUME c \notin pool, c \notin Listed(db0)
          PROVE  \E t \in Threads : t_con[t] = c /\ pc[t] \in NewPCs
      <4>1. c_lock[c] \in Threads /\ pc[c_lock[c]] \in NewPCs
        BY <3>4, Zenon DEF ListInv
      <4>2. t_con[c_lock[c]] = c
        BY <4>1, Zenon DEF LockInv
      <4> QED
        BY <4>1, <4>2, Zenon
    <3> QED
      BY <3>1, <3>2, <3>3, <3>4, Zenon
  <2> QED
    BY <2>1, <2>2, <2>3 DEF OnOneList
<1> QED
  BY <1>1, Invariance, PTL

\* Until its first release a connection is used by the thread that
\* established it alone.
THEOREM EmbryonicConnIsPrivate == Spec => []EmbryonicIsPrivate
<1>1. IInv => EmbryonicIsPrivate
  OBVIOUS
<1> QED
  BY <1>1, Invariance, PTL

\* npf_conn_destroy, the only step that frees connection memory, finds the
\* connection unused, unlinked and expired.
THEOREM DestroySafe == Spec => DestroyOnlyUnused
<1> DEFINE Safe(c) == /\ Users(c) = {}
                      /\ \A d \in DBs, k \in Keys : cd_map[<<d, k>>] # c
                      /\ {"REMOVED", "EXPIRE"} \subseteq c_flags[c]
<1>1. ASSUME IInv, npf_conn_destroy, NEW c \in pool' \ pool
      PROVE  Safe(c)
  <2>1. c = w_con /\ c \in Conns /\ c \notin pool /\ w_pc = "destroy"
    BY <1>1, UsesWorkerConn, Zenon DEF npf_conn_destroy
  <2>2. "REMOVED" \in c_flags[c] /\ "EXPIRE" \in c_flags[c]
    BY <1>1, <2>1, NamesAssumption, Zenon DEF GcInv, FlagInv
  <2>3. Users(c) = {}
    BY <1>1, <2>1, Zenon DEF GraceInv, Users
  <2>4. \A d \in DBs, k \in Keys : cd_map[<<d, k>>] # c
    <3>1. \A k \in Keys : cd_map[<<db0, k>>] # c
      BY <1>1, <2>1, <2>2 DEF LinkInv, ForwLinked, BackLinked
    <3>2. \A d \in DBs \ {db0}, k \in Keys : cd_map[<<d, k>>] = None
      BY <1>1, ZenonT(40) DEF SingleDB
    <3> QED
      BY <2>1, <3>1, <3>2, NamesAssumption, Zenon
  <2> QED
    BY <2>2, <2>3, <2>4
<1>2. ASSUME NEW t \in Threads, ThreadNext(t) PROVE pool' \subseteq pool
  BY <1>2, ZenonT(40) DEF ThreadNext, npf_conn_inspect, npf_config_read_enter,
     npf_conndb_lookup, conndb_lookup_ref, npf_conn_lookup,
     conn_inspect_state, packet_untracked, npf_conn_establish,
     establish_insert_forw, establish_insert_back, establish_duplicate,
     establish_enqueue, npf_conn_setnat, setnat_insert, do_nat_failed,
     npf_conn_expire, npf_conn_release, conn_release_ref
<1>3. WorkerNext \/ EnvNext => npf_conn_destroy \/ pool' = pool
  BY DEF WorkerNext, EnvNext, npf_conn_worker, npf_conndb_gc,
     npf_conndb_gc_incr, npf_conn_remove, conn_remove_back, gc_scan_done,
     gc_sync, gc_sync_done, gc_reap, gc_reap_done, natpolicy_expire,
     npf_conndb_export
<1>4. IInv /\ [Next]_vars => [\A c \in pool' \ pool : Safe(c)]_vars
  BY <1>1, <1>2, <1>3, Zenon DEF Next
<1> QED
  BY <1>4, Invariance, PTL DEF Spec, DestroyOnlyUnused
====
