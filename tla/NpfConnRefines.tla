---------------------------- MODULE NpfConnRefines ----------------------------
(***************************************************************************)
(* NpfConn implements ConnLifecycle, for any number of threads,            *)
(* connections and keys: the proof of the property that the run of NpfConn *)
(* checks.  The refinement mapping is restated in terms of the flags, the  *)
(* lock and the program counters, which the invariant justifies, and every *)
(* action is one step of the life cycle of every connection, or none.      *)
(***************************************************************************)
EXTENDS NpfConnProofs

USE DEF IInv, Core, Goto, EbrExit, Vacant, LoadDB, SetRemoved, Unreferenced,
        NatRefused, npf_conn_init, npf_conn_check, npf_conndb_insert,
        npf_conndb_remove, npf_conndb_update, npf_config_sync, dbVars,
        lockVars, keyVars, connVars, ebrVars, threadVars, workerVars

\* Where the life of a connection stands: its map entries are being made or
\* taken back only while the thread that establishes it is at one of three
\* places.
Unlinking(c) == HolderAt(c, {"insert_forw", "duplicate", "enqueue_dup"})
Linked(c) == "REMOVED" \notin c_flags[c] /\ ~Unlinking(c)
Phase(c) ==
  IF c \in pool THEN "free"
  ELSE IF Linked(c) THEN "linked"
  ELSE IF HolderAt(c, {"insert_forw"}) THEN "fresh" ELSE "unlinked"
Touching(c) == {t \in Threads : t_con[t] = c}

\* The step of one connection, and what it is when nothing happens to it.
Stays(c) == Phase(c)' = Phase(c) /\ Touching(c)' = Touching(c)
Moves(c) ==
  \/ /\ <<Phase(c), Phase(c)'>> \in {<<"fresh", "linked">>, <<"fresh", "unlinked">>,
                                     <<"linked", "unlinked">>}
     /\ Touching(c)' = Touching(c)
  \/ Phase(c) = "unlinked" /\ Phase(c)' = "free" /\ Touching(c) = {} /\ Touching(c)' = {}
  \/ \E t \in Threads :
       \/ Phase(c) = "free" /\ Phase(c)' = "fresh" /\ Touching(c)' = {t}
       \/ /\ Phase(c) = "linked" /\ Phase(c)' = Phase(c)
          /\ Touching(c)' = Touching(c) \cup {t}
       \/ /\ t \in Touching(c) /\ Phase(c)' = Phase(c)
          /\ Touching(c)' = Touching(c) \ {t}

\* Under the invariant, phase and users are those of the refinement mapping.
PhaseIsLife == \A c \in Conns : lifeBar(c) = Phase(c) /\ Users(c) = Touching(c)

LEMMA IInvPhase == IInv => PhaseIsLife
<1> SUFFICES ASSUME IInv, NEW c \in Conns
             PROVE  lifeBar(c) = Phase(c) /\ Users(c) = Touching(c)
  BY DEF PhaseIsLife
<1>1. Users(c) = Touching(c)
  BY NamesAssumption DEF Users, Touching, ControlInv
<1>2. CASE c \in pool
  BY <1>1, <1>2 DEF lifeBar, Phase
<1>3. CASE c \notin pool
  <2>1. (\E d \in DBs, k \in Keys : cd_map[<<d, k>>] = c)
          <=> (\E k \in Keys : cd_map[<<db0, k>>] = c)
    BY NamesAssumption, Zenon DEF SingleDB
  <2>2. (\E k \in Keys : cd_map[<<db0, k>>] = c) <=> ForwLinked(c) \/ BackLinked(c)
    BY <1>3, Zenon DEF LinkInv, KeyInv
  <2>3. ForwLinked(c) \/ BackLinked(c) <=> Linked(c)
    BY <1>3, NamesAssumption
       DEF ForwLinked, BackLinked, Linked, Unlinking, HolderAt, LockInv, LockPCs
  <2>4. (\E t \in Threads : t_con[t] = c /\ pc[t] = "insert_forw")
          <=> HolderAt(c, {"insert_forw"})
    BY DEF HolderAt, LockInv, LockPCs
  <2> QED
    BY <1>1, <1>3, <2>1, <2>2, <2>3, <2>4, Zenon DEF lifeBar, Phase
<1> QED
  BY <1>2, <1>3

\* A step of the phase is one of the life cycle.
LEMMA MoveIsLifecycle ==
  ASSUME PhaseIsLife, PhaseIsLife', NEW c \in Conns, Stays(c) \/ Moves(c)
  PROVE  UNCHANGED <<lifeBar(c), Users(c)>> \/ Lifecycle(c)!Next
<1>1. lifeBar(c) = Phase(c) /\ Users(c) = Touching(c)
  BY DEF PhaseIsLife
<1>2. lifeBar(c)' = Phase(c)' /\ Users(c)' = Touching(c)'
  BY DEF PhaseIsLife
<1> QED
  BY <1>1, <1>2 DEF Stays, Moves, Lifecycle!Next, Lifecycle!Link, Lifecycle!Unlink,
     Lifecycle!Reclaim, Lifecycle!Create, Lifecycle!Join, Lifecycle!Leave

-----------------------------------------------------------------------------
(* The steps of a packet thread.                                           *)

\* A step of a thread that holds no c_lock before and after it, and leaves
\* pool, c_lock and REMOVED alone, does not change a phase.
LEMMA PhaseKept ==
  ASSUME IInv, NEW t \in Threads, NEW c \in Conns,
         pc[t] \notin LockPCs, pc' = [pc EXCEPT ![t] = pc'[t]],
         pool' = pool, c_lock' = c_lock,
         "REMOVED" \in c_flags'[c] <=> "REMOVED" \in c_flags[c]
  PROVE  Phase(c)' = Phase(c)
<1>1. c_lock[c] # t
  BY DEF LockInv
<1>2. \A u \in Threads : u # t => pc'[u] = pc[u]
  BY Zenon DEF TypeOK
<1> QED
  BY <1>1, <1>2 DEF Phase, Linked, Unlinking, HolderAt

\* The lookup: npf_conndb_lookup is the only way to join a connection.
LEMMA Ref_lookup ==
  ASSUME IInv, NEW t \in Threads, NEW c \in Conns,
         \/ \E k \in PktKeys : npf_conn_inspect(t, k)
         \/ npf_config_read_enter(t)
         \/ npf_conndb_lookup(t)
         \/ conndb_lookup_ref(t)
         \/ \E match \in BOOLEAN : npf_conn_lookup(t, match)
         \/ \E ok \in BOOLEAN : conn_inspect_state(t, ok)
         \/ packet_untracked(t)
  PROVE  Stays(c) \/ Moves(c)
<1>1. Phase(c)' = Phase(c)
  <2>1. pc[t] \notin LockPCs /\ pc' = [pc EXCEPT ![t] = pc'[t]]
    BY Zenon DEF LockPCs, TypeOK, npf_conn_inspect, npf_config_read_enter, npf_conndb_lookup,
       conndb_lookup_ref, npf_conn_lookup, conn_inspect_state, packet_untracked
  <2>2. pool' = pool /\ c_lock' = c_lock /\ c_flags' = c_flags
    BY Zenon DEF npf_conn_inspect, npf_config_read_enter, npf_conndb_lookup,
       conndb_lookup_ref, npf_conn_lookup, conn_inspect_state, packet_untracked
  <2> QED
    BY <2>1, <2>2, PhaseKept
<1>2. CASE t_con' = t_con
  BY <1>1, <1>2 DEF Stays, Touching
<1>3. CASE npf_conndb_lookup(t) /\ t_con' # t_con
  <2>1. /\ cd_map[<<db0, t_key[t]>>] # None /\ t_key[t] \in Keys
        /\ t_con' = [t_con EXCEPT ![t] = cd_map[<<db0, t_key[t]>>]]
        /\ t_con[t] = None
    BY <1>3, KeysAssumption, ZenonT(30)
       DEF npf_conndb_lookup, SingleDB, ControlInv, KeyPCs, ConPCs, RefPCs, TypeOK
  <2>2. CASE cd_map[<<db0, t_key[t]>>] = c
    <3>1. Phase(c) = "linked"
      <4>1. c \notin pool /\ (ForwLinked(c) \/ BackLinked(c))
        BY <2>1, <2>2 DEF PoolInv, LinkInv
      <4> QED
        BY <4>1, NamesAssumption
           DEF Phase, ForwLinked, BackLinked, Linked, Unlinking, HolderAt
    <3>2. Touching(c)' = Touching(c) \cup {t}
      BY <2>1, <2>2, Zenon DEF Touching, TypeOK
    <3> QED
      BY <1>1, <3>1, <3>2 DEF Moves
  <2>3. CASE cd_map[<<db0, t_key[t]>>] # c
    <3>1. Touching(c)' = Touching(c)
      BY <2>1, <2>3, NamesAssumption, Zenon DEF Touching, TypeOK
    <3> QED
      BY <1>1, <3>1 DEF Stays
  <2> QED
    BY <2>2, <2>3, Zenon
<1>4. CASE t_con' # t_con /\ \E match \in BOOLEAN : npf_conn_lookup(t, match)
  <2>1. t_con' = [t_con EXCEPT ![t] = None]
    BY <1>4, Zenon DEF npf_conn_lookup
  <2>2. Touching(c)' = Touching(c) \ {t}
    BY <2>1, NamesAssumption, Zenon DEF Touching, TypeOK
  <2> QED
    BY <1>1, <2>2, Zenon DEF Stays, Moves, Touching
<1> QED
  BY <1>2, <1>3, <1>4, Zenon DEF npf_conn_inspect, npf_config_read_enter,
     conndb_lookup_ref, conn_inspect_state, packet_untracked

\* The thread that holds c_lock of its connection moves that connection only.
LEMMA OthersStay ==
  ASSUME IInv, NEW t \in Threads, NEW c \in Conns, t_con[t] # c,
         pc' = [pc EXCEPT ![t] = pc'[t]], pool' = pool,
         c_lock'[c] = c_lock[c], c_flags'[c] = c_flags[c],
         t_con' = t_con \/ t_con' = [t_con EXCEPT ![t] = None]
  PROVE  Stays(c)
<1>1. c_lock[c] # t
  BY Zenon DEF LockInv
<1>2. \A u \in Threads : u # t => pc'[u] = pc[u]
  BY Zenon DEF TypeOK
<1>3. Phase(c)' = Phase(c)
  BY <1>1, <1>2 DEF Phase, Linked, Unlinking, HolderAt
<1>4. Touching(c)' = Touching(c)
  BY NamesAssumption DEF Touching, TypeOK
<1> QED
  BY <1>3, <1>4 DEF Stays

\* npf_conn_establish: a connection is created by one thread, linked by its
\* forwards entry, and unlinked when a duplicate is hit.
LEMMA Ref_establish ==
  ASSUME IInv, NEW t \in Threads, NEW c \in Conns,
         \/ \E e \in Conns, ncon \in BOOLEAN : npf_conn_establish(t, e, ncon)
         \/ establish_insert_forw(t)
         \/ establish_insert_back(t)
         \/ establish_duplicate(t)
         \/ establish_enqueue(t)
  PROVE  Stays(c) \/ Moves(c)
<1>1. ASSUME NEW e \in Conns, NEW ncon \in BOOLEAN, npf_conn_establish(t, e, ncon)
      PROVE  Stays(c) \/ Moves(c)
  <2>1. t_con[t] = None /\ t_con' = [t_con EXCEPT ![t] = e] /\ e \in pool
        /\ pool' = pool \ {e} /\ c_lock' = [c_lock EXCEPT ![e] = t]
        /\ c_flags' = [c_flags EXCEPT ![e] = {}]
        /\ pc' = [pc EXCEPT ![t] = "insert_forw"] /\ pc[t] = "miss"
    BY <1>1, Zenon DEF npf_conn_establish, ControlInv, ConPCs, RefPCs
  <2>2. CASE c = e
    <3>1. Phase(c) = "free" /\ Touching(c) = {}
      BY <2>1, <2>2, ZenonT(30) DEF Phase, Touching, PoolInv
    <3>2. Phase(c)' = "fresh"
      BY <2>1, <2>2 DEF Phase, Linked, Unlinking, HolderAt, TypeOK
    <3>3. Touching(c)' = {t}
      BY <2>1, <2>2, <3>1, Zenon DEF Touching, TypeOK
    <3> QED
      BY <3>1, <3>2, <3>3 DEF Moves
  <2>3. CASE c # e
    <3>1. c_lock[c] # t
      BY <2>1, ZenonT(30) DEF LockInv, LockPCs
    <3>2. Phase(c)' = Phase(c)
      BY <2>1, <2>3, <3>1 DEF Phase, Linked, Unlinking, HolderAt, TypeOK
    <3>3. Touching(c)' = Touching(c)
      BY <2>1, <2>3, NamesAssumption DEF Touching, TypeOK
    <3> QED
      BY <3>2, <3>3 DEF Stays
  <2> QED
    BY <2>2, <2>3
<1>2. ASSUME \/ establish_insert_forw(t) \/ establish_insert_back(t)
             \/ establish_duplicate(t) \/ establish_enqueue(t)
      PROVE  Stays(c) \/ Moves(c)
  <2>1. /\ pc[t] \in NewPCs /\ pc[t] \in LockPCs /\ pc[t] \in ConPCs
        /\ pc' = [pc EXCEPT ![t] = pc'[t]] /\ pool' = pool
        /\ t_con' = t_con \/ t_con' = [t_con EXCEPT ![t] = None]
    BY <1>2, ZenonT(30) DEF establish_insert_forw, establish_insert_back, establish_duplicate,
       establish_enqueue, NewPCs, LockPCs, ConPCs, RefPCs, TypeOK
  <2>2. t_con[t] \in Conns /\ t_con[t] \notin pool /\ c_lock[t_con[t]] = t
    BY <2>1, UsesConn DEF LockInv
  <2>3. CASE t_con[t] # c
    <3>1. c_lock'[c] = c_lock[c] /\ c_flags'[c] = c_flags[c]
      BY <1>2, <2>3, ZenonT(30) DEF establish_insert_forw, establish_insert_back,
         establish_duplicate, establish_enqueue, TypeOK
    <3> QED
      BY <2>1, <2>3, <3>1, OthersStay, ZenonT(30)
  <2>4. CASE t_con[t] = c
    <3>1. CASE establish_insert_forw(t)
      <4>1. Phase(c) = "fresh" /\ Touching(c)' = Touching(c)
        BY <2>2, <2>4, <3>1, Zenon DEF establish_insert_forw, Phase, Linked, Unlinking,
           HolderAt, Touching
      <4>2. Phase(c)' \in {"linked", "unlinked"}
        BY <2>2, <2>4, <3>1, Zenon DEF establish_insert_forw, Phase, Linked, Unlinking,
           HolderAt, TypeOK
      <4> QED
        BY <4>1, <4>2 DEF Moves
    <3>2. CASE establish_insert_back(t)
      <4>1. Phase(c) = "linked" /\ Touching(c)' = Touching(c)
        BY <2>2, <2>4, <3>2, Zenon DEF establish_insert_back, Phase, Linked, Unlinking,
           HolderAt, Touching, FlagInv, LockPCs
      <4>2. Phase(c)' \in {"linked", "unlinked"}
        BY <2>2, <2>4, <3>2 DEF establish_insert_back, Phase, Linked, Unlinking,
           HolderAt, TypeOK
      <4> QED
        BY <4>1, <4>2 DEF Stays, Moves
    <3>3. CASE establish_duplicate(t)
      <4>1. Phase(c) = "unlinked" /\ Touching(c)' = Touching(c)
        BY <2>2, <2>4, <3>3, ZenonT(30) DEF establish_duplicate, Phase, Linked, Unlinking,
           HolderAt, Touching
      <4>2. Phase(c)' = "unlinked"
        BY <2>2, <2>4, <3>3 DEF establish_duplicate, Phase, Linked, Unlinking,
           HolderAt, TypeOK
      <4> QED
        BY <4>1, <4>2 DEF Stays
    <3>4. CASE establish_enqueue(t)
      <4>1. pc[t] = "enqueue" => Phase(c) = "linked" /\ "REMOVED" \notin c_flags[c]
        BY <2>2, <2>4, <3>4, Zenon DEF Phase, Linked, Unlinking, HolderAt, FlagInv, LockPCs
      <4>2. pc[t] = "enqueue_dup" => Phase(c) = "unlinked" /\ "REMOVED" \in c_flags[c]
        BY <2>2, <2>4, <3>4, Zenon DEF Phase, Linked, Unlinking, HolderAt, FlagInv
      <4>3. Phase(c)' = Phase(c)
        BY <2>2, <2>4, <3>4, <4>1, <4>2, NamesAssumption
           DEF establish_enqueue, Phase, Linked, Unlinking, HolderAt, TypeOK
      <4>4. \/ Touching(c)' = Touching(c)
            \/ t \in Touching(c) /\ Touching(c)' = Touching(c) \ {t}
        BY <2>4, <3>4, NamesAssumption DEF establish_enqueue, Touching, TypeOK
      <4> QED
        BY <4>3, <4>4 DEF Stays, Moves
    <3> QED
      BY <1>2, <3>1, <3>2, <3>3, <3>4
  <2> QED
    BY <2>3, <2>4
<1> QED
  BY <1>1, <1>2

\* Translation and release of a held connection: npf_conn_setnat unlinks it
\* when its new key is taken, and the last of the packet leaves it.
LEMMA Ref_use ==
  ASSUME IInv, NEW t \in Threads, NEW c \in Conns,
         \/ \E k \in NatKeys : npf_conn_setnat(t, k)
         \/ \E ok \in BOOLEAN : setnat_insert(t, ok)
         \/ do_nat_failed(t)
         \/ npf_conn_expire(t)
         \/ npf_conn_release(t)
         \/ conn_release_ref(t)
  PROVE  Stays(c) \/ Moves(c)
<1>1. /\ pc[t] \in ConPCs /\ pc' = [pc EXCEPT ![t] = pc'[t]] /\ pool' = pool
      /\ t_con' = t_con \/ t_con' = [t_con EXCEPT ![t] = None]
  BY ZenonT(30) DEF npf_conn_setnat, setnat_insert, do_nat_failed, npf_conn_expire,
     npf_conn_release, conn_release_ref, ConPCs, RefPCs, TypeOK
<1>2. t_con[t] \in Conns /\ t_con[t] \notin pool
  BY <1>1, UsesConn
<1>3. CASE t_con[t] # c
  <2>1. c_lock'[c] = c_lock[c] /\ c_flags'[c] = c_flags[c]
    BY <1>3, ZenonT(30) DEF npf_conn_setnat, setnat_insert, do_nat_failed, npf_conn_expire,
       npf_conn_release, conn_release_ref, TypeOK
  <2> QED
    BY <1>1, <1>3, <2>1, OthersStay, Zenon
<1>4. CASE t_con[t] = c
  <2>1. ASSUME NEW k \in NatKeys, npf_conn_setnat(t, k)
        PROVE  Stays(c)
    <3>1. c_lock[c] = None /\ Touching(c)' = Touching(c)
      BY <1>4, <2>1, ZenonT(30) DEF npf_conn_setnat, Touching
    <3>2. Phase(c)' = Phase(c)
      BY <1>2, <1>4, <2>1, <3>1, NamesAssumption
         DEF npf_conn_setnat, Phase, Linked, Unlinking, HolderAt, TypeOK
    <3> QED
      BY <3>1, <3>2 DEF Stays
  <2>2. ASSUME NEW ok \in BOOLEAN, setnat_insert(t, ok)
        PROVE  Stays(c) \/ Moves(c)
    <3>1. c_lock[c] = t /\ "REMOVED" \notin c_flags[c]
      BY <1>4, <2>2, ZenonT(30) DEF setnat_insert, LockInv, FlagInv, LockPCs
    <3>2. Phase(c) = "linked" /\ Touching(c)' = Touching(c)
      BY <1>2, <1>4, <2>2, <3>1, ZenonT(30)
         DEF setnat_insert, Phase, Linked, Unlinking, HolderAt, Touching
    <3>3. Phase(c)' \in {"linked", "unlinked"}
      BY <1>2, <1>4, <2>2, <3>1, NamesAssumption
         DEF setnat_insert, Phase, Linked, Unlinking, HolderAt, TypeOK
    <3> QED
      BY <3>2, <3>3 DEF Stays, Moves
  <2>3. CASE do_nat_failed(t) \/ npf_conn_expire(t) \/ npf_conn_release(t)
    <3>1. pc[t] \notin LockPCs /\ c_lock' = c_lock /\ t_con' = t_con
      BY <2>3, ZenonT(30) DEF do_nat_failed, npf_conn_expire, npf_conn_release, LockPCs
    <3>2. "REMOVED" \in c_flags'[c] <=> "REMOVED" \in c_flags[c]
      BY <1>4, <2>3 DEF do_nat_failed, npf_conn_expire, npf_conn_release, TypeOK
    <3>3. Phase(c)' = Phase(c)
      BY <1>1, <3>1, <3>2, PhaseKept, ZenonT(30)
    <3> QED
      BY <3>1, <3>3, ZenonT(30) DEF Stays, Touching
  <2>4. CASE conn_release_ref(t)
    <3>1. pc[t] \notin LockPCs /\ c_lock' = c_lock /\ c_flags' = c_flags
          /\ t_con' = [t_con EXCEPT ![t] = None]
      BY <2>4, Zenon DEF conn_release_ref, LockPCs
    <3>2. Phase(c)' = Phase(c)
      BY <1>1, <3>1, PhaseKept, Zenon
    <3>3. t \in Touching(c) /\ Touching(c)' = Touching(c) \ {t}
      BY <1>4, <3>1, NamesAssumption, Zenon DEF Touching, TypeOK
    <3> QED
      BY <3>2, <3>3 DEF Moves
  <2> QED
    BY <2>1, <2>2, <2>3, <2>4
<1> QED
  BY <1>3, <1>4

-----------------------------------------------------------------------------
(* The steps of the worker and of the environment.                         *)

\* The worker unlinks by the second removal and reclaims by destruction; the
\* expiry of a NAT policy and an export do not touch the life cycle.
LEMMA Ref_worker ==
  ASSUME IInv, NEW c \in Conns, WorkerNext \/ EnvNext
  PROVE  Stays(c) \/ Moves(c)
<1>1. pc' = pc /\ t_con' = t_con /\ Touching(c)' = Touching(c)
  BY Zenon DEF WorkerNext, EnvNext, npf_conn_worker, npf_conndb_gc, npf_conndb_gc_incr,
     npf_conn_remove, conn_remove_back, gc_scan_done, gc_sync, gc_sync_done, gc_reap,
     gc_reap_done, npf_conn_destroy, natpolicy_expire, npf_conndb_export, Touching
<1>2. CASE npf_conn_remove
  <2>1. w_con \in Conns /\ pool' = pool /\ c_lock[w_con] = None
    BY <1>2, UsesWorkerConn, Zenon DEF npf_conn_remove
  <2>2. "REMOVED" \in c_flags'[c] <=> "REMOVED" \in c_flags[c]
    BY <1>2, <2>1 DEF npf_conn_remove, TypeOK
  <2>3. c_lock'[c] = c_lock[c] \/ (c_lock[c] = None /\ c_lock'[c] = Worker)
    BY <1>2, <2>1, Zenon DEF npf_conn_remove, TypeOK
  <2>4. Phase(c)' = Phase(c)
    BY <1>1, <2>1, <2>2, <2>3, NamesAssumption, Zenon DEF Phase, Linked, Unlinking, HolderAt
  <2> QED
    BY <1>1, <2>4 DEF Stays
<1>3. CASE conn_remove_back
  <2>1. w_con \in Conns /\ w_con \notin pool /\ pool' = pool /\ c_lock[w_con] = Worker
    BY <1>3, UsesWorkerConn, Zenon DEF conn_remove_back, LockInv
  <2>2. CASE c = w_con
    <3>1. Phase(c) = "linked"
      BY <1>3, <2>1, <2>2, NamesAssumption, Zenon
         DEF conn_remove_back, Phase, Linked, Unlinking, HolderAt, FlagInv
    <3>2. Phase(c)' = "unlinked"
      BY <1>3, <2>1, <2>2, NamesAssumption
         DEF conn_remove_back, Phase, Linked, Unlinking, HolderAt, TypeOK
    <3> QED
      BY <1>1, <3>1, <3>2, Zenon DEF Moves
  <2>3. CASE c # w_con
    <3>1. c_lock'[c] = c_lock[c] /\ c_flags'[c] = c_flags[c]
      BY <1>3, <2>3, Zenon DEF conn_remove_back, TypeOK
    <3> QED
      BY <1>1, <2>1, <3>1 DEF Stays, Phase, Linked, Unlinking, HolderAt
  <2> QED
    BY <2>2, <2>3
<1>4. CASE npf_conn_destroy
  <2>1. /\ w_con \in Conns /\ w_con \notin pool /\ pool' = pool \cup {w_con}
        /\ c_lock' = c_lock /\ w_pc = "destroy"
    BY <1>4, UsesWorkerConn DEF npf_conn_destroy
  <2>2. CASE c = w_con
    <3>1. "REMOVED" \in c_flags[c]
      BY <2>1, <2>2, NamesAssumption, Zenon DEF GcInv
    <3>2. Touching(c) = {}
      BY <2>1, <2>2, Zenon DEF GraceInv, Touching
    <3>3. Phase(c) = "unlinked"
      BY <2>1, <2>2, <3>1, Zenon DEF Phase, Linked, HolderAt, LockInv, LockPCs, FlagInv
    <3>4. Phase(c)' = "free"
      BY <2>1, <2>2 DEF Phase
    <3> QED
      BY <1>1, <3>2, <3>3, <3>4, Zenon DEF Moves
  <2>3. CASE c # w_con
    <3>1. c_flags'[c] = c_flags[c]
      BY <1>4, <2>3, Zenon DEF npf_conn_destroy, TypeOK
    <3> QED
      BY <1>1, <2>1, <2>3, <3>1, Zenon DEF Stays, Phase, Linked, Unlinking, HolderAt
  <2> QED
    BY <2>2, <2>3, Zenon
<1>5. CASE ~npf_conn_remove /\ ~conn_remove_back /\ ~npf_conn_destroy
  <2>1. pool' = pool /\ c_lock' = c_lock
    BY <1>5, ZenonT(30) DEF WorkerNext, EnvNext, npf_conn_worker, npf_conndb_gc,
       npf_conndb_gc_incr, gc_scan_done, gc_sync, gc_sync_done, gc_reap,
       gc_reap_done, natpolicy_expire, npf_conndb_export
  <2>2. \/ c_flags' = c_flags
        \/ \E e \in Conns : c_flags' = [c_flags EXCEPT ![e] = @ \cup {"EXPIRE"}]
    BY <1>5, ZenonT(30) DEF WorkerNext, EnvNext, npf_conn_worker, npf_conndb_gc,
       npf_conndb_gc_incr, gc_scan_done, gc_sync, gc_sync_done, gc_reap,
       gc_reap_done, natpolicy_expire, npf_conndb_export
  <2>3. "REMOVED" \in c_flags'[c] <=> "REMOVED" \in c_flags[c]
    BY <2>2 DEF TypeOK
  <2> QED
    BY <1>1, <2>1, <2>3, Zenon DEF Stays, Phase, Linked, Unlinking, HolderAt
<1> QED
  BY <1>2, <1>3, <1>4, <1>5

-----------------------------------------------------------------------------
\* Connection tracking implements the life cycle for every connection: it is
\* handed to one thread, gains users only while it is linked, is never linked
\* a second time and is reclaimed only when nobody uses it.
THEOREM Refinement == Spec => ImplementsLifecycle
<1> DEFINE Step == \A c \in Conns :
                     UNCHANGED <<lifeBar(c), Users(c)>> \/ Lifecycle(c)!Next
<1>1. Init => \A c \in Conns : Lifecycle(c)!Init
  BY DEF Init, lifeBar, Users, ConPCs, RefPCs, Lifecycle!Init
<1>2. ASSUME IInv, PhaseIsLife, PhaseIsLife', [Next]_vars PROVE [Step]_vars
  <2> SUFFICES ASSUME Next, NEW c \in Conns
               PROVE  UNCHANGED <<lifeBar(c), Users(c)>> \/ Lifecycle(c)!Next
    BY <1>2
  <2>1. ASSUME NEW t \in Threads, ThreadNext(t) PROVE Stays(c) \/ Moves(c)
    BY <1>2, <2>1, Ref_lookup, Ref_establish, Ref_use, ZenonT(40) DEF ThreadNext
  <2>2. ASSUME WorkerNext \/ EnvNext PROVE Stays(c) \/ Moves(c)
    BY <1>2, <2>2, Ref_worker
  <2>3. Stays(c) \/ Moves(c)
    BY <2>1, <2>2 DEF Next
  <2> QED
    BY <1>2, <2>3, MoveIsLifecycle, Zenon
<1>3. IInv /\ PhaseIsLife /\ PhaseIsLife' /\ [Next]_vars => [Step]_vars
  BY <1>2
<1> QED
  BY <1>1, <1>3, IInvPhase, Invariance, PTL DEF Spec, ImplementsLifecycle
====
