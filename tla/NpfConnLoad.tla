----------------------------- MODULE NpfConnLoad -----------------------------
(***************************************************************************)
(* Loading a configuration with a connection database (npf_config_load,    *)
(* npf_conn_load) while packets are processed and the G/C worker runs.     *)
(*                                                                         *)
(* npf_conn_load replaces npf_t::conn_db and then flushes and destroys the *)
(* old database.  Its comment obliges the caller to have no lookup and no  *)
(* reference in flight.  ContractSpec takes that at its word; LoadSpec is  *)
(* what npf_config_load does: tracking off, one EBR synchronisation, swap. *)
(***************************************************************************)
EXTENDS NpfConn

CONSTANT Loader
\* What is assumed of it: it is a control thread.
LoaderAssumption == Loader \in Ctl

VARIABLES
  l_pc,    \* npf_config_load, the thread that holds config_lock
  l_odb,   \* the database being replaced
  l_con,   \* the connection npf_conndb_gc(flush) is working on
  dead     \* databases freed by npf_conndb_destroy

loaderVars == <<l_pc, l_odb, l_con, dead>>
loadVars == <<vars, loaderVars>>

LoaderPCs == {"start", "off", "wait", "gc", "flush", "remove_forw",
              "remove_back", "reap", "destroy", "done"}

LoadTypeOK ==
  /\ TypeOK
  /\ l_pc \in LoaderPCs
  /\ l_odb \in DBs /\ dead \in SUBSET DBs
  /\ l_con \in Conns \cup {None}

LoadInit ==
  /\ Init
  /\ l_pc = "start" /\ l_odb = db0 /\ l_con = None /\ dead = {}

-----------------------------------------------------------------------------
\* npf_config_load: under config_lock, tracking is disabled.
npf_config_load ==
  /\ l_pc = "start"
  /\ config_lock = None
  /\ config_lock' = Loader
  /\ conn_tracking' = FALSE
  /\ l_pc' = "off"
  /\ UNCHANGED <<conn_db, cd_map, cd_new, cd_list, cd_gclist, conn_lock,
                 connVars, ebrVars, threadVars, workerVars, l_odb, l_con, dead>>

\* npf_ebr_full_sync begins.
load_sync ==
  /\ l_pc = "off"
  /\ npf_config_sync
  /\ l_pc' = "wait"
  /\ UNCHANGED <<dbVars, lockVars, connVars, readers, threadVars, workerVars,
                 l_odb, l_con, dead>>


\* The synchronisation is over; npf_conn_load under conn_lock installs the new
\* database and turns tracking on.
npf_conn_load(ndb) ==
  /\ l_pc = "wait"
  /\ grace = {}
  /\ conn_lock = None
  /\ ndb # conn_db
  /\ l_odb' = conn_db
  /\ conn_db' = ndb
  /\ conn_tracking' = TRUE
  /\ l_pc' = "gc"
  /\ UNCHANGED <<cd_map, cd_new, cd_list, cd_gclist, lockVars, connVars,
                 ebrVars, threadVars, workerVars, l_con, dead>>

\* npf_conndb_gc(npf, odb, true, false): every connection of the old database
\* is unlinked under conn_lock ...
load_gc ==
  /\ l_pc = "gc"
  /\ conn_lock = None
  /\ conn_lock' = Loader
  /\ npf_conndb_update(l_odb)
  /\ l_pc' = "flush"
  /\ UNCHANGED <<conn_db, conn_tracking, cd_map, cd_gclist, config_lock,
                 connVars, ebrVars, threadVars, workerVars, l_odb, l_con, dead>>

load_flush(c) ==
  /\ l_pc = "flush"
  /\ c \in cd_list[l_odb]
  /\ cd_list' = [cd_list EXCEPT ![l_odb] = @ \ {c}]
  /\ cd_gclist' = [cd_gclist EXCEPT ![l_odb] = @ \cup {c}]
  /\ l_con' = c
  /\ l_pc' = "remove_forw"
  /\ UNCHANGED <<conn_db, conn_tracking, cd_map, cd_new, lockVars, connVars,
                 ebrVars, threadVars, workerVars, l_odb, dead>>

\* ... by npf_conn_remove, one entry after the other under c_lock.
load_remove ==
  /\ l_pc = "remove_forw"
  /\ c_lock[l_con] = None
  /\ \/ /\ "REMOVED" \notin c_flags[l_con]
        /\ c_lock' = [c_lock EXCEPT ![l_con] = Loader]
        /\ npf_conndb_remove(l_odb, c_forw[l_con])
        /\ l_pc' = "remove_back"
        /\ UNCHANGED <<c_flags, l_con>>
     \/ /\ "REMOVED" \in c_flags[l_con]
        /\ SetRemoved(l_con)
        /\ l_pc' = "flush"
        /\ l_con' = None
        /\ UNCHANGED <<c_lock, cd_map>>
  /\ UNCHANGED <<conn_db, conn_tracking, cd_new, cd_list, cd_gclist, lockVars,
                 c_refcnt, keyVars, pool, ebrVars, threadVars,
                 workerVars, l_odb, dead>>

load_remove_back ==
  /\ l_pc = "remove_back"
  /\ npf_conndb_remove(l_odb, c_back[l_con])
  /\ SetRemoved(l_con)
  /\ c_lock' = [c_lock EXCEPT ![l_con] = None]
  /\ l_pc' = "flush"
  /\ l_con' = None
  /\ UNCHANGED <<conn_db, conn_tracking, cd_new, cd_list, cd_gclist, lockVars,
                 c_refcnt, keyVars, pool, ebrVars, threadVars,
                 workerVars, l_odb, dead>>

load_flush_done ==
  /\ l_pc = "flush"
  /\ cd_list[l_odb] = {}
  /\ conn_lock' = None
  /\ l_pc' = "reap"
  /\ UNCHANGED <<dbVars, config_lock, connVars, ebrVars, threadVars,
                 workerVars, l_odb, l_con, dead>>

\* A flush pauses and retries until the references have drained.
load_reap(c) ==
  /\ l_pc = "reap"
  /\ c \in cd_gclist[l_odb]
  /\ Unreferenced(c)
  /\ l_con' = c
  /\ l_pc' = "destroy"
  /\ UNCHANGED <<dbVars, lockVars, connVars, ebrVars, threadVars, workerVars,
                 l_odb, dead>>

load_conn_destroy ==
  /\ l_pc = "destroy"
  /\ cd_gclist' = [cd_gclist EXCEPT ![l_odb] = @ \ {l_con}]
  /\ c_nat' = [c_nat EXCEPT ![l_con] = FALSE]
  /\ c_flags' = [c_flags EXCEPT ![l_con] = {}]
  /\ c_forw' = [c_forw EXCEPT ![l_con] = None]
  /\ c_back' = [c_back EXCEPT ![l_con] = None]
  /\ pool' = pool \cup {l_con}
  /\ l_con' = None
  /\ l_pc' = "reap"
  /\ UNCHANGED <<conn_db, conn_tracking, cd_map, cd_new, cd_list, lockVars,
                 c_refcnt, c_lock, ebrVars, threadVars, workerVars, l_odb,
                 dead>>

\* npf_conndb_destroy and the end of npf_config_load.
npf_conndb_destroy ==
  /\ l_pc = "reap"
  /\ cd_gclist[l_odb] = {}
  /\ dead' = dead \cup {l_odb}
  /\ config_lock' = None
  /\ l_pc' = "done"
  /\ UNCHANGED <<dbVars, conn_lock, connVars, ebrVars, threadVars, workerVars,
                 l_odb, l_con>>

-----------------------------------------------------------------------------
FlushNext ==
  \/ load_gc
  \/ \E c \in Conns : load_flush(c)
  \/ load_remove
  \/ load_remove_back
  \/ load_flush_done
  \/ \E c \in Conns : load_reap(c)
  \/ load_conn_destroy
  \/ npf_conndb_destroy

\* The program: npf_conn_load follows the EBR synchronisation directly.
LoadNext ==
  \/ Next /\ UNCHANGED loaderVars
  \/ npf_config_load
  \/ load_sync
  \/ \E ndb \in DBs : npf_conn_load(ndb)
  \/ FlushNext

LoadSpec == LoadInit /\ [][LoadNext]_loadVars

\* The contract in the comments of npf_conn_load: "there are no connection
\* database lookups or references in-flight" at the swap, and the G/C thread
\* is prevented from running during the load.
NoneInFlight == \A t \in Threads : pc[t] \notin ConPCs \cup {"enter", "get"}

ContractNext ==
  \/ Next /\ UNCHANGED loaderVars /\ (l_pc \in {"start", "done"} \/ w_pc' = "start")
  \/ w_pc = "start" /\ npf_config_load
  \/ load_sync
  \/ NoneInFlight /\ \E ndb \in DBs : npf_conn_load(ndb)
  \/ FlushNext

ContractSpec == LoadInit /\ [][ContractNext]_loadVars

-----------------------------------------------------------------------------
(* Properties.                                                             *)

\* "Must run in a single-threaded manner": npf_conndb_gc is not at work on
\* one database in two threads; both would walk its unlocked G/C list.
SingleThreadedGc ==
  ~ /\ w_pc \notin {"start", "lock"}
    /\ l_pc \in {"flush", "remove_forw", "remove_back", "reap", "destroy"}
    /\ w_cd = l_odb

\* A database that npf_conndb_destroy has freed is empty, in its lists (the
\* KASSERTs there) and in its map, and nobody dereferences it: neither a
\* lookup or insertion that loaded npf_t::conn_db earlier, nor the worker.
\* Neither is a connection used after it was freed.
OldDatabaseGone ==
  /\ NoUseAfterFree
  /\ \A d \in dead :
       /\ cd_new[d] = {} /\ cd_list[d] = {} /\ cd_gclist[d] = {}
       /\ \A k \in Keys : Vacant(d, k)
  /\ \A t \in Threads :
       pc[t] \in {"get", "ref"} \cup LockPCs => t_cd[t] \notin dead
  /\ w_pc # "start" => w_cd \notin dead
====
