------------------------------- MODULE NpfConn -------------------------------
(***************************************************************************)
(* NPF connection tracking (npf_conn.c, npf_conndb.c): packet-processing   *)
(* threads look up, establish, translate and release connections without a *)
(* global lock while one G/C worker unlinks and destroys expired ones.     *)
(*                                                                         *)
(* Memory safety rests on two mechanisms that this module keeps apart: the *)
(* reference count of a connection, and the epoch-based reclamation (EBR)  *)
(* section in which a lookup turns a map entry into a reference.           *)
(*                                                                         *)
(* A step is one access to shared memory that another thread can tell from *)
(* the next one.  The lists of a database are sets here: their order, the  *)
(* marker of the incremental scan and gc.step are the subject of           *)
(* NpfConndbGc.                                                            *)
(***************************************************************************)
EXTENDS Integers, FiniteSets

CONSTANTS
  Threads,   \* packet-processing threads
  Worker,    \* the G/C worker thread
  Ctl,       \* control threads that reload the configuration (NpfConnLoad)
  Conns,     \* the memory of the connection pool cache
  Keys,      \* connection keys (npf_connkey_t contents)
  PktKeys,   \* the keys of the packets that arrive
  NatKeys,   \* the "backwards" keys that npf_conn_adjkey() produces
  Rev,       \* the "backwards" key that npf_conn_conkey() builds for a packet
  DBs,       \* connection databases (npf_conndb_t)
  db0,       \* the database installed by npf_conn_init()
  None       \* a NULL pointer, an unlocked mutex

ASSUME ThreadsAssumption == IsFiniteSet(Threads)
ASSUME NamesAssumption ==
  /\ Worker \notin Threads \cup Ctl /\ Threads \cap Ctl = {}
  /\ None \notin Threads \cup {Worker} \cup Ctl \cup Conns \cup Keys
  /\ db0 \in DBs
ASSUME KeysAssumption ==
  /\ PktKeys \subseteq Keys /\ NatKeys \subseteq Keys
  /\ Rev \in [PktKeys -> Keys]
  /\ \A k \in PktKeys : Rev[k] # k

VARIABLES
  conn_db,        \* npf_t::conn_db
  conn_tracking,  \* npf_t::conn_tracking
  conn_lock,      \* npf_t::conn_lock, the holder
  config_lock,    \* npf_t::config_lock, the holder
  cd_map,         \* the key-value map of each database
  cd_new,         \* connections enqueued but not migrated yet
  cd_list,        \* all connections
  cd_gclist,      \* unlinked connections waiting for destruction
  c_flags, c_refcnt, c_forw, c_back, c_nat,
  c_lock,         \* npf_conn_t::c_lock, the holder
  pool,           \* free npf_conn_t memory
  readers,        \* threads inside an EBR critical section
  grace,          \* readers the current EBR synchronisation waits for
  pc,
  t_key,          \* key of the packet until a connection is held for it
  t_cd, t_con,
  t_ncon,         \* the held connection was established by npf_do_nat()
  w_pc, w_cd, w_con

dbVars     == <<conn_db, conn_tracking, cd_map, cd_new, cd_list, cd_gclist>>
lockVars   == <<conn_lock, config_lock>>
keyVars    == <<c_forw, c_back, c_nat>>
connVars   == <<c_flags, c_refcnt, keyVars, c_lock, pool>>
ebrVars    == <<readers, grace>>
threadVars == <<pc, t_key, t_cd, t_con, t_ncon>>
workerVars == <<w_pc, w_cd, w_con>>
vars == <<dbVars, lockVars, connVars, ebrVars, threadVars, workerVars>>

-----------------------------------------------------------------------------
Flags == {"ACTIVE", "EXPIRE", "REMOVED"}

\* Program counters: at RefPCs a thread holds a reference to t_con[t], at
\* ConPCs it uses it, at LockPCs it holds its c_lock.
RefPCs == {"check", "inspect", "held", "nat_insert", "error", "release",
           "drop", "insert_forw", "insert_back", "enqueue", "duplicate"}
ConPCs == RefPCs \cup {"ref", "enqueue_dup"}
ThreadPCs == ConPCs \cup {"start", "enter", "get", "miss"}
LockPCs == {"nat_insert", "insert_forw", "insert_back", "enqueue",
            "duplicate", "enqueue_dup"}
NewPCs == LockPCs \ {"nat_insert"}   \* inside npf_conn_establish
WorkerPCs == {"start", "lock", "scan", "remove_forw", "remove_back", "sync",
              "wait", "reap", "destroy"}

TypeOK ==
  /\ conn_db \in DBs
  /\ conn_tracking \in BOOLEAN
  /\ conn_lock \in Ctl \cup {Worker, None}
  /\ config_lock \in Ctl \cup {Worker, None}
  /\ cd_map \in [DBs \X Keys -> Conns \cup {None}]
  /\ cd_new \in [DBs -> SUBSET Conns]
  /\ cd_list \in [DBs -> SUBSET Conns]
  /\ cd_gclist \in [DBs -> SUBSET Conns]
  /\ c_flags \in [Conns -> SUBSET Flags]
  /\ c_refcnt \in [Conns -> Int]
  /\ c_forw \in [Conns -> Keys \cup {None}]
  /\ c_back \in [Conns -> Keys \cup {None}]
  /\ c_nat \in [Conns -> BOOLEAN]
  /\ c_lock \in [Conns -> Threads \cup Ctl \cup {Worker, None}]
  /\ pool \in SUBSET Conns
  /\ readers \in SUBSET Threads
  /\ grace \in SUBSET Threads
  /\ pc \in [Threads -> ThreadPCs]
  /\ t_key \in [Threads -> PktKeys \cup {None}]
  /\ t_cd \in [Threads -> DBs]
  /\ t_con \in [Threads -> Conns \cup {None}]
  /\ t_ncon \in [Threads -> BOOLEAN]
  /\ w_pc \in WorkerPCs
  /\ w_cd \in DBs
  /\ w_con \in Conns \cup {None}

\* npf_conn_init, and the tracking that the first load turns on.
npf_conn_init == conn_db = db0 /\ conn_tracking = TRUE

Init ==
  /\ npf_conn_init
  /\ conn_lock = None /\ config_lock = None
  /\ cd_map = [e \in DBs \X Keys |-> None]
  /\ cd_new = [d \in DBs |-> {}]
  /\ cd_list = [d \in DBs |-> {}]
  /\ cd_gclist = [d \in DBs |-> {}]
  /\ c_flags = [c \in Conns |-> {}]
  /\ c_refcnt = [c \in Conns |-> 0]
  /\ c_forw = [c \in Conns |-> None]
  /\ c_back = [c \in Conns |-> None]
  /\ c_nat = [c \in Conns |-> FALSE]
  /\ c_lock = [c \in Conns |-> None]
  /\ pool = Conns
  /\ readers = {} /\ grace = {}
  /\ pc = [t \in Threads |-> "start"]
  /\ t_key = [t \in Threads |-> None]
  /\ t_cd = [t \in Threads |-> db0]
  /\ t_con = [t \in Threads |-> None]
  /\ t_ncon = [t \in Threads |-> FALSE]
  /\ w_pc = "start" /\ w_cd = db0 /\ w_con = None

Goto(t, label) == pc' = [pc EXCEPT ![t] = label]

-----------------------------------------------------------------------------
(* What several operations do.  The definitions called mutants are those   *)
(* below them with one plausible fault; no specification uses them.        *)

\* thmap_put() returns another value when the key is already there.
Vacant_overwrite(d, k) == TRUE
Vacant(d, k) == cd_map[<<d, k>>] = None

npf_conndb_insert(d, k, c) == cd_map' = [cd_map EXCEPT ![<<d, k>>] = c]

npf_conndb_remove(d, k) == cd_map' = [cd_map EXCEPT ![<<d, k>>] = None]

\* Migrate the new connections.
npf_conndb_update(d) ==
  /\ cd_list' = [cd_list EXCEPT ![d] = @ \cup cd_new[d]]
  /\ cd_new' = [cd_new EXCEPT ![d] = {}]

\* The database pointer as the operation that begins loads it.  Mutant: the
\* one loaded first is kept.
LoadDB_once(t) == UNCHANGED t_cd
LoadDB(t) == t_cd' = [t_cd EXCEPT ![t] = conn_db]

\* npf_ebr_full_sync waits for the readers of the moment it begins.  Mutant:
\* for none.
npf_config_sync_none == grace' = {}
npf_config_sync == grace' = readers
EbrExit(t) == readers' = readers \ {t} /\ grace' = grace \ {t}

\* Both entries are out of the map.  Mutant: EXPIRE is not set.
SetRemoved_noexpire(c) == c_flags' = [c_flags EXCEPT ![c] = @ \cup {"REMOVED"}]
SetRemoved(c) == c_flags' = [c_flags EXCEPT ![c] = @ \cup {"REMOVED", "EXPIRE"}]

\* The test of the reap loop.  Mutant: left out.
Unreferenced_any(c) == TRUE
Unreferenced(c) == c_refcnt[c] = 0

-----------------------------------------------------------------------------
(* Looking up a connection.                                                *)

\* npf_conn_inspect: connection tracking is on; npf_conndb_lookup loads the
\* database pointer before it enters the EBR section.
npf_conn_inspect(t, k) ==
  /\ pc[t] = "start"
  /\ conn_tracking
  /\ t_key' = [t_key EXCEPT ![t] = k]
  /\ LoadDB(t)
  /\ Goto(t, "enter")
  /\ UNCHANGED <<dbVars, lockVars, connVars, ebrVars, t_con, t_ncon,
                 workerVars>>

npf_config_read_enter(t) ==
  /\ pc[t] = "enter"
  /\ readers' = readers \cup {t}
  /\ Goto(t, "get")
  /\ UNCHANGED <<dbVars, lockVars, connVars, grace, t_key, t_cd, t_con,
                 t_ncon, workerVars>>

\* npf_conndb_lookup: thmap_get().
npf_conndb_lookup(t) ==
  LET c == cd_map[<<t_cd[t], t_key[t]>>] IN
  /\ pc[t] = "get"
  /\ \/ /\ c = None
        /\ EbrExit(t)
        /\ Goto(t, "miss")
        /\ UNCHANGED t_con
     \/ /\ c # None
        /\ t_con' = [t_con EXCEPT ![t] = c]
        /\ Goto(t, "ref")
        /\ UNCHANGED ebrVars
  /\ UNCHANGED <<dbVars, lockVars, connVars, t_key, t_cd, t_ncon, workerVars>>

\* npf_conndb_lookup: acquire the reference and leave the EBR section.
conndb_lookup_ref(t) ==
  /\ pc[t] = "ref"
  /\ c_refcnt' = [c_refcnt EXCEPT ![t_con[t]] = @ + 1]
  /\ EbrExit(t)
  /\ Goto(t, "check")
  /\ UNCHANGED <<dbVars, lockVars, c_flags, keyVars, c_lock, pool,
                 t_key, t_cd, t_con, t_ncon, workerVars>>

\* npf_conn_check; "match" is the outcome of the direction and interface
\* checks.
npf_conn_check(c, match) ==
  match /\ "ACTIVE" \in c_flags[c] /\ "EXPIRE" \notin c_flags[c]

npf_conn_lookup(t, match) ==
  LET c == t_con[t] IN
  /\ pc[t] = "check"
  /\ \/ /\ npf_conn_check(c, match)
        /\ Goto(t, "inspect")
        /\ UNCHANGED <<c_refcnt, t_con>>
     \/ /\ ~npf_conn_check(c, match)
        /\ c_refcnt' = [c_refcnt EXCEPT ![c] = @ - 1]
        /\ t_con' = [t_con EXCEPT ![t] = None]
        /\ Goto(t, "miss")
  /\ UNCHANGED <<dbVars, lockVars, c_flags, keyVars, c_lock, pool, ebrVars,
                 t_key, t_cd, t_ncon, workerVars>>

\* npf_conn_inspect: npf_state_inspect() under c_lock; an invalid state
\* releases the connection and leaves the packet to the ruleset.
conn_inspect_state(t, ok) ==
  /\ pc[t] = "inspect"
  /\ c_lock[t_con[t]] = None
  /\ t_key' = [t_key EXCEPT ![t] = IF ok THEN None ELSE @]
  /\ Goto(t, IF ok THEN "held" ELSE "release")
  /\ UNCHANGED <<dbVars, lockVars, connVars, ebrVars, t_cd, t_con, t_ncon,
                 workerVars>>

\* The packet ends without a connection: no stateful rule, pool exhausted
\* (npf_conn_establish only signals the worker), protocol not trackable.
packet_untracked(t) ==
  /\ pc[t] = "miss"
  /\ Goto(t, "start")
  /\ t_key' = [t_key EXCEPT ![t] = None]
  /\ UNCHANGED <<dbVars, lockVars, connVars, ebrVars, t_cd, t_con, t_ncon,
                 workerVars>>

-----------------------------------------------------------------------------
(* Establishing a connection; c_lock is held until it is enqueued.         *)

\* npf_conn_establish: allocation and initialisation, the caller's
\* reference, c_lock, and the load of the database pointer.  A stateful rule
\* (ncon = FALSE) and npf_do_nat (ncon = TRUE) call it.
npf_conn_establish(t, c, ncon) ==
  /\ pc[t] = "miss"
  /\ conn_tracking
  /\ c \in pool
  /\ pool' = pool \ {c}
  /\ c_flags' = [c_flags EXCEPT ![c] = {}]
  /\ c_nat' = [c_nat EXCEPT ![c] = FALSE]
  /\ c_forw' = [c_forw EXCEPT ![c] = t_key[t]]
  /\ c_back' = [c_back EXCEPT ![c] = Rev[t_key[t]]]
  /\ c_refcnt' = [c_refcnt EXCEPT ![c] = 1]
  /\ c_lock' = [c_lock EXCEPT ![c] = t]
  /\ LoadDB(t)
  /\ t_con' = [t_con EXCEPT ![t] = c]
  /\ t_ncon' = [t_ncon EXCEPT ![t] = ncon]
  /\ Goto(t, "insert_forw")
  /\ UNCHANGED <<dbVars, lockVars, ebrVars, t_key, workerVars>>

establish_insert_forw(t) ==
  LET c == t_con[t]  d == t_cd[t] IN
  /\ pc[t] = "insert_forw"
  /\ \/ /\ Vacant(d, c_forw[c])
        /\ npf_conndb_insert(d, c_forw[c], c)
        /\ Goto(t, "insert_back")
     \/ /\ ~Vacant(d, c_forw[c])
        /\ Goto(t, "duplicate")
        /\ UNCHANGED cd_map
  /\ UNCHANGED <<conn_db, conn_tracking, cd_new, cd_list, cd_gclist, lockVars,
                 connVars, ebrVars, t_key, t_cd, t_con, t_ncon, workerVars>>

\* The "backwards" key; on a duplicate the "forwards" entry is taken back.
establish_insert_back(t) ==
  LET c == t_con[t]  d == t_cd[t] IN
  /\ pc[t] = "insert_back"
  /\ \/ /\ Vacant(d, c_back[c])
        /\ npf_conndb_insert(d, c_back[c], c)
        /\ Goto(t, "enqueue")
     \/ /\ ~Vacant(d, c_back[c])
        /\ npf_conndb_remove(d, c_forw[c])
        /\ Goto(t, "duplicate")
  /\ UNCHANGED <<conn_db, conn_tracking, cd_new, cd_list, cd_gclist, lockVars,
                 connVars, ebrVars, t_key, t_cd, t_con, t_ncon, workerVars>>

\* Mutant of the next: the caller's reference stays.
establish_duplicate_leak(t) ==
  /\ pc[t] = "duplicate"
  /\ SetRemoved(t_con[t])
  /\ Goto(t, "enqueue_dup")
  /\ UNCHANGED <<dbVars, lockVars, c_refcnt, keyVars, c_lock, pool, ebrVars,
                 t_key, t_cd, t_con, t_ncon, workerVars>>

\* A duplicate was hit: flag the connection and drop the reference ...
establish_duplicate(t) ==
  LET c == t_con[t] IN
  /\ pc[t] = "duplicate"
  /\ SetRemoved(c)
  /\ c_refcnt' = [c_refcnt EXCEPT ![c] = @ - 1]
  /\ Goto(t, "enqueue_dup")
  /\ UNCHANGED <<dbVars, lockVars, keyVars, c_lock, pool, ebrVars,
                 t_key, t_cd, t_con, t_ncon, workerVars>>

\* ... and leave it to the G/C worker.  Either way the connection is enqueued
\* (npf_conndb_enqueue) and c_lock released.  When a stateful rule's attempt
\* failed, npf_do_nat may still try.
establish_enqueue(t) ==
  LET c == t_con[t] IN
  /\ pc[t] \in {"enqueue", "enqueue_dup"}
  /\ cd_new' = [cd_new EXCEPT ![t_cd[t]] = @ \cup {c}]
  /\ c_lock' = [c_lock EXCEPT ![c] = None]
  /\ \/ /\ pc[t] = "enqueue"
        /\ Goto(t, "held")
        /\ t_key' = [t_key EXCEPT ![t] = None]
        /\ UNCHANGED <<t_con, t_ncon>>
     \/ /\ pc[t] = "enqueue_dup"
        /\ Goto(t, IF t_ncon[t] THEN "start" ELSE "miss")
        /\ t_key' = [t_key EXCEPT ![t] = IF t_ncon[t] THEN None ELSE @]
        /\ t_con' = [t_con EXCEPT ![t] = None]
        /\ t_ncon' = [t_ncon EXCEPT ![t] = FALSE]
  /\ UNCHANGED <<conn_db, conn_tracking, cd_map, cd_list, cd_gclist, lockVars,
                 c_flags, c_refcnt, keyVars, pool, ebrVars, t_cd, workerVars>>

-----------------------------------------------------------------------------
(* Using a held connection.                                                *)

\* Raced by the expiry or by another packet.
NatRefused(c) == "EXPIRE" \in c_flags[c] \/ c_nat[c]

\* npf_conn_setnat: take c_lock; an expired or already translated connection
\* is refused, otherwise the "backwards" entry is removed and its key set to
\* the translation values.
npf_conn_setnat(t, k) ==
  LET c == t_con[t] IN
  /\ pc[t] = "held"
  /\ c_lock[c] = None
  /\ \/ /\ NatRefused(c)
        /\ Goto(t, "error")
        /\ UNCHANGED <<c_lock, t_cd, cd_map, c_back>>
     \/ /\ ~NatRefused(c)
        /\ c_lock' = [c_lock EXCEPT ![c] = t]
        /\ LoadDB(t)
        /\ npf_conndb_remove(conn_db, c_back[c])
        /\ c_back' = [c_back EXCEPT ![c] = k]
        /\ Goto(t, "nat_insert")
  /\ UNCHANGED <<conn_db, conn_tracking, cd_new, cd_list, cd_gclist, lockVars,
                 c_flags, c_refcnt, c_forw, c_nat, pool, ebrVars, t_key,
                 t_con, t_ncon, workerVars>>

\* npf_conn_setnat: re-insert the "backwards" key; on a duplicate the
\* connection loses its "forwards" entry and is expired.  "ok" is the outcome
\* of npf_dnat_translate, the last thing npf_do_nat does.
setnat_insert(t, ok) ==
  LET c == t_con[t]  d == t_cd[t] IN
  /\ pc[t] = "nat_insert"
  /\ c_lock' = [c_lock EXCEPT ![c] = None]
  /\ \/ /\ Vacant(d, c_back[c])
        /\ npf_conndb_insert(d, c_back[c], c)
        /\ c_nat' = [c_nat EXCEPT ![c] = TRUE]
        /\ Goto(t, IF ok THEN "release" ELSE "error")
        /\ UNCHANGED c_flags
     \/ /\ ~Vacant(d, c_back[c])
        /\ npf_conndb_remove(d, c_forw[c])
        /\ SetRemoved(c)
        /\ Goto(t, "error")
        /\ UNCHANGED c_nat
  /\ UNCHANGED <<conn_db, conn_tracking, cd_new, cd_list, cd_gclist, lockVars,
                 c_refcnt, c_forw, c_back, pool, ebrVars, t_key, t_cd,
                 t_con, t_ncon, workerVars>>

\* npf_do_nat: without a NAT entry (npf_nat_create failed) the connection
\* established for it is not wanted either.
do_nat_failed(t) ==
  /\ pc[t] = "held" /\ t_ncon[t]
  /\ Goto(t, "error")
  /\ UNCHANGED <<dbVars, lockVars, connVars, ebrVars, t_key, t_cd, t_con,
                 t_ncon, workerVars>>

\* npf_do_nat: on an error npf_conn_expire() the connection it established.
npf_conn_expire(t) ==
  /\ pc[t] = "error"
  /\ c_flags' = [c_flags EXCEPT ![t_con[t]] =
                   IF t_ncon[t] THEN @ \cup {"EXPIRE"} ELSE @]
  /\ Goto(t, "release")
  /\ UNCHANGED <<dbVars, lockVars, c_refcnt, keyVars, c_lock, pool,
                 ebrVars, t_key, t_cd, t_con, t_ncon, workerVars>>

\* npf_conn_release, called at the end of npf_packet_handler or npf_do_nat or
\* by npf_conn_inspect: the first release activates the connection ...
npf_conn_release(t) ==
  /\ pc[t] = "release" \/ (pc[t] = "held" /\ ~t_ncon[t])
  /\ c_flags' = [c_flags EXCEPT ![t_con[t]] =
                   IF "ACTIVE" \notin @ /\ "EXPIRE" \notin @
                   THEN @ \cup {"ACTIVE"} ELSE @]
  /\ Goto(t, "drop")
  /\ UNCHANGED <<dbVars, lockVars, c_refcnt, keyVars, c_lock, pool,
                 ebrVars, t_key, t_cd, t_con, t_ncon, workerVars>>

\* ... and the reference goes.  The packet is done, unless npf_conn_inspect
\* released the connection (t_key is set) and the ruleset comes next.
conn_release_ref(t) ==
  LET c == t_con[t] IN
  /\ pc[t] = "drop"
  /\ c_refcnt' = [c_refcnt EXCEPT ![c] = @ - 1]
  /\ t_con' = [t_con EXCEPT ![t] = None]
  /\ t_ncon' = [t_ncon EXCEPT ![t] = FALSE]
  /\ Goto(t, IF t_key[t] = None THEN "start" ELSE "miss")
  /\ UNCHANGED <<dbVars, lockVars, c_flags, keyVars, c_lock, pool, ebrVars,
                 t_key, t_cd, workerVars>>

\* npf_natpolicy_destroy: expire a connection that has a NAT entry of the
\* policy, under n_lock and without a reference.  npf_nat_create() links the
\* entry to the connection before npf_conn_setnat().
natpolicy_expire(c) ==
  /\ c_nat[c] \/ \E t \in Threads : t_con[t] = c /\ pc[t] \in {"held", "nat_insert"}
  /\ "EXPIRE" \notin c_flags[c]
  /\ c_flags' = [c_flags EXCEPT ![c] = @ \cup {"EXPIRE"}]
  /\ UNCHANGED <<dbVars, lockVars, c_refcnt, keyVars, c_lock, pool,
                 ebrVars, threadVars, workerVars>>

-----------------------------------------------------------------------------
(* The G/C worker: npf_conn_worker -> npf_conndb_gc(npf, cd, false, true). *)

npf_conn_worker ==
  /\ w_pc = "start"
  /\ w_cd' = conn_db
  /\ w_pc' = "lock"
  /\ UNCHANGED <<dbVars, lockVars, connVars, ebrVars, threadVars, w_con>>

\* Under conn_lock: migrate the new connections (npf_conndb_update).
npf_conndb_gc ==
  /\ w_pc = "lock"
  /\ conn_lock = None
  /\ conn_lock' = Worker
  /\ npf_conndb_update(w_cd)
  /\ w_pc' = "scan"
  /\ UNCHANGED <<conn_db, conn_tracking, cd_map, cd_gclist, config_lock,
                 connVars, ebrVars, threadVars, w_cd, w_con>>

\* npf_conndb_gc_incr: the scan moves an expired connection to the G/C list.
\* Time is not modelled: the etime of any connection may have elapsed, and
\* the scan leaves the others alone and may stop before it has seen them all.
npf_conndb_gc_incr(c) ==
  /\ w_pc = "scan"
  /\ c \in cd_list[w_cd]
  /\ cd_list' = [cd_list EXCEPT ![w_cd] = @ \ {c}]
  /\ cd_gclist' = [cd_gclist EXCEPT ![w_cd] = @ \cup {c}]
  /\ w_con' = c
  /\ w_pc' = "remove_forw"
  /\ UNCHANGED <<conn_db, conn_tracking, cd_map, cd_new, lockVars, connVars,
                 ebrVars, threadVars, w_cd>>

\* npf_conn_remove under c_lock: the "forwards" entry ...
npf_conn_remove ==
  /\ w_pc = "remove_forw"
  /\ c_lock[w_con] = None
  /\ \/ /\ "REMOVED" \notin c_flags[w_con]
        /\ c_lock' = [c_lock EXCEPT ![w_con] = Worker]
        /\ npf_conndb_remove(w_cd, c_forw[w_con])
        /\ w_pc' = "remove_back"
        /\ UNCHANGED <<c_flags, w_con>>
     \/ /\ "REMOVED" \in c_flags[w_con]
        /\ SetRemoved(w_con)
        /\ w_pc' = "scan"
        /\ w_con' = None
        /\ UNCHANGED <<c_lock, cd_map>>
  /\ UNCHANGED <<conn_db, conn_tracking, cd_new, cd_list, cd_gclist, lockVars,
                 c_refcnt, keyVars, pool, ebrVars, threadVars, w_cd>>

\* ... then the "backwards" one, and the flags.
conn_remove_back ==
  /\ w_pc = "remove_back"
  /\ npf_conndb_remove(w_cd, c_back[w_con])
  /\ SetRemoved(w_con)
  /\ c_lock' = [c_lock EXCEPT ![w_con] = None]
  /\ w_pc' = "scan"
  /\ w_con' = None
  /\ UNCHANGED <<conn_db, conn_tracking, cd_new, cd_list, cd_gclist, lockVars,
                 c_refcnt, keyVars, pool, ebrVars, threadVars, w_cd>>

gc_scan_done ==
  /\ w_pc = "scan"
  /\ conn_lock' = None
  /\ w_pc' = "sync"
  /\ UNCHANGED <<dbVars, config_lock, connVars, ebrVars, threadVars, w_cd,
                 w_con>>

\* npf_config_enter and the start of npf_ebr_full_sync.  Memory staged by the
\* map (gcref) asks for it even when the G/C list is empty.
gc_sync ==
  /\ w_pc = "sync"
  /\ \/ /\ config_lock = None
        /\ config_lock' = Worker
        /\ npf_config_sync
        /\ w_pc' = "wait"
     \/ /\ cd_gclist[w_cd] = {}
        /\ w_pc' = "start"
        /\ UNCHANGED <<config_lock, grace>>
  /\ UNCHANGED <<dbVars, conn_lock, connVars, readers, threadVars, w_cd,
                 w_con>>

\* Every reader the synchronisation waited for has left its section.
gc_sync_done ==
  /\ w_pc = "wait"
  /\ grace = {}
  /\ config_lock' = None
  /\ w_pc' = "reap"
  /\ UNCHANGED <<dbVars, conn_lock, connVars, ebrVars, threadVars, w_cd,
                 w_con>>

\* The reap loop: stop at a connection that is still referenced.
gc_reap(c) ==
  /\ w_pc = "reap"
  /\ c \in cd_gclist[w_cd]
  /\ \/ /\ ~Unreferenced(c)
        /\ w_pc' = "start"
        /\ UNCHANGED w_con
     \/ /\ Unreferenced(c)
        /\ w_con' = c
        /\ w_pc' = "destroy"
  /\ UNCHANGED <<dbVars, lockVars, connVars, ebrVars, threadVars, w_cd>>

gc_reap_done ==
  /\ w_pc = "reap"
  /\ cd_gclist[w_cd] = {}
  /\ w_pc' = "start"
  /\ UNCHANGED <<dbVars, lockVars, connVars, ebrVars, threadVars, w_cd,
                 w_con>>

\* LIST_REMOVE and npf_conn_destroy: NAT entry, then the memory.
npf_conn_destroy ==
  /\ w_pc = "destroy"
  /\ cd_gclist' = [cd_gclist EXCEPT ![w_cd] = @ \ {w_con}]
  /\ c_nat' = [c_nat EXCEPT ![w_con] = FALSE]
  /\ c_flags' = [c_flags EXCEPT ![w_con] = {}]
  /\ c_forw' = [c_forw EXCEPT ![w_con] = None]
  /\ c_back' = [c_back EXCEPT ![w_con] = None]
  /\ pool' = pool \cup {w_con}
  /\ w_con' = None
  /\ w_pc' = "reap"
  /\ UNCHANGED <<conn_db, conn_tracking, cd_map, cd_new, cd_list, lockVars,
                 c_refcnt, c_lock, ebrVars, threadVars, w_cd>>

\* npf_conndb_export: npf_conndb_getlist migrates the new connections too.
npf_conndb_export ==
  /\ conn_lock = None
  /\ conn_tracking
  /\ cd_new[conn_db] # {}
  /\ npf_conndb_update(conn_db)
  /\ UNCHANGED <<conn_db, conn_tracking, cd_map, cd_gclist, lockVars, connVars,
                 ebrVars, threadVars, workerVars>>

-----------------------------------------------------------------------------
ThreadNext(t) ==
  \/ \E k \in PktKeys : npf_conn_inspect(t, k)
  \/ npf_config_read_enter(t)
  \/ npf_conndb_lookup(t)
  \/ conndb_lookup_ref(t)
  \/ \E match \in BOOLEAN : npf_conn_lookup(t, match)
  \/ \E ok \in BOOLEAN : conn_inspect_state(t, ok)
  \/ packet_untracked(t)
  \/ \E c \in Conns, ncon \in BOOLEAN : npf_conn_establish(t, c, ncon)
  \/ establish_insert_forw(t)
  \/ establish_insert_back(t)
  \/ establish_duplicate(t)
  \/ establish_enqueue(t)
  \/ \E k \in NatKeys : npf_conn_setnat(t, k)
  \/ \E ok \in BOOLEAN : setnat_insert(t, ok)
  \/ do_nat_failed(t)
  \/ npf_conn_expire(t)
  \/ npf_conn_release(t)
  \/ conn_release_ref(t)

WorkerNext ==
  \/ npf_conn_worker
  \/ npf_conndb_gc
  \/ \E c \in Conns : npf_conndb_gc_incr(c)
  \/ npf_conn_remove
  \/ conn_remove_back
  \/ gc_scan_done
  \/ gc_sync
  \/ gc_sync_done
  \/ \E c \in Conns : gc_reap(c)
  \/ gc_reap_done
  \/ npf_conn_destroy

EnvNext ==
  \/ \E c \in Conns : natpolicy_expire(c)
  \/ npf_conndb_export

Next ==
  \/ \E t \in Threads : ThreadNext(t)
  \/ WorkerNext
  \/ EnvNext

Spec == Init /\ [][Next]_vars

-----------------------------------------------------------------------------
(* Properties.                                                             *)

\* Threads that hold a reference to a connection, and those that use it at
\* all: the difference is the window in npf_conndb_lookup between thmap_get
\* and the increment, and the duplicate that npf_conn_establish enqueues.
Holders(c) == {t \in Threads : t_con[t] = c /\ pc[t] \in RefPCs}
Users(c) == {t \in Threads : t_con[t] = c /\ pc[t] \in ConPCs}
Listed(d) == cd_new[d] \cup cd_list[d] \cup cd_gclist[d]

\* c_refcnt is exactly the number of references: no path of lookup,
\* establish, setnat or release leaks one or gives one back twice.
RefcntExact == \A c \in Conns : c_refcnt[c] = Cardinality(Holders(c))

\* The memory of a connection is never in the pool while a thread, the
\* worker, a map entry or a list of a database still refers to it
\* (npf_conn_destroy against npf_conndb_lookup and npf_conn_establish).
NoUseAfterFree ==
  /\ \A t \in Threads : pc[t] \in ConPCs => t_con[t] \in Conns \ pool
  /\ w_pc \in {"remove_forw", "remove_back", "destroy"} => w_con \in Conns \ pool
  /\ \A d \in DBs, k \in Keys : cd_map[<<d, k>>] \notin pool
  /\ \A d \in DBs : Listed(d) \cap pool = {}

\* The KASSERT(ret == con) of every npf_conndb_remove: whoever removes an
\* entry of a connection finds that connection under the key.
RemoveFindsConn ==
  /\ \A t \in Threads :
       pc[t] \in {"insert_back", "nat_insert"} =>
         cd_map[<<t_cd[t], c_forw[t_con[t]]>>] = t_con[t]
  /\ \A t \in Threads :
       (pc[t] = "held" /\ c_lock[t_con[t]] = None
          /\ "EXPIRE" \notin c_flags[t_con[t]]) =>
         /\ "REMOVED" \notin c_flags[t_con[t]]
         /\ cd_map[<<conn_db, c_back[t_con[t]]>>] = t_con[t]
  /\ (w_pc = "remove_forw" /\ c_lock[w_con] = None
        /\ "REMOVED" \notin c_flags[w_con]) =>
       cd_map[<<w_cd, c_forw[w_con]>>] = w_con
  /\ w_pc = "remove_back" => cd_map[<<w_cd, c_back[w_con]>>] = w_con

\* The map holds an entry for a connection only under its own keys and only
\* while it is not REMOVED; a listed connection that nobody has locked is
\* reachable under both keys or is REMOVED.
MapMatchesConns ==
  /\ \A d \in DBs, k \in Keys : \A c \in Conns :
       cd_map[<<d, k>>] = c =>
         k \in {c_forw[c], c_back[c]} /\ "REMOVED" \notin c_flags[c]
  /\ \A d \in DBs : \A c \in cd_new[d] \cup cd_list[d] :
       (c_lock[c] = None /\ "REMOVED" \notin c_flags[c]) =>
         \A k \in {c_forw[c], c_back[c]} : cd_map[<<d, k>>] = c

\* A connection is on one list of one database from npf_conndb_enqueue until
\* its destruction, and never on two: the lists share the link fields (c_next
\* and c_entry are a union).
OnOneList ==
  /\ \A d \in DBs :
       /\ cd_new[d] \cap cd_list[d] = {}
       /\ cd_new[d] \cap cd_gclist[d] = {}
       /\ cd_list[d] \cap cd_gclist[d] = {}
  /\ \A d1, d2 \in DBs : d1 # d2 => Listed(d1) \cap Listed(d2) = {}
  /\ \A c \in Conns :
       (\A d \in DBs : c \notin Listed(d)) <=>
         \/ c \in pool
         \/ \E t \in Threads : t_con[t] = c /\ pc[t] \in NewPCs

\* "Connection will be activated on the first reference release": until then
\* no other thread gets past npf_conn_check with it, so that npf_conn_setpass
\* and npf_conn_setnat of the establishing thread are not raced.
EmbryonicIsPrivate ==
  \A c \in Conns : "ACTIVE" \notin c_flags[c] =>
    \A t1, t2 \in Threads :
      (\A t \in {t1, t2} : t_con[t] = c /\ pc[t] \in ConPCs \ {"ref", "check"})
        => t1 = t2

\* A step that frees a connection finds it without users, unlinked and
\* expired.
DestroyOnlyUnused ==
  [][\A c \in pool' \ pool :
        /\ Users(c) = {}
        /\ \A d \in DBs, k \in Keys : cd_map[<<d, k>>] # c
        /\ {"REMOVED", "EXPIRE"} \subseteq c_flags[c]]_vars
====
