------------------------------- MODULE NpfWorker -------------------------------
(***************************************************************************)
(* The threads of NPF and what they wait for: npf_worker.c, the life of an *)
(* instance in npf.c, the locks of npf_config_load() and npf_config_fini() *)
(* in npf_conf.c and of npf_conndb_gc() in npf_conndb.c.                   *)
(*                                                                         *)
(* Worker threads serve all instances.  Each instance has a thread that    *)
(* creates it, reloads its configuration and destroys it, and a thread     *)
(* that handles packets.  They wait for the lock of the workers, the       *)
(* config_lock and the conn_lock of an instance, the two condition         *)
(* variables of the workers, the readers of a grace period and the         *)
(* references to connections.                                              *)
(***************************************************************************)
EXTENDS Integers, Sequences, FiniteSets, SequencesExt

CONSTANTS
  Instances, Workers,
  Handling        \* the instances that are given packets

VARIABLES
  sys,            \* "off", "up", "failed", "fini": npfk_sysinit and npfk_sysfini
  exit,           \* winfo->exit
  instances,      \* winfo->instances
  lock,           \* holder of winfo->lock
  cv, exit_cv,    \* who waits on the two condition variables
  worker_flags,   \* per instance
  config_lock, conn_lock,   \* per instance, the holder
  conn_tracking,  \* per instance
  ebr,            \* per instance, the workers registered for EBR
  alive,          \* the instances that are allocated
  drain,          \* per thread, the instance whose reader it waits for, or None
  w_pc, w_cur, w_next,      \* the workers: npf and next of npf_worker()
  c_pc, c_op,     \* per instance, its control thread: where, and what it does
  p_pc,           \* per instance, its packet thread
  ref             \* per instance, the connection the packet refers to: of the
                  \* current or of the old database

cvars == <<c_pc, c_op>>
wvars == <<w_pc, w_cur, w_next>>
locks == <<lock, config_lock, conn_lock>>
vars == <<sys, exit, instances, cv, exit_cv, worker_flags, conn_tracking, ebr, alive, drain,
          wvars, locks, cvars, p_pc, ref>>

None == "none"
Threads == Workers \cup Instances   \* an instance stands for its control thread

Init ==
  /\ sys = "off" /\ exit = FALSE /\ instances = <<>> /\ lock = None
  /\ cv = {} /\ exit_cv = {}
  /\ worker_flags = [n \in Instances |-> {}]
  /\ config_lock = [n \in Instances |-> None] /\ conn_lock = [n \in Instances |-> None]
  /\ conn_tracking = [n \in Instances |-> FALSE]
  /\ ebr = [n \in Instances |-> {}]
  /\ alive = {}
  /\ drain = [t \in Threads |-> None]
  /\ w_pc = [w \in Workers |-> "dead"]
  /\ w_cur = [w \in Workers |-> None] /\ w_next = [w \in Workers |-> None]
  /\ c_pc = [n \in Instances |-> None] /\ c_op = [n \in Instances |-> None]
  /\ p_pc = [n \in Instances |-> "idle"]
  /\ ref = [n \in Instances |-> None]

\* npf_ebr_full_sync: wait for the reader that is inside now.
Inside(n) == p_pc[n] \in {"read", "alg_nomem"}
Grace(t, n) == drain' = [drain EXCEPT ![t] = IF Inside(n) THEN n ELSE None]
Drained(t) == drain[t] = None

\* The workers that were woken have to take the lock again.
Wake(S) ==
  /\ cv' = cv \ S
  /\ w_pc' = [w \in Workers |-> IF w \in S THEN "lock" ELSE w_pc[w]]
cv_signal == IF cv = {} THEN UNCHANGED <<cv, w_pc>> ELSE \E w \in cv : Wake({w})

-----------------------------------------------------------------------------
(* The workers.                                                             *)

\* npf_worker_sysinit; when a thread cannot be created it calls
\* npf_worker_sysfini, which stops the others.
npf_worker_sysinit ==
  /\ sys = "off"
  /\ \E S \in SUBSET Workers :
       /\ w_pc' = [w \in Workers |-> IF w \in S THEN "lock" ELSE "dead"]
       /\ sys' = IF S = Workers THEN "up" ELSE "failed"
  /\ UNCHANGED <<exit, instances, cv, exit_cv, worker_flags, conn_tracking, ebr, alive, drain,
                 w_cur, w_next, locks, cvars, p_pc, ref>>

\* "NPF instances must be discharged before the npfk_sysfini() call".
npf_worker_sysfini ==
  /\ sys = "failed" \/ (sys = "up" /\ alive = {})
  /\ lock = None
  /\ sys' = "fini" /\ exit' = TRUE
  /\ Wake(cv)
  /\ UNCHANGED <<instances, exit_cv, worker_flags, conn_tracking, ebr, alive, drain,
                 w_cur, w_next, locks, cvars, p_pc, ref>>

\* Wait for them to finish.
kthread_join ==
  /\ sys = "fini" /\ \A w \in Workers : w_pc[w] = "dead"
  /\ sys' = "off" /\ exit' = FALSE
  /\ UNCHANGED <<instances, cv, exit_cv, worker_flags, conn_tracking, ebr, alive, drain,
                 wvars, locks, cvars, p_pc, ref>>

First(s) == IF s = <<>> THEN None ELSE s[1]
LIST_NEXT(n) ==
  LET i == CHOOSE i \in DOMAIN instances : instances[i] = n
  IN  IF i = Len(instances) THEN None ELSE instances[i + 1]

\* npf = next
Proceed(w) ==
  /\ w_pc' = [w_pc EXCEPT ![w] = "iter"]
  /\ w_cur' = [w_cur EXCEPT ![w] = w_next[w]] /\ w_next' = [w_next EXCEPT ![w] = None]

\* npf_worker: the lock is held from here until the worker sleeps.
worker_enter(w) ==
  /\ w_pc[w] = "lock" /\ lock = None
  /\ lock' = w
  /\ w_pc' = [w_pc EXCEPT ![w] = "iter"]
  /\ w_cur' = [w_cur EXCEPT ![w] = First(instances)]
  /\ UNCHANGED <<sys, exit, instances, cv, exit_cv, worker_flags, conn_tracking, ebr, alive, drain,
                 w_next, config_lock, conn_lock, cvars, p_pc, ref>>

worker_sleep(w) ==
  /\ w_pc[w] = "iter" /\ w_cur[w] = None
  /\ lock' = None
  /\ w_pc' = [w_pc EXCEPT ![w] = IF exit THEN "dead" ELSE "wait"]
  /\ cv' = IF exit THEN cv ELSE cv \cup {w}
  /\ UNCHANGED <<sys, exit, instances, exit_cv, worker_flags, conn_tracking, ebr, alive, drain,
                 w_cur, w_next, config_lock, conn_lock, cvars, p_pc, ref>>

\* The timeout of cv_timedwait.
worker_timeout_none(w) ==
  /\ w \in cv /\ exit /\ Wake({w})
  /\ UNCHANGED <<sys, exit, instances, exit_cv, worker_flags, conn_tracking, ebr, alive, drain,
                 w_cur, w_next, locks, cvars, p_pc, ref>>
worker_timeout(w) ==
  /\ w \in cv /\ Wake({w})
  /\ UNCHANGED <<sys, exit, instances, exit_cv, worker_flags, conn_tracking, ebr, alive, drain,
                 w_cur, w_next, locks, cvars, p_pc, ref>>

\* process_npf_instance: the instance is removed, or registered (once) and
\* its jobs are run.
process_npf_instance(w) ==
  LET n == w_cur[w]
      remove == "REMOVE" \in worker_flags[n]
      inited == "INITED" \in worker_flags[n]
  IN  /\ w_pc[w] = "iter" /\ n # None
      /\ w_next' = [w_next EXCEPT ![w] = LIST_NEXT(n)]
      /\ IF remove
         THEN /\ w_pc' = [w_pc EXCEPT ![w] = "remove"]
              /\ IF inited THEN Grace(w, n) ELSE UNCHANGED drain
              /\ UNCHANGED <<ebr, worker_flags>>
         ELSE /\ w_pc' = [w_pc EXCEPT ![w] = "gc"]
              /\ ebr' = IF inited THEN ebr ELSE [ebr EXCEPT ![n] = @ \cup {w}]
              /\ worker_flags' = [worker_flags EXCEPT ![n] = @ \cup {"INITED"}]
              /\ UNCHANGED drain
      /\ UNCHANGED <<sys, exit, instances, cv, exit_cv, conn_tracking, alive, w_cur, locks,
                     cvars, p_pc, ref>>

\* remove_npf_instance, after the grace period of npfk_thread_unregister.
remove_npf_instance_quiet(w) ==
  LET n == w_cur[w]
  IN  /\ w_pc[w] = "remove" /\ Drained(w)
      /\ ebr' = IF "INITED" \in worker_flags[n] THEN [ebr EXCEPT ![n] = @ \ {w}] ELSE ebr
      /\ instances' = SelectSeq(instances, LAMBDA i : i # n)
      /\ worker_flags' = [worker_flags EXCEPT ![n] = {}]
      /\ Proceed(w)
      /\ UNCHANGED <<sys, exit, cv, exit_cv, conn_tracking, alive, drain, locks, cvars, p_pc, ref>>
remove_npf_instance(w) ==
  LET n == w_cur[w]
  IN  /\ w_pc[w] = "remove" /\ Drained(w)
      /\ ebr' = IF "INITED" \in worker_flags[n] THEN [ebr EXCEPT ![n] = @ \ {w}] ELSE ebr
      /\ instances' = SelectSeq(instances, LAMBDA i : i # n)
      /\ worker_flags' = [worker_flags EXCEPT ![n] = {}]
      /\ exit_cv' = {}
      /\ Proceed(w)
      /\ UNCHANGED <<sys, exit, cv, conn_tracking, alive, drain, locks, cvars, p_pc, ref>>

\* npf_conn_worker: npf_conndb_gc scans under the conn_lock, drops it "(see
\* the lock order)" and, if it unlinked anything, waits for a grace period
\* under the config_lock.
gc_enter(w) ==
  LET n == w_cur[w]
  IN  /\ w_pc[w] = "gc" /\ conn_lock[n] = None
      /\ conn_lock' = [conn_lock EXCEPT ![n] = w]
      /\ w_pc' = [w_pc EXCEPT ![w] = "scan"]
      /\ UNCHANGED <<sys, exit, instances, cv, exit_cv, worker_flags, conn_tracking, ebr, alive, drain,
                     w_cur, w_next, lock, config_lock, cvars, p_pc, ref>>

gc_scan_hold(w) ==
  /\ w_pc[w] = "scan"
  /\ \/ w_pc' = [w_pc EXCEPT ![w] = "sync"] /\ UNCHANGED <<w_cur, w_next, conn_lock>>
     \/ Proceed(w) /\ conn_lock' = [conn_lock EXCEPT ![w_cur[w]] = None]
  /\ UNCHANGED <<sys, exit, instances, cv, exit_cv, worker_flags, conn_tracking, ebr, alive, drain,
                 lock, config_lock, cvars, p_pc, ref>>
gc_scan(w) ==
  /\ w_pc[w] = "scan"
  /\ conn_lock' = [conn_lock EXCEPT ![w_cur[w]] = None]
  /\ \/ w_pc' = [w_pc EXCEPT ![w] = "sync"] /\ UNCHANGED <<w_cur, w_next>>
     \/ Proceed(w)
  /\ UNCHANGED <<sys, exit, instances, cv, exit_cv, worker_flags, conn_tracking, ebr, alive, drain,
                 lock, config_lock, cvars, p_pc, ref>>

gc_config_enter(w) ==
  LET n == w_cur[w]
  IN  /\ w_pc[w] = "sync" /\ config_lock[n] = None
      /\ config_lock' = [config_lock EXCEPT ![n] = w]
      /\ Grace(w, n)
      /\ w_pc' = [w_pc EXCEPT ![w] = "grace"]
      /\ UNCHANGED <<sys, exit, instances, cv, exit_cv, worker_flags, conn_tracking, ebr, alive,
                     w_cur, w_next, lock, conn_lock, cvars, p_pc, ref>>

\* What still has references is left for the next time.
gc_config_exit(w) ==
  LET n == w_cur[w]
  IN  /\ w_pc[w] = "grace" /\ Drained(w)
      /\ config_lock' = [config_lock EXCEPT ![n] = None]
      /\ Proceed(w)
      /\ UNCHANGED <<sys, exit, instances, cv, exit_cv, worker_flags, conn_tracking, ebr, alive, drain,
                     lock, conn_lock, cvars, p_pc, ref>>

-----------------------------------------------------------------------------
(* The control thread of an instance.                                       *)

At(n, from, to) == c_pc[n] = from /\ c_pc' = [c_pc EXCEPT ![n] = to]

\* npfk_create; the empty configuration leaves connection tracking off; with
\* NPF_NO_GC the instance is not given to the workers.
npfk_create(n) ==
  /\ sys = "up" /\ c_pc[n] = None
  /\ alive' = alive \cup {n}
  /\ \E to \in {"enlist", "ready"} : At(n, None, to)
  /\ UNCHANGED <<sys, exit, instances, cv, exit_cv, worker_flags, conn_tracking, ebr, drain,
                 wvars, locks, c_op, p_pc, ref>>

npf_worker_enlist(n) ==
  /\ At(n, "enlist", "ready") /\ lock = None
  /\ instances' = <<n>> \o instances
  /\ worker_flags' = [worker_flags EXCEPT ![n] = {"ACTIVE"}]
  /\ UNCHANGED <<sys, exit, cv, exit_cv, conn_tracking, ebr, alive, drain, wvars, locks, c_op, p_pc, ref>>

\* npfk_load: a plain reload, one with a new connection database, or a flush.
npfk_load(n) ==
  /\ At(n, "ready", "config")
  /\ \E op \in {"reload", "load", "flush"} : c_op' = [c_op EXCEPT ![n] = op]
  /\ UNCHANGED <<sys, exit, instances, cv, exit_cv, worker_flags, conn_tracking, ebr, alive, drain,
                 wvars, locks, p_pc, ref>>

\* npfk_destroy, when no packet is handled any more.
npfk_destroy(n) ==
  /\ At(n, "ready", IF "ACTIVE" \in worker_flags[n] THEN "discharge" ELSE "config")
  /\ p_pc[n] = "idle"
  /\ c_op' = [c_op EXCEPT ![n] = "fini"]
  /\ UNCHANGED <<sys, exit, instances, cv, exit_cv, worker_flags, conn_tracking, ebr, alive, drain,
                 wvars, locks, p_pc, ref>>

\* npf_worker_discharge: the request, and the wait for it.
npf_worker_discharge_nowait(n) ==
  /\ At(n, "discharge", "config") /\ lock = None
  /\ worker_flags' = [worker_flags EXCEPT ![n] = @ \cup {"REMOVE"}]
  /\ Wake(cv)
  /\ UNCHANGED <<sys, exit, instances, exit_cv, conn_tracking, ebr, alive, drain, w_cur, w_next, locks,
                 c_op, p_pc, ref>>
npf_worker_discharge(n) ==
  /\ At(n, "discharge", "wait") /\ lock = None
  /\ worker_flags' = [worker_flags EXCEPT ![n] = @ \cup {"REMOVE"}]
  /\ exit_cv' = exit_cv \cup {n}
  /\ Wake(cv)
  /\ UNCHANGED <<sys, exit, instances, conn_tracking, ebr, alive, drain, w_cur, w_next, locks,
                 c_op, p_pc, ref>>
discharge_wait(n) ==
  /\ c_pc[n] = "wait" /\ n \notin exit_cv /\ lock = None
  /\ IF "ACTIVE" \in worker_flags[n] THEN exit_cv' = exit_cv \cup {n} /\ UNCHANGED c_pc
     ELSE At(n, "wait", "config") /\ UNCHANGED exit_cv
  /\ UNCHANGED <<sys, exit, instances, cv, worker_flags, conn_tracking, ebr, alive, drain, wvars, locks,
                 c_op, p_pc, ref>>

NewDb(n) == c_op[n] \in {"load", "fini"}

\* npf_config_load and npf_config_fini: the config_lock is held over the
\* grace period and until the old connections are gone.
config_enter(n) ==
  /\ At(n, "config", "grace") /\ config_lock[n] = None
  /\ config_lock' = [config_lock EXCEPT ![n] = n]
  /\ conn_tracking' = [conn_tracking EXCEPT ![n] = @ /\ c_op[n] = "reload"]
  /\ Grace(n, n)
  /\ UNCHANGED <<sys, exit, instances, cv, exit_cv, worker_flags, ebr, alive, wvars, lock, conn_lock,
                 c_op, p_pc, ref>>

\* npf_conn_load: replace the database, if there is a new one.
npf_conn_load(n) ==
  /\ Drained(n) /\ conn_lock[n] = None
  /\ At(n, "grace", IF NewDb(n) THEN "flush" ELSE "exit")
  /\ conn_tracking' = [conn_tracking EXCEPT ![n] = @ \/ c_op[n] \in {"reload", "load"}]
  /\ ref' = [ref EXCEPT ![n] = IF NewDb(n) /\ @ = "current" THEN "old" ELSE @]
  /\ UNCHANGED <<sys, exit, instances, cv, exit_cv, worker_flags, ebr, alive, drain, wvars, locks,
                 c_op, p_pc>>

\* npf_conndb_gc(flush): unlink everything, then wait for the references.
conndb_flush(n) ==
  /\ At(n, "flush", "reap") /\ conn_lock[n] = None
  /\ UNCHANGED <<sys, exit, instances, cv, exit_cv, worker_flags, conn_tracking, ebr, alive, drain,
                 wvars, locks, c_op, p_pc, ref>>
conndb_reap(n) ==
  /\ At(n, "reap", "exit") /\ ref[n] # "old"
  /\ UNCHANGED <<sys, exit, instances, cv, exit_cv, worker_flags, conn_tracking, ebr, alive, drain,
                 wvars, locks, c_op, p_pc, ref>>

\* The lock is dropped; an instance that is being destroyed is freed, and a
\* dropped NAT policy may still have connections.
config_exit(n) ==
  /\ \E to \in IF c_op[n] = "fini" THEN {None} ELSE {"kick", "ready"} : At(n, "exit", to)
  /\ config_lock' = [config_lock EXCEPT ![n] = None]
  /\ c_op' = [c_op EXCEPT ![n] = None]
  /\ alive' = IF c_op[n] = "fini" THEN alive \ {n} ELSE alive
  /\ UNCHANGED <<sys, exit, instances, cv, exit_cv, worker_flags, conn_tracking, ebr, drain,
                 wvars, lock, conn_lock, p_pc, ref>>

\* npf_worker_signal
npf_worker_signal(n) ==
  /\ "ACTIVE" \in worker_flags[n] => lock = None
  /\ IF "ACTIVE" \in worker_flags[n] THEN cv_signal ELSE UNCHANGED <<cv, w_pc>>
  /\ UNCHANGED <<sys, exit, instances, exit_cv, worker_flags, conn_tracking, ebr, alive,
                 w_cur, w_next, locks, c_op>>

\* npf_config_destroy of the old configuration: npf_natpolicy_destroy kicks
\* the worker for the connections of the policy.
config_destroy(n) ==
  /\ At(n, "kick", "ready")
  /\ npf_worker_signal(n)
  /\ UNCHANGED <<drain, p_pc, ref>>

-----------------------------------------------------------------------------
(* The packet thread of an instance.                                        *)

Handlers(n) ==
  n \in Handling \cap alive /\ c_pc[n] # "enlist" /\ c_op[n] # "fini"

npf_config_read_enter(n) ==
  /\ p_pc[n] = "idle" /\ Handlers(n)
  /\ p_pc' = [p_pc EXCEPT ![n] = "read"]
  /\ UNCHANGED <<sys, exit, instances, cv, exit_cv, worker_flags, conn_tracking, ebr, alive, drain,
                 wvars, locks, cvars, ref>>

ReadExit(n) == drain' = [t \in Threads |-> IF drain[t] = n THEN None ELSE drain[t]]

\* The packet leaves the section with nothing, with a connection, or to
\* establish one for which there is no memory.
npf_config_read_exit(n) ==
  /\ p_pc[n] = "read"
  /\ \/ \E to \in {"idle", "nomem"} : p_pc' = [p_pc EXCEPT ![n] = to] /\ UNCHANGED ref
     \/ /\ conn_tracking[n]
        /\ p_pc' = [p_pc EXCEPT ![n] = "conn"] /\ ref' = [ref EXCEPT ![n] = "current"]
  /\ ReadExit(n)
  /\ UNCHANGED <<sys, exit, instances, cv, exit_cv, worker_flags, conn_tracking, ebr, alive,
                 wvars, locks, cvars>>

npf_conn_release(n) ==
  /\ p_pc[n] = "conn"
  /\ p_pc' = [p_pc EXCEPT ![n] = "idle"] /\ ref' = [ref EXCEPT ![n] = None]
  /\ UNCHANGED <<sys, exit, instances, cv, exit_cv, worker_flags, conn_tracking, ebr, alive, drain,
                 wvars, locks, cvars>>

\* npf_conn_establish without memory, outside of the section.
conn_nomem(n) ==
  /\ p_pc[n] = "nomem" /\ p_pc' = [p_pc EXCEPT ![n] = "idle"]
  /\ npf_worker_signal(n)
  /\ UNCHANGED <<c_pc, drain, ref>>

-----------------------------------------------------------------------------
Sys == npf_worker_sysinit \/ npf_worker_sysfini \/ kthread_join
Worker(w) ==
  \/ worker_enter(w) \/ worker_sleep(w) \/ worker_timeout(w) \/ process_npf_instance(w)
  \/ remove_npf_instance(w) \/ gc_enter(w) \/ gc_scan(w) \/ gc_config_enter(w) \/ gc_config_exit(w)
Called(n) ==
  \/ npf_worker_enlist(n) \/ npf_worker_discharge(n) \/ discharge_wait(n)
  \/ config_enter(n) \/ npf_conn_load(n) \/ conndb_flush(n) \/ conndb_reap(n)
  \/ config_exit(n) \/ config_destroy(n)
Control(n) == npfk_create(n) \/ npfk_load(n) \/ npfk_destroy(n) \/ Called(n)
Packet(n) ==
  \/ npf_config_read_enter(n) \/ npf_config_read_exit(n) \/ npf_conn_release(n) \/ conn_nomem(n)

Next == Sys \/ (\E w \in Workers : Worker(w)) \/ (\E n \in Instances : Control(n) \/ Packet(n))

\* Threads run: what was called goes on, packets that are being handled
\* leave, sleeping workers time out.  A mutex does not starve a thread that
\* waits for it.  Nobody has to create, load or destroy anything.
PacketGoesOn(n) ==
  npf_config_read_exit(n) \/ npf_conn_release(n) \/ conn_nomem(n)
Fairness ==
  /\ WF_vars(kthread_join)
  /\ \A w \in Workers : SF_vars(Worker(w))
  /\ \A n \in Instances : SF_vars(Called(n))
  /\ \A n \in Handling : SF_vars(PacketGoesOn(n))

Spec == Init /\ [][Next]_vars /\ Fairness

-----------------------------------------------------------------------------
(* Properties.                                                              *)

\* What a worker is at, and what it goes on with, is an instance that exists:
\* npfk_destroy() frees it only after npf_worker_discharge(), and a worker
\* that removed one goes on with the next that it noted before.  It collects
\* the connections of an instance, and leaves its EBR, only as a thread that
\* npfk_thread_register() registered there.  That needs that there is one
\* worker: WFLAG_INITED is set by the first that comes along.
WorkerSound ==
  /\ ToSet(instances) \subseteq alive
  /\ \A w \in Workers :
       /\ w_pc[w] # "dead" => {w_cur[w], w_next[w]} \subseteq alive \cup {None}
       /\ w_pc[w] \in {"gc", "scan", "sync", "grace"} => w \in ebr[w_cur[w]]
       /\ w_pc[w] = "remove" /\ "INITED" \in worker_flags[w_cur[w]] => w \in ebr[w_cur[w]]

\* An enlisted instance is served again and again, until it is discharged:
\* no instance, reload or packet keeps the workers from it for ever.
WorkersServe ==
  \A n \in Instances :
    []<>("ACTIVE" \notin worker_flags[n] \/ \E w \in Workers : w_pc[w] = "gc" /\ w_cur[w] = n)

\* npfk_load() returns, although it waits for readers, connections and locks
\* while a worker holds its lock and waits for the config_lock.
LoadReturns ==
  \A n \in Instances : (c_pc[n] = "config" /\ c_op[n] # "fini") ~> c_pc[n] = "ready"

\* npfk_destroy() and npfk_sysfini() return: the worker sees the request,
\* whatever it is at, and nobody sleeps through the notification.
DestroyReturns ==
  /\ \A n \in Instances : c_pc[n] = "discharge" ~> c_pc[n] = None
  /\ sys = "fini" ~> sys = "off"
====
