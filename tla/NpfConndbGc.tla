---------------------------- MODULE NpfConndbGc ------------------------------
(***************************************************************************)
(* The incremental G/C of one connection database (npf_conndb.c) with the  *)
(* order of its lists: the circular scan that resumes at cd_marker and     *)
(* looks at gc.step connections, and the reap loop that stops at the first *)
(* connection still referenced.  NpfConn has the lists as sets and the     *)
(* references one by one; here a connection is referenced or it is not.    *)
(***************************************************************************)
EXTENDS Integers, SequencesExt

CONSTANTS
  Conns,   \* the memory of the connection pool cache
  Steps,   \* values of npf_conndb_params_t::step ("gc.step")
  None     \* a NULL pointer

ASSUME StepAssumption == Steps \subseteq Nat \ {0} /\ None \notin Conns

VARIABLES
  cd_new, cd_list, cd_gclist, cd_marker,
  expire, removed,   \* connections with CONN_EXPIRE, with CONN_REMOVED
  refd,              \* connections with a reference (c_refcnt > 0)
  gc_pc,             \* npf_conndb_gc
  con, gc_target,    \* locals of npf_conndb_gc_incr
  seen               \* history: connections inspected in this pass

lists == <<cd_new, cd_list, cd_gclist>>
flags == <<expire, removed>>
scanVars == <<cd_marker, con, gc_target, seen>>
gcVars == <<lists, flags, refd, gc_pc, scanVars>>

Listed == ToSet(cd_new) \cup ToSet(cd_list) \cup ToSet(cd_gclist)
pool == Conns \ Listed

GcTypeOK ==
  /\ \A s \in {cd_new, cd_list, cd_gclist} : s \in Seq(Conns)
  /\ {cd_marker, con} \subseteq Conns \cup {None}
  /\ expire \subseteq Listed /\ removed \subseteq expire /\ refd \subseteq Listed
  /\ gc_pc \in {"start", "scan", "sync", "reap"}
  /\ gc_target \in Nat
  /\ seen \subseteq Conns

GcInit ==
  /\ cd_new = <<>> /\ cd_list = <<>> /\ cd_gclist = <<>>
  /\ cd_marker = None /\ con = None /\ gc_target = 0 /\ seen = {}
  /\ expire = {} /\ removed = {} /\ refd = {}
  /\ gc_pc = "start"

-----------------------------------------------------------------------------
(* Packet processing, as far as the database can tell.                     *)

\* npf_conn_establish and npf_conndb_enqueue; a duplicate is born removed
\* and without a reference.
npf_conndb_enqueue(c, dup) ==
  /\ c \in pool
  /\ cd_new' = <<c>> \o cd_new
  /\ expire' = IF dup THEN expire \cup {c} ELSE expire
  /\ removed' = IF dup THEN removed \cup {c} ELSE removed
  /\ refd' = IF dup THEN refd ELSE refd \cup {c}
  /\ UNCHANGED <<cd_list, cd_gclist, gc_pc, scanVars>>

\* npf_conndb_lookup finds what is in the map.
npf_conndb_lookup(c) ==
  /\ c \in Listed \ removed
  /\ refd' = refd \cup {c}
  /\ UNCHANGED <<lists, flags, gc_pc, scanVars>>

\* npf_conn_release of the last reference.
npf_conn_release(c) ==
  /\ c \in refd
  /\ refd' = refd \ {c}
  /\ UNCHANGED <<lists, flags, gc_pc, scanVars>>

\* npf_conn_expire; npf_conn_setnat on a duplicate unlinks the connection too.
npf_conn_expire(c, unlink) ==
  /\ c \in Listed \ expire
  /\ unlink => c \in refd
  /\ expire' = expire \cup {c}
  /\ removed' = IF unlink THEN removed \cup {c} ELSE removed
  /\ UNCHANGED <<lists, refd, gc_pc, scanVars>>

-----------------------------------------------------------------------------
(* The worker.                                                             *)

npf_conndb_update == cd_list' = Reverse(cd_new) \o cd_list /\ cd_new' = <<>>

\* Circular iteration; c is on the list.  Mutant: every other connection.
npf_conndb_getnext_skip(c) ==
  LET i == CHOOSE j \in DOMAIN cd_list : cd_list[j] = c IN
  cd_list[IF i + 1 >= Len(cd_list) THEN 1 ELSE i + 2]
npf_conndb_getnext(c) ==
  LET i == CHOOSE j \in DOMAIN cd_list : cd_list[j] = c IN
  cd_list[IF i = Len(cd_list) THEN 1 ELSE i + 1]

\* npf_conndb_gc under conn_lock, and the start of npf_conndb_gc_incr.
npf_conndb_gc ==
  /\ gc_pc = "start"
  /\ npf_conndb_update
  /\ con' = IF cd_marker # None THEN cd_marker
            ELSE IF cd_list' = <<>> THEN None ELSE Head(cd_list')
  /\ cd_marker' = con'
  /\ gc_target' \in Steps
  /\ seen' = {}
  /\ gc_pc' = "scan"
  /\ UNCHANGED <<cd_gclist, flags, refd>>

\* The scan ends with "con" as the marker of the next pass.
ScanEnd(c) == cd_marker' = c /\ con' = None /\ gc_pc' = "sync"

\* Go on with the next connection, unless the scan is back at the marker.
Advance(next) ==
  \/ next = cd_marker /\ ScanEnd(next)
  \/ next # cd_marker /\ con' = next /\ UNCHANGED <<cd_marker, gc_pc>>

\* One iteration on a connection that is not expired.
gc_incr_keep ==
  /\ gc_pc = "scan" /\ con # None /\ gc_target > 0
  /\ con \notin expire
  /\ gc_target' = gc_target - 1
  /\ seen' = seen \cup {con}
  /\ Advance(npf_conndb_getnext(con))
  /\ UNCHANGED <<lists, flags, refd>>

\* A connection that leaves the list cannot stay the marker.  Mutant: it may.
NewMarker_stale(next) == con' = next /\ UNCHANGED <<cd_marker, gc_pc>>
NewMarker(next) ==
  \/ con = cd_marker /\ cd_marker' = next /\ con' = next /\ UNCHANGED gc_pc
  \/ con # cd_marker /\ Advance(next)

\* One iteration on a connection that is flagged or whose time has elapsed:
\* it moves to the G/C list and npf_conn_remove unlinks it.
gc_incr_expired ==
  LET succ == npf_conndb_getnext(con)
      next == IF succ = con THEN None ELSE succ IN
  /\ gc_pc = "scan" /\ con # None /\ gc_target > 0
  /\ gc_target' = gc_target - 1
  /\ seen' = seen \cup {con}
  /\ cd_list' = Remove(cd_list, con)
  /\ cd_gclist' = <<con>> \o cd_gclist
  /\ expire' = expire \cup {con} /\ removed' = removed \cup {con}
  /\ NewMarker(next)
  /\ UNCHANGED <<cd_new, refd>>

\* The loop condition fails: nothing (more) to scan or gc.step reached.
gc_incr_done ==
  /\ gc_pc = "scan"
  /\ con = None \/ gc_target = 0
  /\ ScanEnd(con)
  /\ UNCHANGED <<lists, flags, refd, gc_target, seen>>

\* The EBR synchronisation, without conn_lock.  A lookup that it waits for
\* counts as a reference here.
gc_sync ==
  /\ gc_pc = "sync"
  /\ gc_pc' = IF cd_gclist = <<>> THEN "start" ELSE "reap"
  /\ UNCHANGED <<lists, flags, refd, scanVars>>

\* The reap loop destroys from the head of the G/C list.  Mutant: it is left
\* at the first connection, referenced or not.
ReapStops_always == TRUE
ReapStops == Head(cd_gclist) \in refd

gc_reap ==
  /\ gc_pc = "reap" /\ cd_gclist # <<>>
  /\ \/ ReapStops /\ gc_pc' = "start" /\ UNCHANGED <<lists, flags>>
     \/ /\ ~ReapStops
        /\ cd_gclist' = Tail(cd_gclist)
        /\ expire' = expire \ {Head(cd_gclist)}
        /\ removed' = removed \ {Head(cd_gclist)}
        /\ UNCHANGED <<cd_new, cd_list, gc_pc>>
  /\ UNCHANGED <<refd, scanVars>>

gc_reap_done ==
  /\ gc_pc = "reap" /\ cd_gclist = <<>>
  /\ gc_pc' = "start"
  /\ UNCHANGED <<lists, flags, refd, scanVars>>

\* npf_conndb_export under conn_lock: npf_conndb_getlist migrates as well.
npf_conndb_getlist ==
  /\ gc_pc # "scan"
  /\ cd_new # <<>>
  /\ npf_conndb_update
  /\ UNCHANGED <<cd_gclist, flags, refd, gc_pc, scanVars>>

-----------------------------------------------------------------------------
Worker ==
  \/ npf_conndb_gc \/ gc_incr_keep \/ gc_incr_expired \/ gc_incr_done
  \/ gc_sync \/ gc_reap \/ gc_reap_done

Packets ==
  \E c \in Conns :
    \/ npf_conndb_lookup(c)
    \/ npf_conn_release(c)
    \/ \E b \in BOOLEAN : npf_conndb_enqueue(c, b) \/ npf_conn_expire(c, b)

GcNext == Worker \/ Packets \/ npf_conndb_getlist

\* The worker thread runs periodically (npf_worker); packet handlers run to
\* completion and then release what they hold.
GcFairness ==
  /\ WF_gcVars(Worker)
  /\ \A c \in Conns : WF_gcVars(npf_conn_release(c) /\ c \in removed)

GcSpec == GcInit /\ [][GcNext]_gcVars /\ GcFairness

-----------------------------------------------------------------------------
(* Properties.                                                             *)

\* cd_marker, which outlives a pass of npf_conndb_gc_incr, and the scan's own
\* position never point to a connection that has left cd_list and may be
\* destroyed by the time of the next pass.  The linking of npf_conndb_enqueue,
\* npf_conndb_update and the moves of the scan never put a connection on two
\* lists, or twice on one.
MarkerOnList ==
  /\ {cd_marker, con} \subseteq ToSet(cd_list) \cup {None}
  /\ IsInjective(cd_new \o cd_list \o cd_gclist)

\* A pass of npf_conndb_gc_incr inspects no connection twice ("Stop if we
\* scanned all of them"), and one that stops before gc.step connections has
\* inspected every one that is left on the list: the circular iteration skips
\* none.
PassComplete ==
  [][/\ gc_pc = "scan" /\ gc_pc' = "sync" /\ gc_target' > 0 => ToSet(cd_list') \subseteq seen'
     /\ gc_pc' = "scan" /\ con' # None /\ gc_target' > 0 => con' \notin seen']_gcVars

\* Every connection that is flagged to expire is scanned, unlinked and in the
\* end destroyed, whatever gc.step is, whatever arrives at the head of the
\* lists meanwhile and although the reap loop stops at a referenced one.
ExpiredIsDestroyed == \A c \in Conns : c \in expire ~> c \in pool
====
