----------------------------- MODULE NpfConnInv ------------------------------
(***************************************************************************)
(* The inductive invariant of NpfConn and the refinement mapping from it   *)
(* to ConnLifecycle.  NpfConnProofs proves from the invariant what the     *)
(* runs of NpfConn check on small instances, NpfConnRefines that NpfConn   *)
(* implements ConnLifecycle.                                               *)
(***************************************************************************)
EXTENDS NpfConn

\* Only npf_conn_load replaces the database: without it there is one.
SingleDB ==
  /\ conn_db = db0 /\ w_cd = db0
  /\ \A t \in Threads : t_cd[t] = db0
  /\ \A d \in DBs \ {db0} :
       Listed(d) = {} /\ \A k \in Keys : cd_map[<<d, k>>] = None

\* What the program counters say about local variables and the EBR section.
KeyPCs == {"enter", "get", "ref", "check", "inspect", "miss"} \cup NewPCs
ControlInv ==
  /\ \A t \in Threads :
       /\ pc[t] \in ConPCs <=> t_con[t] # None
       /\ pc[t] \in KeyPCs => t_key[t] # None
       /\ t \in readers <=> pc[t] \in {"get", "ref"}
  /\ w_pc \in {"remove_forw", "remove_back", "destroy"} <=> w_con # None
  /\ grace \subseteq readers

\* c_lock is held by the thread between establish and enqueue or inside
\* setnat, and by the worker between the two removals.
LockInv ==
  \A c \in Conns :
    /\ c_lock[c] \in Threads \cup {Worker, None}
    /\ \A t \in Threads : c_lock[c] = t <=> t_con[t] = c /\ pc[t] \in LockPCs
    /\ c_lock[c] = Worker <=> w_pc = "remove_back" /\ w_con = c

\* Free memory is referred to by nothing.
PoolInv ==
  \A c \in pool :
    /\ \A t \in Threads : t_con[t] # c
    /\ c \notin Listed(db0) /\ w_con # c
    /\ \A k \in Keys : cd_map[<<db0, k>>] # c
    /\ c_flags[c] = {} /\ ~c_nat[c]

ListInv ==
  /\ cd_new[db0] \cap cd_list[db0] = {}
  /\ cd_new[db0] \cap cd_gclist[db0] = {}
  /\ cd_list[db0] \cap cd_gclist[db0] = {}
  /\ \A t \in Threads : pc[t] \in NewPCs => t_con[t] \notin Listed(db0)
  /\ \A c \in Conns \ pool : c \notin Listed(db0) =>
       c_lock[c] \in Threads /\ pc[c_lock[c]] \in NewPCs

\* REMOVED is set when, and only when, both entries have left the map.
FlagInv ==
  /\ \A t \in Threads :
       /\ pc[t] = "enqueue_dup" => "REMOVED" \in c_flags[t_con[t]]
       /\ pc[t] \in LockPCs \ {"enqueue_dup"} => "REMOVED" \notin c_flags[t_con[t]]
  /\ w_pc = "remove_back" => "REMOVED" \notin c_flags[w_con]
  /\ \A c \in Conns : "REMOVED" \in c_flags[c] => "EXPIRE" \in c_flags[c]

\* Which entries a connection has in the map, by the phase it is in: c_lock
\* tells who is changing them.
HolderAt(c, labels) == c_lock[c] \in Threads /\ pc[c_lock[c]] \in labels
ForwLinked(c) ==
  /\ "REMOVED" \notin c_flags[c]
  /\ c_lock[c] = None \/ HolderAt(c, {"insert_back", "enqueue", "nat_insert"})
BackLinked(c) ==
  /\ "REMOVED" \notin c_flags[c]
  /\ c_lock[c] \in {None, Worker} \/ HolderAt(c, {"enqueue"})

KeyInv ==
  \A c \in Conns \ pool :
    /\ c_forw[c] \in Keys /\ c_back[c] \in Keys
    /\ "REMOVED" \in c_flags[c] \/ HolderAt(c, {"nat_insert"}) \/ c_forw[c] # c_back[c]

LinkInv ==
  \A c \in Conns \ pool, k \in Keys :
    cd_map[<<db0, k>>] = c <=> \/ ForwLinked(c) /\ k = c_forw[c]
                               \/ BackLinked(c) /\ k = c_back[c]

\* The G/C list holds unlinked connections, the worker's current one apart.
GcInv ==
  /\ \A c \in cd_gclist[db0] :
       \/ "REMOVED" \in c_flags[c]
       \/ w_pc \in {"remove_forw", "remove_back"} /\ w_con = c
  /\ w_con # None => w_con \in cd_gclist[db0]

\* The grace period: a thread that fetched a connection of the G/C list from
\* the map and has not counted itself yet is one the worker waits for, and
\* there is none once the worker reaps.
GraceInv ==
  /\ w_pc = "wait" =>
       \A t \in Threads :
         pc[t] = "ref" /\ t_con[t] \in cd_gclist[db0] => t \in grace
  /\ w_pc \in {"reap", "destroy"} =>
       \A t \in Threads : pc[t] = "ref" => t_con[t] \notin cd_gclist[db0]
  /\ w_pc = "destroy" => \A t \in Threads : t_con[t] # w_con

\* All of the invariant but the reference counts.
Core ==
  /\ TypeOK /\ SingleDB /\ ControlInv /\ LockInv /\ PoolInv /\ ListInv /\ FlagInv
  /\ KeyInv /\ LinkInv /\ GcInv /\ GraceInv /\ EmbryonicIsPrivate

\* The inductive invariant: every step of npf_conn.c and npf_conndb.c that
\* NpfConn models preserves it, and it implies the safety properties of NpfConn
\* - a connection in a map, on the list or in a thread's hands is allocated, its
\* reference count is the number of its holders, and only an expired one that
\* nobody holds is destroyed.
IInv == Core /\ RefcntExact

-----------------------------------------------------------------------------
(* The refinement mapping.                                                 *)

lifeBar(c) ==
  IF c \in pool THEN "free"
  ELSE IF \E d \in DBs, k \in Keys : cd_map[<<d, k>>] = c THEN "linked"
  ELSE IF \E t \in Threads : t_con[t] = c /\ pc[t] = "insert_forw" THEN "fresh"
  ELSE "unlinked"

Lifecycle(c) == INSTANCE ConnLifecycle WITH life <- lifeBar(c), users <- Users(c)

\* npf_conn.c keeps the promise of ConnLifecycle: lookups, insertions, G/C
\* and destruction together never reclaim a connection in use, never hand it
\* to a thread that did not find it in the map, never link it a second time.
ImplementsLifecycle ==
  /\ \A c \in Conns : Lifecycle(c)!Init
  /\ [][\A c \in Conns : UNCHANGED <<lifeBar(c), Users(c)>> \/ Lifecycle(c)!Next]_vars
====
