------------------------------ MODULE MCNpfReload ------------------------------
(***************************************************************************)
(* What a reload takes away from packets that are being handled: either    *)
(* the rule procedures and their extensions (NpfHandler) or the connection *)
(* database (NpfConnLoad, when the contract of npf_conn_load is kept).     *)
(* They share no state; a behaviour is one of either.                      *)
(***************************************************************************)
EXTENDS NpfHandler, TLC

CONSTANTS Worker, Ctl, Loader, DbConns, PktKeys, NatKeys, DBs, db0, ab, ba, xy

VARIABLES
  part, conn_db, conn_tracking, conn_lock, config_lock, cd_map, cd_new, cd_list, cd_gclist,
  c_flags, c_forw, c_back, c_nat, c_lock, pool, t_key, t_cd, t_ncon, w_pc, w_cd, w_con,
  l_odb, l_con, dead,
  d_refcnt, d_readers, d_grace, d_pc, d_con, d_l_pc   \* names that NpfHandler has, too

databaseVars ==
  <<conn_db, conn_tracking, conn_lock, config_lock, cd_map, cd_new, cd_list, cd_gclist,
    c_flags, c_forw, c_back, c_nat, c_lock, pool, t_key, t_cd, t_ncon, w_pc, w_cd, w_con,
    l_odb, l_con, dead, d_refcnt, d_readers, d_grace, d_pc, d_con, d_l_pc>>

\* One flow whose translation has a key of its own.
MCKeys == {ab, ba, xy}
MCRev == (ab :> ba)

Load == INSTANCE NpfConnLoad WITH
  Conns <- DbConns, Keys <- MCKeys, Rev <- MCRev, c_refcnt <- d_refcnt, readers <- d_readers,
  grace <- d_grace, pc <- d_pc, t_con <- d_con, l_pc <- d_l_pc

\* Rules with a procedure that leaves the packet alone, and no NAT; stateless
\* rules with a procedure that consumes the packet, and NAT.
HandlerSites ==
  {[rules |-> [rproc : {TRUE}, stateful : BOOLEAN, pass : BOOLEAN], results |-> {TRUE}, nat |-> FALSE],
   [rules |-> [rproc : BOOLEAN, stateful : {FALSE}, pass : BOOLEAN], results |-> {FALSE}, nat |-> TRUE]}

\* What the theorems about the handler assume of a set-up holds of these.
ASSUME HandlerInstance == Instance

\* The thread that loads is a control thread.
ASSUME LoadInstance == Load!LoaderAssumption

ReloadInit ==
  /\ Load!LoadInit /\ Init
  /\ \/ part = "database" /\ site = CHOOSE x \in Sites : TRUE
     \/ part = "procedures"

ReloadNext ==
  \/ part = "database" /\ Load!ContractNext /\ UNCHANGED <<part, vars>>
  \/ part = "procedures" /\ Next /\ UNCHANGED <<part, databaseVars>>

ReloadSpec == ReloadInit /\ [][ReloadNext]_<<part, vars, databaseVars>>

ReloadSymmetry == Permutations(Threads) \cup Permutations(DbConns) \cup Permutations(Rprocs)

\* After a load whose caller keeps the contract of npf_conn_load nothing is
\* left of the old database and nobody uses it (OldDatabaseGone of NpfConnLoad).
OldDatabaseGone == Load!OldDatabaseGone
====
