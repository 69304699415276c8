----------------------------- MODULE NpfHandler ------------------------------
(***************************************************************************)
(* npfk_packet_handler (npf_handler.c) and the references to rule          *)
(* procedures (npf_rproc.c): a procedure is referenced by the rule and the *)
(* procedure set of a configuration, by the connections it is associated   *)
(* with and by the packets being handled, and it references its extension. *)
(* Packets race with configuration loads, with the connection G/C and with *)
(* the unregistration of the extension.                                    *)
(*                                                                         *)
(* The connections are those of NpfConn with lookup, establishment and     *)
(* destruction as one step each.  A configuration has one rule.            *)
(***************************************************************************)
EXTENDS Integers, FiniteSets

CONSTANTS
  Threads, Conns,
  Rprocs,      \* memory of rule procedures
  Sites,       \* kinds of set-up: [rules, results, nat], see the variable site
  None

VARIABLES
  site,        \* never changes: the rules that are configured, [rproc, stateful,
               \* pass : BOOLEAN], what the processing routine of their extension
               \* returns, and whether NAT may have to establish a connection
  config,      \* the active configuration: [rp, stateful, pass], or None
  rp_refcnt, rp_live,
  ext_refcnt, ext_live,     \* the extension; registered or not
  c_state, c_pass, c_rproc, c_refcnt,
  readers, grace,
  pc, t_con, t_rp, t_cfg,
  t_mbuf,      \* the packet: held, passed, consumed, freed, freed twice
  t_block,     \* decision = NPF_DECISION_BLOCK, or an error is set
  l_pc, l_cfg  \* npf_config_load and the configuration it builds or destroys

rpVars == <<rp_refcnt, rp_live, ext_refcnt, site>>
connVars == <<c_state, c_pass, c_rproc, c_refcnt>>
ebrVars == <<readers, grace>>
pktVars == <<pc, t_con, t_rp, t_cfg, t_mbuf, t_block>>
loadVars == <<config, l_pc, l_cfg>>
vars == <<rpVars, ext_live, connVars, ebrVars, pktVars, loadVars>>

Configs == [rp : Rprocs \cup {None}, stateful : BOOLEAN, pass : BOOLEAN]

TypeOK ==
  /\ config \in Configs \cup {None} /\ l_cfg \in Configs \cup {None}
  /\ rp_refcnt \in [Rprocs -> Nat] /\ rp_live \subseteq Rprocs
  /\ ext_refcnt \in Nat /\ ext_live \in BOOLEAN
  /\ c_state \in [Conns -> {"free", "new", "active"}]
  /\ c_pass \in [Conns -> BOOLEAN] /\ c_rproc \in [Conns -> Rprocs \cup {None}]
  /\ c_refcnt \in [Conns -> Nat]
  /\ readers \subseteq Threads /\ grace \subseteq readers
  /\ pc \in [Threads -> {"idle", "ruleset", "rule", "establish", "nat", "run",
                         "consumed", "drop_rproc", "out", "return"}]
  /\ t_con \in [Threads -> Conns \cup {None}]
  /\ t_rp \in [Threads -> Rprocs \cup {None}]
  /\ t_cfg \in [Threads -> Configs \cup {None}]
  /\ t_mbuf \in [Threads -> {"none", "held", "passed", "consumed", "freed", "twice"}]
  /\ t_block \in [Threads -> BOOLEAN]
  /\ l_pc \in {"idle", "ctor", "install", "sync", "rule", "rprocset"}

Init ==
  /\ site \in Sites
  /\ config = None /\ l_cfg = None /\ l_pc = "idle"
  /\ rp_refcnt = [r \in Rprocs |-> 0] /\ rp_live = {}
  /\ ext_refcnt = 0 /\ ext_live = TRUE
  /\ c_state = [c \in Conns |-> "free"] /\ c_pass = [c \in Conns |-> FALSE]
  /\ c_rproc = [c \in Conns |-> None] /\ c_refcnt = [c \in Conns |-> 0]
  /\ readers = {} /\ grace = {}
  /\ pc = [t \in Threads |-> "idle"]
  /\ t_con = [t \in Threads |-> None] /\ t_rp = [t \in Threads |-> None]
  /\ t_cfg = [t \in Threads |-> None]
  /\ t_mbuf = [t \in Threads |-> "none"] /\ t_block = [t \in Threads |-> FALSE]

Goto(t, label) == pc' = [pc EXCEPT ![t] = label]
FreeMbuf(t) == t_mbuf' = [t_mbuf EXCEPT ![t] = IF @ = "held" THEN "freed" ELSE "twice"]

-----------------------------------------------------------------------------
(* References to a rule procedure.                                         *)

\* npf_rproc_acquire; "r" may be NULL.  Mutant: npf_rule_getrproc forgets it.
npf_rproc_acquire_none(r) == UNCHANGED rp_refcnt
npf_rproc_acquire(r) ==
  rp_refcnt' = IF r = None THEN rp_refcnt ELSE [rp_refcnt EXCEPT ![r] = @ + 1]

\* npf_rproc_release: the last reference destroys the extension's data, drops
\* the reference on the extension and frees the procedure.
npf_rproc_release(r) ==
  /\ rp_refcnt' = [rp_refcnt EXCEPT ![r] = @ - 1]
  /\ rp_live' = IF rp_refcnt[r] = 1 THEN rp_live \ {r} ELSE rp_live
  /\ ext_refcnt' = IF rp_refcnt[r] = 1 THEN ext_refcnt - 1 ELSE ext_refcnt
  /\ UNCHANGED site

-----------------------------------------------------------------------------
(* The packet handler.                                                     *)

\* The packet is cached.  A malformed one leaves with an error, a fragment
\* may be kept or freed by the reassembly, a tagged one is passed.
npf_cache_all(t, kind) ==
  /\ pc[t] = "idle"
  /\ t_block' = [t_block EXCEPT ![t] = kind \in {"malformed", "reassfail"}]
  /\ \/ kind = "malformed" /\ Goto(t, "out") /\ t_mbuf' = [t_mbuf EXCEPT ![t] = "held"]
     \/ kind = "reassfail" /\ Goto(t, "out") /\ t_mbuf' = [t_mbuf EXCEPT ![t] = "freed"]
     \/ kind = "fragment" /\ Goto(t, "idle") /\ t_mbuf' = [t_mbuf EXCEPT ![t] = "consumed"]
     \/ kind = "bypass" /\ Goto(t, "nat") /\ t_mbuf' = [t_mbuf EXCEPT ![t] = "held"]
  /\ UNCHANGED <<rpVars, ext_live, connVars, ebrVars, t_con, t_rp, t_cfg, loadVars>>

\* npf_conn_inspect acquires a reference on the connection, if there is one;
\* npf_conn_pass of a "pass" connection yields its rule procedure.
npf_conn_inspect(t, c) ==
  /\ pc[t] = "idle"
  /\ t_con' = [t_con EXCEPT ![t] = c]
  /\ t_mbuf' = [t_mbuf EXCEPT ![t] = "held"]
  /\ t_block' = [t_block EXCEPT ![t] = FALSE]
  /\ \/ /\ c = None
        /\ Goto(t, "ruleset")
        /\ UNCHANGED <<c_refcnt, t_rp>>
     \/ /\ c # None
        /\ c_state[c] = "active"
        /\ c_refcnt' = [c_refcnt EXCEPT ![c] = @ + 1]
        /\ Goto(t, IF c_pass[c] THEN "nat" ELSE "ruleset")
        /\ t_rp' = [t_rp EXCEPT ![t] = c_rproc[c]]
  /\ UNCHANGED <<rpVars, ext_live, c_state, c_pass, c_rproc, ebrVars, t_cfg, loadVars>>

\* Enter the EBR section and load the configuration.
npf_config_read_enter(t) ==
  /\ pc[t] = "ruleset"
  /\ readers' = readers \cup {t}
  /\ t_cfg' = [t_cfg EXCEPT ![t] = config]
  /\ Goto(t, "rule")
  /\ UNCHANGED <<rpVars, ext_live, connVars, grace, t_con, t_rp, t_mbuf, t_block,
                 loadVars>>

\* npf_ruleset_inspect.  No matching rule: the default decision.  Otherwise
\* npf_rule_getrproc acquires a reference and npf_rule_conclude decides.
npf_ruleset_inspect(t, match, default_pass) ==
  LET cfg == t_cfg[t]  pass == IF match THEN cfg.pass ELSE default_pass IN
  /\ pc[t] = "rule"
  /\ match => cfg # None
  /\ npf_rproc_acquire(IF match THEN cfg.rp ELSE None)
  /\ t_rp' = [t_rp EXCEPT ![t] = IF match THEN cfg.rp ELSE None]
  /\ t_block' = [t_block EXCEPT ![t] = ~pass]
  /\ Goto(t, IF ~pass THEN "run"
             ELSE IF match /\ cfg.stateful /\ t_con[t] = None THEN "establish"
             ELSE "nat")
  /\ t_cfg' = [t_cfg EXCEPT ![t] = None]
  /\ readers' = readers \ {t} /\ grace' = grace \ {t}
  /\ UNCHANGED <<rp_live, ext_refcnt, site, ext_live, connVars, t_con, t_mbuf, loadVars>>

\* npf_conn_establish, which may fail, and npf_conn_setpass: the reference on
\* the rule procedure is transferred to the connection.
npf_conn_setpass(t, c) ==
  /\ pc[t] = "establish"
  /\ \/ c = None /\ UNCHANGED <<connVars, t_con>>
     \/ /\ c # None /\ c_state[c] = "free"
        /\ c_state' = [c_state EXCEPT ![c] = "new"]
        /\ c_refcnt' = [c_refcnt EXCEPT ![c] = 1]
        /\ c_pass' = [c_pass EXCEPT ![c] = TRUE]
        /\ c_rproc' = [c_rproc EXCEPT ![c] = t_rp[t]]
        /\ t_con' = [t_con EXCEPT ![t] = c]
  /\ Goto(t, "nat")
  /\ UNCHANGED <<rpVars, ext_live, ebrVars, t_rp, t_cfg, t_mbuf, t_block, loadVars>>

\* npf_do_nat may fail.  Without a connection it may establish one, which is
\* not a "pass" connection, and releases it at once.
npf_do_nat(t, c, ok) ==
  /\ pc[t] = "nat"
  /\ \/ c = None /\ UNCHANGED connVars
     \/ /\ site.nat /\ c # None /\ t_con[t] = None /\ c_state[c] = "free"
        /\ c_state' = [c_state EXCEPT ![c] = "active"]
        /\ c_pass' = [c_pass EXCEPT ![c] = FALSE]
        /\ c_rproc' = [c_rproc EXCEPT ![c] = None]
        /\ UNCHANGED c_refcnt
  /\ t_block' = [t_block EXCEPT ![t] = ~ok]
  /\ Goto(t, "run")
  /\ UNCHANGED <<rpVars, ext_live, ebrVars, t_con, t_rp, t_cfg, t_mbuf, loadVars>>

\* npf_rproc_run: an extension may block the packet, or free it ("mbuf already
\* freed") and return false.
npf_rproc_run(t, more, block) ==
  /\ pc[t] = "run"
  /\ \/ t_rp[t] = None /\ Goto(t, "out") /\ UNCHANGED <<t_block, t_mbuf>>
     \/ /\ t_rp[t] # None /\ more
        /\ t_block' = [t_block EXCEPT ![t] = @ \/ block]
        /\ Goto(t, "out")
        /\ UNCHANGED t_mbuf
     \/ /\ t_rp[t] # None /\ ~more
        /\ FreeMbuf(t)
        /\ Goto(t, IF t_con[t] = None THEN "drop_rproc" ELSE "consumed")
        /\ UNCHANGED t_block
  /\ UNCHANGED <<rpVars, ext_live, connVars, ebrVars, t_con, t_rp, t_cfg, loadVars>>

\* npf_conn_release; the first one activates the connection.
ConnRelease(c) ==
  /\ c_refcnt' = [c_refcnt EXCEPT ![c] = @ - 1]
  /\ c_state' = [c_state EXCEPT ![c] = "active"]
  /\ UNCHANGED <<c_pass, c_rproc>>

\* After npf_rproc_run returned false: the connection, if any, ...
handler_consumed(t) ==
  /\ pc[t] = "consumed"
  /\ ConnRelease(t_con[t])
  /\ t_con' = [t_con EXCEPT ![t] = None]
  /\ Goto(t, "drop_rproc")
  /\ UNCHANGED <<rpVars, ext_live, ebrVars, t_rp, t_cfg, t_mbuf, t_block, loadVars>>

\* ... and then the rule procedure are released; return.
handler_drop_rproc(t) ==
  /\ pc[t] = "drop_rproc"
  /\ npf_rproc_release(t_rp[t])
  /\ t_rp' = [t_rp EXCEPT ![t] = None]
  /\ Goto(t, "idle")
  /\ UNCHANGED <<ext_live, connVars, ebrVars, t_con, t_cfg, t_mbuf, t_block, loadVars>>


\* "Release the reference on a rule procedure only if there was no
\* association": with a connection, only the connection is released.
handler_out(t) ==
  /\ pc[t] = "out"
  /\ \/ t_con[t] # None /\ ConnRelease(t_con[t]) /\ UNCHANGED rpVars
     \/ t_con[t] = None /\ t_rp[t] # None /\ npf_rproc_release(t_rp[t]) /\ UNCHANGED connVars
     \/ t_con[t] = None /\ t_rp[t] = None /\ UNCHANGED <<rpVars, connVars>>
  /\ t_con' = [t_con EXCEPT ![t] = None] /\ t_rp' = [t_rp EXCEPT ![t] = None]
  /\ Goto(t, "return")
  /\ UNCHANGED <<ext_live, ebrVars, t_cfg, t_mbuf, t_block, loadVars>>

\* A packet that is gone returns at once; a blocked one is freed, which
\* npf_return_block (icmp) may have done.
handler_return(t, returned) ==
  /\ pc[t] = "return"
  /\ \/ t_mbuf[t] = "freed" /\ t_block[t] /\ UNCHANGED t_mbuf
     \/ t_mbuf[t] # "freed" /\ t_block[t] /\ returned
          /\ t_mbuf' = [t_mbuf EXCEPT ![t] = "consumed"]
     \/ t_mbuf[t] # "freed" /\ t_block[t] /\ ~returned /\ FreeMbuf(t)
     \/ ~t_block[t] /\ t_mbuf' = [t_mbuf EXCEPT ![t] = IF @ = "held" THEN "passed" ELSE "twice"]
  /\ Goto(t, "idle")
  /\ UNCHANGED <<rpVars, ext_live, connVars, ebrVars, t_con, t_rp, t_cfg, t_block,
                 loadVars>>

\* npf_conn_destroy by the G/C: the connection releases its rule procedure.
npf_conn_destroy(c) ==
  /\ c_state[c] = "active" /\ c_refcnt[c] = 0
  /\ IF c_rproc[c] # None THEN npf_rproc_release(c_rproc[c]) ELSE UNCHANGED rpVars
  /\ c_state' = [c_state EXCEPT ![c] = "free"]
  /\ c_pass' = [c_pass EXCEPT ![c] = FALSE]
  /\ c_rproc' = [c_rproc EXCEPT ![c] = None]
  /\ UNCHANGED <<ext_live, c_refcnt, ebrVars, pktVars, loadVars>>

-----------------------------------------------------------------------------
(* Loading a configuration, and the extension.                             *)

\* npf_rproc_create with the reference of the set, npf_ext_construct: look up
\* the extension and count the reference before its constructor runs.
npf_rproc_create(rule, r) ==
  /\ l_pc = "idle"
  /\ \/ /\ rule.rproc
        /\ r \notin rp_live /\ ext_live
        /\ rp_refcnt' = [rp_refcnt EXCEPT ![r] = 1]
        /\ rp_live' = rp_live \cup {r}
        /\ ext_refcnt' = ext_refcnt + 1
        /\ l_cfg' = [rp |-> r, stateful |-> rule.stateful, pass |-> rule.pass]
        /\ l_pc' = "ctor"
        /\ UNCHANGED site
     \/ /\ ~rule.rproc
        /\ l_cfg' = [rp |-> None, stateful |-> rule.stateful, pass |-> rule.pass]
        /\ l_pc' = "install"
        /\ UNCHANGED rpVars
  /\ UNCHANGED <<ext_live, connVars, ebrVars, pktVars, config>>

\* The constructor's result; a failure drops the reference on the extension
\* and the load is given up.  On success npf_rule_setrproc references it too.
npf_ext_construct(ok) ==
  /\ l_pc = "ctor"
  /\ \/ /\ ok
        /\ npf_rproc_acquire(l_cfg.rp)
        /\ l_pc' = "install"
        /\ UNCHANGED <<rp_live, ext_refcnt, site, l_cfg>>
     \/ /\ ~ok
        /\ npf_rproc_release(l_cfg.rp)
        /\ l_pc' = "idle" /\ l_cfg' = None
  /\ UNCHANGED <<ext_live, connVars, ebrVars, pktVars, config>>

\* Publish the configuration; npf_ebr_full_sync waits for the readers.
\* Mutant: it does not.
npf_ebr_full_sync_none == grace' = {}
npf_ebr_full_sync == grace' = readers

npf_config_load ==
  /\ l_pc = "install"
  /\ config' = l_cfg
  /\ l_cfg' = config
  /\ npf_ebr_full_sync
  /\ l_pc' = IF config = None THEN "idle" ELSE "sync"
  /\ UNCHANGED <<rpVars, ext_live, connVars, readers, pktVars>>

config_synced ==
  /\ l_pc = "sync" /\ grace = {}
  /\ l_pc' = IF l_cfg.rp = None THEN "idle" ELSE "rule"
  /\ l_cfg' = IF l_cfg.rp = None THEN None ELSE l_cfg
  /\ UNCHANGED <<rpVars, ext_live, connVars, ebrVars, pktVars, config>>

\* npf_config_destroy: the rule releases its procedure, then the set does.
npf_rule_free ==
  /\ l_pc = "rule"
  /\ npf_rproc_release(l_cfg.rp)
  /\ l_pc' = "rprocset"
  /\ UNCHANGED <<ext_live, connVars, ebrVars, pktVars, config, l_cfg>>

npf_rprocset_destroy ==
  /\ l_pc = "rprocset"
  /\ npf_rproc_release(l_cfg.rp)
  /\ l_pc' = "idle" /\ l_cfg' = None
  /\ UNCHANGED <<ext_live, connVars, ebrVars, pktVars, config>>

npf_ext_register ==
  /\ ~ext_live
  /\ ext_live' = TRUE
  /\ UNCHANGED <<rpVars, connVars, ebrVars, pktVars, loadVars>>

\* Refused while it is referenced.
ExtBusy == ext_refcnt > 0

npf_ext_unregister ==
  /\ ext_live /\ ~ExtBusy
  /\ ext_live' = FALSE
  /\ UNCHANGED <<rpVars, connVars, ebrVars, pktVars, loadVars>>

-----------------------------------------------------------------------------
PacketNext(t) ==
  \/ \E kind \in {"malformed", "reassfail", "fragment", "bypass"} : npf_cache_all(t, kind)
  \/ \E c \in Conns \cup {None} : npf_conn_inspect(t, c) \/ npf_conn_setpass(t, c)
  \/ npf_config_read_enter(t)
  \/ \E match, dp \in BOOLEAN : npf_ruleset_inspect(t, match, dp)
  \/ \E c \in Conns \cup {None}, ok \in BOOLEAN : npf_do_nat(t, c, ok)
  \/ \E more \in site.results, block \in BOOLEAN : npf_rproc_run(t, more, block)
  \/ handler_consumed(t) \/ handler_drop_rproc(t)
  \/ handler_out(t)
  \/ \E ret \in BOOLEAN : handler_return(t, ret)

LoadNext ==
  \/ \E rule \in site.rules, r \in Rprocs : npf_rproc_create(rule, r)
  \/ \E ok \in BOOLEAN : npf_ext_construct(ok)
  \/ npf_config_load \/ config_synced \/ npf_rule_free \/ npf_rprocset_destroy
  \/ npf_ext_register \/ npf_ext_unregister

Next ==
  \/ \E t \in Threads : PacketNext(t)
  \/ \E c \in Conns : npf_conn_destroy(c)
  \/ LoadNext

Spec == Init /\ [][Next]_vars

-----------------------------------------------------------------------------
(* Properties.                                                             *)

\* The set-ups in which the handler keeps its books: a rule whose procedure may
\* consume the packet ("mbuf already freed") establishes no state with it, and
\* NAT is not combined with procedures that leave the packet alone.  Out of
\* them npf_rproc_run's caller releases a reference that the connection has, or
\* "only if there was no association" keeps one that nobody has.
Harmless ==
  \A s \in Sites :
    /\ (\E rule \in s.rules : rule.rproc /\ rule.stateful /\ rule.pass) => FALSE \notin s.results
    /\ s.nat /\ (\E rule \in s.rules : rule.rproc) => TRUE \notin s.results

\* The set-up and the constants: finitely many threads and connections, None is
\* none of them.
Instance ==
  /\ Harmless
  /\ IsFiniteSet(Threads) /\ IsFiniteSet(Conns)
  /\ None \notin Rprocs /\ None \notin Conns /\ None \notin Configs
  /\ \A s \in Sites : s.rules \subseteq [rproc : BOOLEAN, stateful : BOOLEAN, pass : BOOLEAN]
                      /\ s.results \subseteq BOOLEAN

\* Who refers to a rule procedure: the active configuration twice, one being
\* built or destroyed according to its progress, associated connections, and
\* packets whose reference was not transferred to a connection.
ConfigRefs(r) ==
  (IF config # None /\ config.rp = r THEN 2 ELSE 0)
    + (IF l_cfg # None /\ l_cfg.rp = r
       THEN IF l_pc \in {"ctor", "rprocset"} THEN 1 ELSE 2 ELSE 0)
ConnRefs(r) == {c \in Conns : c_rproc[c] = r}
PacketRefs(r) ==
  {t \in Threads : t_rp[t] = r /\ (t_con[t] = None \/ c_rproc[t_con[t]] # r)}

\* rp_refcnt counts exactly the references of configurations, connections and
\* packets: the handler neither leaks nor over-releases on any of its exits.
RprocRefcntExact ==
  \A r \in Rprocs :
    rp_refcnt[r] = ConfigRefs(r) + Cardinality(ConnRefs(r)) + Cardinality(PacketRefs(r))

\* Nothing is used that was freed, or freed twice: a procedure that a packet
\* is about to run, that a connection is associated with ("released on
\* connection destruction") or that a reachable configuration names; the
\* extension, which a procedure may call although its configuration is gone;
\* the packet, which a handler that returned has passed, freed or given to a
\* procedure that consumed it.
NoFreedUse ==
  /\ \A t \in Threads :
       /\ t_rp[t] # None => t_rp[t] \in rp_live
       /\ t_cfg[t] # None => t_cfg[t].rp \in rp_live \cup {None}
       /\ t_mbuf[t] # "twice" /\ (pc[t] = "idle" => t_mbuf[t] # "held")
  /\ \A c \in Conns : c_rproc[c] \in rp_live \cup {None}
  /\ config # None => config.rp \in rp_live \cup {None}
  /\ rp_live # {} => ext_live
====
