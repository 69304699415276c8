-------------------------- MODULE NpfHandlerProofs ---------------------------
(***************************************************************************)
(* Proofs about NpfHandler, for every number of threads, connections and   *)
(* rule procedures and every harmless set-up: rp_refcnt counts exactly the *)
(* references (RprocRefcntExact), and no procedure, extension or packet is *)
(* used after it was freed (NoFreedUse).                                   *)
(***************************************************************************)
EXTENDS NpfHandler, FiniteSetTheorems, TLAPS

\* A configuration with a procedure comes from a rule of the set-up.
Made(cfg) ==
  cfg # None /\ cfg.rp # None =>
    \E rule \in site.rules : rule.rproc /\ rule.stateful = cfg.stateful /\ rule.pass = cfg.pass

\* The loader: what it builds or destroys is none but while it does so.
LoadInv ==
  /\ site \in Sites
  /\ Made(config) /\ Made(l_cfg)
  /\ l_pc = "idle" <=> l_cfg = None
  /\ l_pc \in {"ctor", "rule", "rprocset"} => l_cfg.rp # None

\* A reader has the active configuration, or the one the loader has replaced
\* and cannot destroy before the reader has left.
ReadInv ==
  \A t \in Threads :
    /\ t \in readers <=> pc[t] = "rule"
    /\ pc[t] # "rule" => t_cfg[t] = None
    /\ t_cfg[t] # None => \/ t_cfg[t] = config
                          \/ t_cfg[t] = l_cfg /\ l_pc = "sync" /\ t \in grace

\* What a connection says of its procedure.
ConnInv ==
  \A c \in Conns :
    /\ c_state[c] = "free" => ~c_pass[c]
    /\ c_state[c] # "free" /\ ~c_pass[c] => site.nat
    /\ c_rproc[c] # None => c_pass[c] /\ FALSE \notin site.results

\* The threads that hold a connection.
Holders == [c \in Conns |-> {t \in Threads : t_con[t] = c}]

\* c_refcnt counts them; a connection that is free has none.
HoldInv ==
  \A c \in Conns : /\ c_refcnt[c] = Cardinality(Holders[c])
                   /\ c_state[c] = "free" => Holders[c] = {}

\* A packet and its procedure, point by point: whose reference t_rp is depends
\* on the connection the packet has.
ThreadOK(t) ==
  /\ pc[t] \in {"idle", "return"} => t_con[t] = None /\ t_rp[t] = None
  /\ pc[t] \in {"ruleset", "rule"} => t_rp[t] = None /\ (t_con[t] # None => ~c_pass[t_con[t]])
  /\ pc[t] = "establish" => t_con[t] = None /\ (t_rp[t] # None => FALSE \notin site.results)
  /\ pc[t] \in {"nat", "run", "out"} /\ t_con[t] # None =>
       \/ t_rp[t] = c_rproc[t_con[t]]
       \/ pc[t] # "out" /\ c_rproc[t_con[t]] = None /\ TRUE \notin site.results
  /\ pc[t] = "consumed" => t_con[t] # None /\ t_rp[t] # None /\ c_rproc[t_con[t]] = None
  /\ pc[t] = "drop_rproc" => t_con[t] = None /\ t_rp[t] # None

ThreadInv == \A t \in Threads : ThreadOK(t)

\* The packet: freed before the handler returns only on its way out.
MbufInv ==
  \A t \in Threads :
    /\ pc[t] = "idle" => t_mbuf[t] \in {"none", "passed", "consumed", "freed"}
    /\ pc[t] \in {"ruleset", "rule", "establish", "nat", "run"} => t_mbuf[t] = "held"
    /\ pc[t] \in {"consumed", "drop_rproc"} => t_mbuf[t] = "freed"
    /\ pc[t] \in {"out", "return"} => t_mbuf[t] = "held" \/ (t_mbuf[t] = "freed" /\ t_block[t])

\* The references on every procedure, by who has them.
ConfigsOf == [r \in Rprocs |-> ConfigRefs(r)]
ConnsOf == [r \in Rprocs |-> ConnRefs(r)]
PacketsOf == [r \in Rprocs |-> PacketRefs(r)]
Uses == [r \in Rprocs |-> ConfigsOf[r] + Cardinality(ConnsOf[r]) + Cardinality(PacketsOf[r])]

\* rp_refcnt is the number of references, a procedure is there while it is
\* referenced, and the extension counts the procedures.
RefInv ==
  /\ \A r \in Rprocs : rp_refcnt[r] = Uses[r] /\ (r \in rp_live <=> rp_refcnt[r] # 0)
  /\ IsFiniteSet(rp_live) /\ ext_refcnt = Cardinality(rp_live)
  /\ rp_live # {} => ext_live

\* The inductive invariant.
HandlerInv ==
  TypeOK /\ LoadInv /\ ReadInv /\ ConnInv /\ HoldInv /\ ThreadInv /\ MbufInv /\ RefInv

-----------------------------------------------------------------------------
(* Counting references.                                                    *)

\* The references of a procedure (nrproc's rp_refcnt) can be counted.
LEMMA RefsFinite ==
  ASSUME Instance, NEW r \in Rprocs
  PROVE  /\ IsFiniteSet(ConnsOf[r]) /\ Cardinality(ConnsOf[r]) \in Nat
         /\ IsFiniteSet(PacketsOf[r]) /\ Cardinality(PacketsOf[r]) \in Nat
         /\ ConfigsOf[r] \in Nat /\ Uses[r] \in Nat
         /\ Uses[r] = ConfigsOf[r] + Cardinality(ConnsOf[r]) + Cardinality(PacketsOf[r])
<1>1. ConnsOf[r] \subseteq Conns /\ PacketsOf[r] \subseteq Threads
  BY DEF ConnsOf, PacketsOf, ConnRefs, PacketRefs
<1>2. IsFiniteSet(ConnsOf[r]) /\ IsFiniteSet(PacketsOf[r])
  BY <1>1, FS_Subset DEF Instance
<1>3. Cardinality(ConnsOf[r]) \in Nat /\ Cardinality(PacketsOf[r]) \in Nat
  BY <1>2, FS_CardinalityType
<1>4. ConfigsOf[r] \in Nat
  BY DEF ConfigsOf, ConfigRefs
<1>5. Uses[r] = ConfigsOf[r] + Cardinality(ConnsOf[r]) + Cardinality(PacketsOf[r])
  BY DEF Uses
<1> QED
  BY <1>2, <1>3, <1>4, <1>5

\* A procedure that somebody refers to has not been freed.
LEMMA UsedIsLive ==
  ASSUME Instance, RefInv, NEW r \in Rprocs,
         ConfigsOf[r] # 0 \/ ConnsOf[r] # {} \/ PacketsOf[r] # {}
  PROVE  r \in rp_live /\ Uses[r] # 0
<1>1. Cardinality(ConnsOf[r]) # 0 \/ Cardinality(PacketsOf[r]) # 0 \/ ConfigsOf[r] # 0
  BY RefsFinite, FS_EmptySet
<1>2. Uses[r] # 0
  BY <1>1, RefsFinite
<1> QED
  BY <1>2 DEF RefInv

\* npf_rproc_create gets memory that nobody refers to.
LEMMA FreeIsUnused ==
  ASSUME Instance, RefInv, NEW r \in Rprocs, r \notin rp_live
  PROVE  /\ ConfigsOf[r] = 0 /\ ConnsOf[r] = {} /\ PacketsOf[r] = {}
         /\ Uses[r] = 0 /\ rp_refcnt[r] = 0
  BY UsedIsLive DEF RefInv

OneMore(r) ==
  Uses'[r] = Uses[r] + 1 /\ \A x \in Rprocs : x # r => Uses'[x] = Uses[x]
OneLess(r) ==
  Uses'[r] = Uses[r] - 1 /\ \A x \in Rprocs : x # r => Uses'[x] = Uses[x]

\* npf_rproc_acquire of a procedure that is there counts one reference more.
LEMMA RefUp ==
  ASSUME Instance, TypeOK, RefInv, NEW r \in Rprocs, OneMore(r), r \in rp_live,
         npf_rproc_acquire(r), UNCHANGED <<rp_live, ext_refcnt, ext_live>>
  PROVE  RefInv' /\ rp_refcnt' \in [Rprocs -> Nat]
<1> DEFINE v == rp_refcnt[r] + 1
<1>1. v \in Nat /\ v # 0 /\ v = Uses[r] + 1
  BY DEF TypeOK, RefInv
<1>2. rp_refcnt' = [rp_refcnt EXCEPT ![r] = v]
  BY DEF npf_rproc_acquire, Instance
<1> HIDE DEF v
<1>3. rp_refcnt' \in [Rprocs -> Nat]
  BY <1>1, <1>2 DEF TypeOK
<1>4. \A x \in Rprocs : rp_refcnt'[x] = Uses'[x] /\ (x \in rp_live' <=> rp_refcnt'[x] # 0)
  BY <1>1, <1>2 DEF TypeOK, RefInv, OneMore
<1> QED
  BY <1>3, <1>4 DEF RefInv

\* npf_rproc_release counts one reference less, and the last one frees the
\* procedure and the reference on the extension.
LEMMA RefDown ==
  ASSUME Instance, TypeOK, RefInv, NEW r \in Rprocs, OneLess(r), r \in rp_live,
         npf_rproc_release(r), UNCHANGED ext_live
  PROVE  /\ RefInv' /\ rp_refcnt' \in [Rprocs -> Nat] /\ rp_live' \subseteq Rprocs
         /\ ext_refcnt' \in Nat /\ UNCHANGED site
<1> DEFINE v == rp_refcnt[r] - 1
<1>1. v \in Nat /\ v = Uses[r] - 1 /\ (v = 0 <=> rp_refcnt[r] = 1)
  BY DEF TypeOK, RefInv
<1>2. /\ rp_refcnt' = [rp_refcnt EXCEPT ![r] = v] /\ UNCHANGED site
      /\ rp_live' = IF v = 0 THEN rp_live \ {r} ELSE rp_live
      /\ ext_refcnt' = IF v = 0 THEN ext_refcnt - 1 ELSE ext_refcnt
  BY <1>1 DEF npf_rproc_release
<1> HIDE DEF v
<1>3. rp_refcnt' \in [Rprocs -> Nat] /\ rp_live' \subseteq Rprocs
  BY <1>1, <1>2 DEF TypeOK
<1>4. \A x \in Rprocs : rp_refcnt'[x] = Uses'[x] /\ (x \in rp_live' <=> rp_refcnt'[x] # 0)
  BY <1>1, <1>2 DEF TypeOK, RefInv, OneLess
<1>5. IsFiniteSet(rp_live) /\ ext_refcnt = Cardinality(rp_live) /\ (rp_live # {} => ext_live)
  BY DEF RefInv
<1>6. /\ IsFiniteSet(rp_live \ {r}) /\ Cardinality(rp_live \ {r}) = Cardinality(rp_live) - 1
      /\ Cardinality(rp_live \ {r}) \in Nat /\ Cardinality(rp_live) \in Nat
  BY <1>5, FS_RemoveElement, FS_CardinalityType
<1>7. IsFiniteSet(rp_live') /\ ext_refcnt' = Cardinality(rp_live') /\ ext_refcnt' \in Nat
  BY <1>2, <1>5, <1>6
<1> QED
  BY <1>2, <1>3, <1>4, <1>5, <1>7 DEF RefInv

\* What leaves the counters and the number of references alone.
LEMMA RefSame ==
  ASSUME RefInv, \A r \in Rprocs : Uses'[r] = Uses[r],
         UNCHANGED <<rp_refcnt, rp_live, ext_refcnt, ext_live>>
  PROVE  RefInv'
  BY DEF RefInv

\* The sets of references decide about their number.
LEMMA UsesSame ==
  ASSUME ConfigsOf' = ConfigsOf, ConnsOf' = ConnsOf, PacketsOf' = PacketsOf
  PROVE  \A r \in Rprocs : Uses'[r] = Uses[r]
  BY DEF Uses

\* A packet that takes a reference (npf_rule_getrproc).
LEMMA PacketGain ==
  ASSUME Instance, NEW r \in Rprocs, NEW t, t \notin PacketsOf[r], PacketsOf'[r] = PacketsOf[r] \cup {t},
         \A x \in Rprocs : x # r => PacketsOf'[x] = PacketsOf[x],
         ConfigsOf' = ConfigsOf, ConnsOf' = ConnsOf
  PROVE  OneMore(r)
<1>1. Cardinality(PacketsOf'[r]) = Cardinality(PacketsOf[r]) + 1
  <2>1. IsFiniteSet(PacketsOf[r])
    BY RefsFinite
  <2> QED
    BY ONLY <2>1, t \notin PacketsOf[r], PacketsOf'[r] = PacketsOf[r] \cup {t}, FS_AddElement, Zenon
<1>2. Uses'[r] = ConfigsOf[r] + Cardinality(ConnsOf[r]) + Cardinality(PacketsOf'[r])
  BY DEF Uses
<1>4. /\ ConfigsOf[r] \in Nat /\ Cardinality(ConnsOf[r]) \in Nat /\ Cardinality(PacketsOf[r]) \in Nat
      /\ Uses[r] = ConfigsOf[r] + Cardinality(ConnsOf[r]) + Cardinality(PacketsOf[r])
  BY RefsFinite
<1>3. Uses'[r] = Uses[r] + 1
  BY ONLY <1>1, <1>2, <1>4
<1> QED
  BY <1>3 DEF Uses, OneMore

\* A packet that drops its own reference, on either exit of the handler.
LEMMA PacketLose ==
  ASSUME Instance, NEW r \in Rprocs, NEW t \in PacketsOf[r], PacketsOf'[r] = PacketsOf[r] \ {t},
         \A x \in Rprocs : x # r => PacketsOf'[x] = PacketsOf[x],
         ConfigsOf' = ConfigsOf, ConnsOf' = ConnsOf
  PROVE  OneLess(r)
<1>1. Cardinality(PacketsOf'[r]) = Cardinality(PacketsOf[r]) - 1
  <2>1. IsFiniteSet(PacketsOf[r])
    BY RefsFinite
  <2> QED
    BY ONLY <2>1, t \in PacketsOf[r], PacketsOf'[r] = PacketsOf[r] \ {t}, FS_RemoveElement, Zenon
<1>2. Uses'[r] = ConfigsOf[r] + Cardinality(ConnsOf[r]) + Cardinality(PacketsOf'[r])
  BY DEF Uses
<1>4. /\ ConfigsOf[r] \in Nat /\ Cardinality(ConnsOf[r]) \in Nat /\ Cardinality(PacketsOf[r]) \in Nat
      /\ Uses[r] = ConfigsOf[r] + Cardinality(ConnsOf[r]) + Cardinality(PacketsOf[r])
  BY RefsFinite
<1>3. Uses'[r] = Uses[r] - 1
  BY ONLY <1>1, <1>2, <1>4
<1> QED
  BY <1>3 DEF Uses, OneLess

\* npf_conn_destroy drops the reference of the connection.
LEMMA ConnLose ==
  ASSUME Instance, NEW r \in Rprocs, NEW c \in ConnsOf[r], ConnsOf'[r] = ConnsOf[r] \ {c},
         \A x \in Rprocs : x # r => ConnsOf'[x] = ConnsOf[x],
         ConfigsOf' = ConfigsOf, PacketsOf' = PacketsOf
  PROVE  OneLess(r)
<1>1. Cardinality(ConnsOf'[r]) = Cardinality(ConnsOf[r]) - 1
  <2>1. IsFiniteSet(ConnsOf[r])
    BY RefsFinite
  <2> QED
    BY ONLY <2>1, c \in ConnsOf[r], ConnsOf'[r] = ConnsOf[r] \ {c}, FS_RemoveElement, Zenon
<1>2. Uses'[r] = ConfigsOf[r] + Cardinality(ConnsOf'[r]) + Cardinality(PacketsOf[r])
  BY DEF Uses
<1>4. /\ ConfigsOf[r] \in Nat /\ Cardinality(ConnsOf[r]) \in Nat /\ Cardinality(PacketsOf[r]) \in Nat
      /\ Uses[r] = ConfigsOf[r] + Cardinality(ConnsOf[r]) + Cardinality(PacketsOf[r])
  BY RefsFinite
<1>3. Uses'[r] = Uses[r] - 1
  BY ONLY <1>1, <1>2, <1>4
<1> QED
  BY <1>3 DEF Uses, OneLess

\* npf_conn_setpass: "the reference on the rule procedure is transferred".
LEMMA Transferred ==
  ASSUME Instance, NEW r \in Rprocs, NEW t \in PacketsOf[r], NEW c, c \notin ConnsOf[r],
         PacketsOf'[r] = PacketsOf[r] \ {t}, ConnsOf'[r] = ConnsOf[r] \cup {c},
         \A x \in Rprocs : x # r => PacketsOf'[x] = PacketsOf[x] /\ ConnsOf'[x] = ConnsOf[x],
         ConfigsOf' = ConfigsOf
  PROVE  \A x \in Rprocs : Uses'[x] = Uses[x]
<1>0. IsFiniteSet(PacketsOf[r]) /\ IsFiniteSet(ConnsOf[r])
  BY RefsFinite
<1>1. Cardinality(PacketsOf'[r]) = Cardinality(PacketsOf[r]) - 1
  BY ONLY <1>0, t \in PacketsOf[r], PacketsOf'[r] = PacketsOf[r] \ {t}, FS_RemoveElement, Zenon
<1>2. Cardinality(ConnsOf'[r]) = Cardinality(ConnsOf[r]) + 1
  BY ONLY <1>0, c \notin ConnsOf[r], ConnsOf'[r] = ConnsOf[r] \cup {c}, FS_AddElement, Zenon
<1>3. Uses'[r] = ConfigsOf[r] + Cardinality(ConnsOf'[r]) + Cardinality(PacketsOf'[r])
  BY DEF Uses
<1>4. Uses'[r] = Uses[r]
  BY <1>1, <1>2, <1>3, RefsFinite
<1> QED
  BY <1>4 DEF Uses

\* A configuration that is built takes, and one that is destroyed drops, one
\* reference at a time.
LEMMA ConfigMore ==
  ASSUME Instance, NEW r \in Rprocs, ConfigsOf'[r] = ConfigsOf[r] + 1,
         \A x \in Rprocs : x # r => ConfigsOf'[x] = ConfigsOf[x],
         ConnsOf' = ConnsOf, PacketsOf' = PacketsOf
  PROVE  OneMore(r)
<1>1. Uses'[r] = ConfigsOf'[r] + Cardinality(ConnsOf[r]) + Cardinality(PacketsOf[r])
  BY DEF Uses
<1>2. Uses'[r] = Uses[r] + 1
  BY <1>1, RefsFinite
<1> QED
  BY <1>2 DEF Uses, OneMore

\* The same for a reference that is dropped.
LEMMA ConfigLess ==
  ASSUME Instance, NEW r \in Rprocs, ConfigsOf'[r] = ConfigsOf[r] - 1,
         \A x \in Rprocs : x # r => ConfigsOf'[x] = ConfigsOf[x],
         ConnsOf' = ConnsOf, PacketsOf' = PacketsOf
  PROVE  OneLess(r)
<1>1. Uses'[r] = ConfigsOf'[r] + Cardinality(ConnsOf[r]) + Cardinality(PacketsOf[r])
  BY DEF Uses
<1>2. Uses'[r] = Uses[r] - 1
  BY <1>1, RefsFinite
<1> QED
  BY <1>2 DEF Uses, OneLess

\* npf_conn_inspect: a thread that takes a reference on a connection is one
\* holder more.
LEMMA HoldGain ==
  ASSUME Instance, TypeOK, HoldInv, NEW t \in Threads, NEW c \in Conns, t_con[t] = None,
         t_con' = [t_con EXCEPT ![t] = c],
         c_refcnt' = [c_refcnt EXCEPT ![c] = @ + 1],
         \A d \in Conns : c_state'[d] = "free" => c_state[d] = "free" /\ d # c
  PROVE  HoldInv' /\ c_refcnt' \in [Conns -> Nat]
<1> DEFINE v == c_refcnt[c] + 1
<1>1. v \in Nat /\ v = Cardinality(Holders[c]) + 1 /\ c_refcnt' = [c_refcnt EXCEPT ![c] = v]
  BY DEF TypeOK, HoldInv
<1> HIDE DEF v
<1>2. /\ t \notin Holders[c] /\ Holders'[c] = Holders[c] \cup {t}
      /\ \A d \in Conns : d # c => Holders'[d] = Holders[d]
  BY DEF TypeOK, Holders, Instance
<1>3. IsFiniteSet(Holders[c])
  <2>1. Holders[c] \subseteq Threads
    BY DEF Holders
  <2> QED
    BY <2>1, FS_Subset DEF Instance
<1>4. Cardinality(Holders'[c]) = Cardinality(Holders[c]) + 1
  BY ONLY <1>2, <1>3, FS_AddElement, Zenon
<1>5. c_refcnt' \in [Conns -> Nat] /\ c_refcnt'[c] = v /\ \A d \in Conns : d # c => c_refcnt'[d] = c_refcnt[d]
  BY <1>1 DEF TypeOK
<1>6. c_state'[c] # "free"
  OBVIOUS
<1>7. ASSUME NEW d \in Conns
      PROVE  c_refcnt'[d] = Cardinality(Holders'[d]) /\ (c_state'[d] = "free" => Holders'[d] = {})
  <2>1. CASE d = c
    BY <2>1, <1>1, <1>4, <1>5, <1>6
  <2>2. CASE d # c
    BY <2>2, <1>2, <1>5 DEF HoldInv
  <2> QED
    BY <2>1, <2>2
<1> QED
  BY <1>5, <1>7 DEF HoldInv

\* npf_conn_release: one holder less.
LEMMA HoldLose ==
  ASSUME Instance, TypeOK, HoldInv, NEW t \in Threads, NEW c \in Conns, t_con[t] = c,
         t_con' = [t_con EXCEPT ![t] = None],
         c_refcnt' = [c_refcnt EXCEPT ![c] = @ - 1],
         \A d \in Conns : c_state'[d] = "free" => c_state[d] = "free"
  PROVE  HoldInv' /\ c_refcnt' \in [Conns -> Nat]
<1> DEFINE v == c_refcnt[c] - 1
<1>2. /\ t \in Holders[c] /\ Holders'[c] = Holders[c] \ {t}
      /\ \A d \in Conns : d # c => Holders'[d] = Holders[d]
  BY DEF TypeOK, Holders, Instance
<1>3. IsFiniteSet(Holders[c]) /\ Cardinality(Holders[c]) \in Nat /\ Cardinality(Holders[c]) # 0
  <2>1. Holders[c] \subseteq Threads
    BY DEF Holders
  <2>2. IsFiniteSet(Holders[c])
    BY <2>1, FS_Subset DEF Instance
  <2> QED
    BY <1>2, <2>2, FS_CardinalityType, FS_EmptySet, Zenon
<1>1. v \in Nat /\ v = Cardinality(Holders[c]) - 1 /\ c_refcnt' = [c_refcnt EXCEPT ![c] = v]
  BY <1>3 DEF TypeOK, HoldInv
<1> HIDE DEF v
<1>4. Cardinality(Holders'[c]) = Cardinality(Holders[c]) - 1
  BY ONLY <1>2, <1>3, FS_RemoveElement, Zenon
<1>5. c_refcnt' \in [Conns -> Nat] /\ c_refcnt'[c] = v /\ \A d \in Conns : d # c => c_refcnt'[d] = c_refcnt[d]
  BY <1>1 DEF TypeOK
<1>6. c_state'[c] # "free"
  BY <1>2 DEF HoldInv
<1>7. ASSUME NEW d \in Conns
      PROVE  c_refcnt'[d] = Cardinality(Holders'[d]) /\ (c_state'[d] = "free" => Holders'[d] = {})
  <2>1. CASE d = c
    BY <2>1, <1>1, <1>4, <1>5, <1>6
  <2>2. CASE d # c
    BY <2>2, <1>2, <1>5 DEF HoldInv
  <2> QED
    BY <2>1, <2>2
<1> QED
  BY <1>5, <1>7 DEF HoldInv

-----------------------------------------------------------------------------
(* What a step leaves alone.                                               *)

\* A step that is none of the loader.
LEMMA LoadSame ==
  ASSUME LoadInv, UNCHANGED <<site, config, l_cfg, l_pc>>
  PROVE  LoadInv'
  BY DEF LoadInv, Made

\* A step that changes no connection.
LEMMA ConnSame ==
  ASSUME ConnInv, UNCHANGED <<site, c_state, c_pass, c_rproc>>
  PROVE  ConnInv'
  BY Zenon DEF ConnInv

\* A step in which nobody takes or drops a connection.
LEMMA HoldSame ==
  ASSUME HoldInv, UNCHANGED <<c_refcnt, t_con>>,
         \A c \in Conns : c_state'[c] = "free" => c_state[c] = "free"
  PROVE  HoldInv'
  BY DEF HoldInv, Holders

\* A step outside of the read section of a thread.
LEMMA ReadSame ==
  ASSUME TypeOK, ReadInv, UNCHANGED <<config, l_cfg, l_pc, readers, grace, t_cfg>>,
         NEW t \in Threads, pc[t] # "rule", NEW label, label # "rule", Goto(t, label)
  PROVE  ReadInv'
  BY DEF ReadInv, Goto, TypeOK

\* A step that leaves everybody's references alone.
LEMMA AllSame ==
  ASSUME RefInv, UNCHANGED <<rp_refcnt, rp_live, ext_refcnt, ext_live, config, l_cfg, l_pc, c_rproc>>,
         PacketsOf' = PacketsOf
  PROVE  RefInv'
<1>1. ConfigsOf' = ConfigsOf /\ ConnsOf' = ConnsOf
  BY DEF ConfigsOf, ConfigRefs, ConnsOf, ConnRefs
<1> QED
  BY <1>1, UsesSame, RefSame

-----------------------------------------------------------------------------
(* The steps of a packet.                                                  *)

\* npf_cache_all and the reassembly: no reference is taken.
LEMMA CacheKeeps ==
  ASSUME Instance, HandlerInv, NEW t \in Threads, NEW kind, npf_cache_all(t, kind)
  PROVE  HandlerInv'
<1> USE DEF HandlerInv
<1>1. pc[t] = "idle" /\ UNCHANGED <<rpVars, ext_live, connVars, ebrVars, t_con, t_rp, t_cfg, loadVars>>
  BY DEF npf_cache_all
<1>2. PICK label \in {"out", "idle", "nat"}, m \in {"held", "freed", "consumed"}, b \in BOOLEAN :
        /\ Goto(t, label) /\ t_mbuf' = [t_mbuf EXCEPT ![t] = m] /\ t_block' = [t_block EXCEPT ![t] = b]
        /\ label = "idle" => m = "consumed"
        /\ label = "out" => m = "held" \/ (m = "freed" /\ b)
        /\ label = "nat" => m = "held"
  <2> DEFINE b == kind \in {"malformed", "reassfail"}
  <2>1. b \in BOOLEAN /\ t_block' = [t_block EXCEPT ![t] = b]
    BY DEF npf_cache_all
  <2>2. \/ b /\ Goto(t, "out") /\ t_mbuf' = [t_mbuf EXCEPT ![t] = "held"]
        \/ b /\ Goto(t, "out") /\ t_mbuf' = [t_mbuf EXCEPT ![t] = "freed"]
        \/ ~b /\ Goto(t, "idle") /\ t_mbuf' = [t_mbuf EXCEPT ![t] = "consumed"]
        \/ ~b /\ Goto(t, "nat") /\ t_mbuf' = [t_mbuf EXCEPT ![t] = "held"]
    BY DEF npf_cache_all
  <2> HIDE DEF b
  <2> QED
    BY <2>1, <2>2, Zenon
<1>3. TypeOK'
  BY <1>1, <1>2 DEF TypeOK, Goto, rpVars, connVars, ebrVars, loadVars
<1>4. LoadInv' /\ ConnInv' /\ HoldInv'
  BY <1>1, LoadSame, ConnSame, HoldSame, Zenon DEF rpVars, connVars, loadVars
<1>5. ReadInv'
  BY <1>1, <1>2, ReadSame DEF ebrVars, loadVars
<1>6. ThreadInv'
  BY <1>1, <1>2, Zenon DEF ThreadInv, ThreadOK, Goto, TypeOK, rpVars, connVars
<1>7. MbufInv'
  BY <1>1, <1>2 DEF MbufInv, Goto, TypeOK
<1>8. RefInv'
  <2>1. PacketsOf' = PacketsOf
    BY <1>1, Zenon DEF PacketsOf, PacketRefs, connVars
  <2> QED
    BY <1>1, <2>1, AllSame, Zenon DEF rpVars, connVars, loadVars
<1> QED
  BY <1>3, <1>4, <1>5, <1>6, <1>7, <1>8

\* npf_conn_inspect: a connection's procedure is used with the reference that
\* the connection has.
LEMMA InspectKeeps ==
  ASSUME Instance, HandlerInv, NEW t \in Threads, NEW c \in Conns \cup {None}, npf_conn_inspect(t, c)
  PROVE  HandlerInv'
<1> USE DEF HandlerInv
<1>1. /\ pc[t] = "idle" /\ t_con[t] = None /\ t_rp[t] = None
      /\ t_con' = [t_con EXCEPT ![t] = c] /\ t_mbuf' = [t_mbuf EXCEPT ![t] = "held"]
      /\ t_block' = [t_block EXCEPT ![t] = FALSE]
      /\ UNCHANGED <<rpVars, ext_live, c_state, c_pass, c_rproc, ebrVars, t_cfg, loadVars>>
  BY Zenon DEF npf_conn_inspect, ThreadInv, ThreadOK
<1>2. PICK label \in {"nat", "ruleset"}, r \in Rprocs \cup {None} :
        /\ Goto(t, label) /\ t_rp' = [t_rp EXCEPT ![t] = r]
        /\ IF c = None THEN r = None /\ label = "ruleset" ELSE r = c_rproc[c] /\ (c_pass[c] <=> label = "nat")
  <2>1. CASE c = None
    <3>1. t_rp' = [t_rp EXCEPT ![t] = None]
      BY <1>1, <2>1 DEF npf_conn_inspect, TypeOK
    <3> QED
      BY <2>1, <3>1, Zenon DEF npf_conn_inspect
  <2>2. CASE c # None
    <3>1. c \in Conns /\ c_rproc[c] \in Rprocs \cup {None} /\ c_pass[c] \in BOOLEAN
      BY <2>2 DEF TypeOK
    <3> QED
      BY <2>2, <3>1, Zenon DEF npf_conn_inspect
  <2> QED
    BY <2>1, <2>2
<1>3. HoldInv' /\ c_refcnt' \in [Conns -> Nat]
  <2>1. CASE c = None
    <3>1. t_con' = t_con /\ c_refcnt' = c_refcnt
      BY <1>1, <2>1 DEF npf_conn_inspect, TypeOK
    <3> QED
      BY <1>1, <3>1, HoldSame DEF TypeOK
  <2>2. CASE c # None
    <3>1. c \in Conns /\ c_refcnt' = [c_refcnt EXCEPT ![c] = @ + 1] /\ c_state[c] = "active"
      BY <2>2 DEF npf_conn_inspect
    <3>2. \A d \in Conns : c_state'[d] = "free" => c_state[d] = "free" /\ d # c
      BY <1>1, <3>1, Zenon
    <3> QED
      BY <1>1, <3>1, <3>2, HoldGain, Zenon
  <2> QED
    BY <2>1, <2>2
<1>4. TypeOK'
  BY <1>1, <1>2, <1>3, Zenon DEF TypeOK, Goto, rpVars, ebrVars, loadVars
<1>5. LoadInv' /\ ConnInv'
  BY <1>1, LoadSame, ConnSame DEF rpVars, loadVars
<1>6. ReadInv'
  BY <1>1, <1>2, ReadSame, Zenon DEF ebrVars, loadVars
<1>7. ThreadInv'
  <2>1. /\ pc'[t] = label /\ t_con'[t] = c /\ t_rp'[t] = r /\ UNCHANGED <<c_pass, c_rproc, site>>
        /\ \A x \in Threads : x # t => pc'[x] = pc[x] /\ t_con'[x] = t_con[x] /\ t_rp'[x] = t_rp[x]
    BY <1>1, <1>2 DEF Goto, TypeOK, rpVars
  <2>2. label = "ruleset" /\ c # None => ~c_pass[c] /\ r = None
    BY <1>2, Zenon DEF ConnInv
  <2>3. ASSUME NEW x \in Threads, x # t PROVE ThreadOK(x)'
    <3>1. ThreadOK(x)
      BY DEF ThreadInv
    <3> QED
      BY <2>1, <2>3, <3>1, Zenon DEF ThreadOK
  <2>4. ThreadOK(t)'
    BY <1>2, <2>1, <2>2, Zenon DEF ThreadOK
  <2> QED
    BY <2>3, <2>4 DEF ThreadInv
<1>8. MbufInv'
  BY <1>1, <1>2 DEF MbufInv, Goto, TypeOK
<1>9. RefInv'
  <2>1. PacketsOf' = PacketsOf
    BY <1>1, <1>2 DEF PacketsOf, PacketRefs, TypeOK, Instance
  <2> QED
    BY <1>1, <2>1, AllSame, Zenon DEF rpVars, loadVars
<1> QED
  BY <1>3, <1>4, <1>5, <1>6, <1>7, <1>8, <1>9

\* A packet's step leaves the others alone: the connections they hold keep
\* their procedures.
LEMMA OthersOK ==
  ASSUME ThreadInv, NEW t \in Threads, UNCHANGED site,
         \A x \in Threads : x # t => pc'[x] = pc[x] /\ t_con'[x] = t_con[x] /\ t_rp'[x] = t_rp[x],
         \A x \in Threads : x # t /\ t_con[x] # None =>
           c_pass'[t_con[x]] = c_pass[t_con[x]] /\ c_rproc'[t_con[x]] = c_rproc[t_con[x]],
         ThreadOK(t)'
  PROVE  ThreadInv'
<1>1. ASSUME NEW x \in Threads, x # t PROVE ThreadOK(x)'
  <2>1. ThreadOK(x)
    BY DEF ThreadInv
  <2> QED
    BY <1>1, <2>1, Zenon DEF ThreadOK
<1> QED
  BY <1>1, Zenon DEF ThreadInv

\* npf_config_read_enter: the configuration that is read is the active one.
LEMMA EnterKeeps ==
  ASSUME Instance, HandlerInv, NEW t \in Threads, npf_config_read_enter(t)
  PROVE  HandlerInv'
<1> USE DEF HandlerInv
<1>1. /\ pc[t] = "ruleset" /\ readers' = readers \cup {t} /\ t_cfg' = [t_cfg EXCEPT ![t] = config]
      /\ Goto(t, "rule")
      /\ UNCHANGED <<rpVars, ext_live, connVars, grace, t_con, t_rp, t_mbuf, t_block, loadVars>>
  BY DEF npf_config_read_enter
<1>2. TypeOK'
  BY <1>1 DEF TypeOK, Goto, rpVars, connVars, loadVars
<1>3. LoadInv' /\ ConnInv' /\ HoldInv'
  BY <1>1, LoadSame, ConnSame, HoldSame, Zenon DEF rpVars, connVars, loadVars
<1>4. ReadInv'
  BY <1>1, Zenon DEF ReadInv, Goto, TypeOK, loadVars
<1>5. ThreadInv'
  <2>1. /\ pc'[t] = "rule" /\ UNCHANGED <<c_pass, c_rproc, site, t_con, t_rp>>
        /\ \A x \in Threads : x # t => pc'[x] = pc[x]
    BY <1>1, Zenon DEF Goto, TypeOK, rpVars, connVars
  <2>3. ThreadOK(t) /\ pc[t] = "ruleset"
    BY <1>1, Zenon DEF ThreadInv
  <2>2. ThreadOK(t)'
    BY <2>1, <2>3 DEF ThreadOK
  <2> QED
    BY <2>1, <2>2, OthersOK
<1>6. MbufInv'
  BY <1>1, Zenon DEF MbufInv, Goto, TypeOK
<1>7. RefInv'
  <2>1. PacketsOf' = PacketsOf
    BY <1>1, Zenon DEF PacketsOf, PacketRefs, connVars
  <2> QED
    BY <1>1, <2>1, AllSame DEF rpVars, connVars, loadVars
<1> QED
  BY <1>2, <1>3, <1>4, <1>5, <1>6, <1>7

\* npf_ruleset_inspect: within the read section the configuration still has its
\* own references, so that npf_rule_getrproc acquires a live procedure.
LEMMA RuleKeeps ==
  ASSUME Instance, HandlerInv, NEW t \in Threads, NEW match \in BOOLEAN, NEW dp \in BOOLEAN,
         npf_ruleset_inspect(t, match, dp)
  PROVE  HandlerInv'
<1> USE DEF HandlerInv
<1> DEFINE cfg == t_cfg[t]
           r == IF match THEN cfg.rp ELSE None
           pass == IF match THEN cfg.pass ELSE dp
<1>1. /\ pc[t] = "rule" /\ npf_rproc_acquire(r) /\ t_rp' = [t_rp EXCEPT ![t] = r]
      /\ t_cfg' = [t_cfg EXCEPT ![t] = None] /\ readers' = readers \ {t} /\ grace' = grace \ {t}
      /\ UNCHANGED <<rp_live, ext_refcnt, site, ext_live, connVars, t_con, t_mbuf, loadVars>>
  BY Zenon DEF npf_ruleset_inspect
<1>2. match => cfg \in Configs /\ (cfg = config \/ (cfg = l_cfg /\ l_pc = "sync"))
  <2>1. match => cfg # None
    BY Zenon DEF npf_ruleset_inspect
  <2>2. cfg \in Configs \cup {None}
    BY DEF TypeOK
  <2>3. cfg # None => cfg = config \/ (cfg = l_cfg /\ l_pc = "sync")
    BY DEF ReadInv
  <2> QED
    BY <2>1, <2>2, <2>3
<1>3. r \in Rprocs \cup {None} /\ pass \in BOOLEAN
  BY <1>2 DEF Configs
<1>4. r # None => \E rule \in site.rules : rule.rproc /\ rule.stateful = cfg.stateful /\ rule.pass = cfg.pass
  BY <1>2 DEF LoadInv, Made, Instance
<1>5. PICK label \in {"run", "establish", "nat"} :
        /\ Goto(t, label) /\ t_block' = [t_block EXCEPT ![t] = ~pass]
        /\ label = "establish" => t_con[t] = None /\ match /\ cfg.stateful /\ cfg.pass
  BY Zenon DEF npf_ruleset_inspect
<1>6. t_rp[t] = None /\ (t_con[t] # None => t_con[t] \in Conns /\ ~c_pass[t_con[t]] /\ c_rproc[t_con[t]] = None)
  BY <1>1, Zenon DEF ThreadInv, ThreadOK, ConnInv, TypeOK
<1>7. t_con[t] # None => site.nat
  <2>1. t_con[t] # None => t \in Holders[t_con[t]]
    BY <1>6 DEF Holders
  <2> QED
    BY <1>6, <2>1, Zenon DEF HoldInv, ConnInv
<1>8. site \in Sites
  BY DEF LoadInv
<1>9. RefInv' /\ rp_refcnt' \in [Rprocs -> Nat]
  <2>1. CASE r = None
    <3>1. rp_refcnt' = rp_refcnt
      BY <1>1, <2>1, Zenon DEF npf_rproc_acquire
    <3>2. t_rp' = t_rp
      BY <1>1, <1>6, <2>1, Zenon DEF TypeOK
    <3>3. PacketsOf' = PacketsOf
      BY <1>1, <3>2, Zenon DEF PacketsOf, PacketRefs, connVars
    <3> QED
      BY <1>1, <3>1, <3>3, AllSame, Zenon DEF connVars, loadVars, TypeOK
  <2>2. CASE r # None
    <3>1. r \in Rprocs /\ match
      BY <1>3, <2>2
    <3>2. ConfigsOf[r] # 0
      BY <1>2, <3>1, <2>2 DEF ConfigsOf, ConfigRefs, Instance
    <3>3. r \in rp_live
      BY <3>1, <3>2, UsedIsLive, Zenon
    <3> HIDE DEF r
    <3>4. /\ t \notin PacketsOf[r] /\ PacketsOf'[r] = PacketsOf[r] \cup {t}
          /\ \A x \in Rprocs : x # r => PacketsOf'[x] = PacketsOf[x]
      BY <1>1, <1>6, <2>2, <3>1 DEF PacketsOf, PacketRefs, TypeOK, connVars, Instance
    <3>5. ConfigsOf' = ConfigsOf /\ ConnsOf' = ConnsOf
      BY <1>1, Zenon DEF ConfigsOf, ConfigRefs, ConnsOf, ConnRefs, connVars, loadVars
    <3>6. OneMore(r)
      BY <3>1, <3>4, <3>5, PacketGain, Zenon
    <3> QED
      BY <1>1, <3>1, <3>3, <3>6, RefUp
  <2> QED
    BY <2>1, <2>2
<1>10. ThreadOK(t)'
  <2>1. /\ pc'[t] = label /\ t_con'[t] = t_con[t] /\ t_rp'[t] = r /\ UNCHANGED <<c_rproc, site>>
    BY <1>1, <1>5 DEF Goto, TypeOK, connVars
  <2>2. label = "establish" /\ r # None => FALSE \notin site.results
    BY <1>4, <1>5, <1>8, Zenon DEF Instance, Harmless
  <2>3. t_con[t] # None /\ r # None => TRUE \notin site.results
    BY <1>4, <1>7, <1>8, Zenon DEF Instance, Harmless
  <2> HIDE DEF r
  <2> QED
    BY <1>5, <1>6, <2>1, <2>2, <2>3, Zenon DEF ThreadOK
<1> HIDE DEF r, pass, cfg
<1>11. TypeOK'
  BY <1>1, <1>3, <1>5, <1>9 DEF TypeOK, Goto, connVars, loadVars
<1>12. LoadInv' /\ ConnInv' /\ HoldInv'
  BY <1>1, LoadSame, ConnSame, HoldSame, Zenon DEF connVars, loadVars
<1>13. ReadInv'
  BY <1>1, <1>5, Zenon DEF ReadInv, Goto, TypeOK, loadVars
<1>14. ThreadInv'
  <2>1. /\ UNCHANGED <<c_pass, c_rproc, site, t_con>>
        /\ \A x \in Threads : x # t => pc'[x] = pc[x] /\ t_rp'[x] = t_rp[x]
    BY <1>1, <1>5, Zenon DEF Goto, TypeOK, connVars
  <2> QED
    BY <1>10, <2>1, OthersOK, Zenon
<1>15. MbufInv'
  BY <1>1, <1>5, Zenon DEF MbufInv, Goto, TypeOK
<1> QED
  BY <1>9, <1>11, <1>12, <1>13, <1>14, <1>15

\* A free connection has no procedure and nobody holds it.
LEMMA FreeConn ==
  ASSUME Instance, HandlerInv, NEW c \in Conns, c_state[c] = "free"
  PROVE  /\ c_rproc[c] = None /\ c_pass[c] = FALSE /\ c_refcnt[c] = 0
         /\ \A x \in Threads : t_con[x] # c
<1>1. Holders[c] = {} /\ c_refcnt[c] = Cardinality(Holders[c])
  BY DEF HandlerInv, HoldInv
<1>2. c_refcnt[c] = 0
  BY <1>1, FS_EmptySet, Zenon
<1>3. \A x \in Threads : t_con[x] # c
  BY <1>1 DEF Holders
<1>4. c_pass[c] \in BOOLEAN /\ ~c_pass[c] /\ c_rproc[c] = None
  BY Zenon DEF HandlerInv, ConnInv, TypeOK
<1> QED
  BY <1>2, <1>3, <1>4

\* npf_conn_setpass hands the packet's reference over to the new connection.
LEMMA SetpassKeeps ==
  ASSUME Instance, HandlerInv, NEW t \in Threads, NEW c \in Conns \cup {None}, npf_conn_setpass(t, c)
  PROVE  HandlerInv'
<1> USE DEF HandlerInv
<1> DEFINE r == t_rp[t]
<1>1. /\ pc[t] = "establish" /\ Goto(t, "nat") /\ t_con[t] = None /\ r \in Rprocs \cup {None}
      /\ r # None => FALSE \notin site.results
      /\ UNCHANGED <<rpVars, ext_live, ebrVars, t_rp, t_cfg, t_mbuf, t_block, loadVars>>
  BY Zenon DEF npf_conn_setpass, ThreadInv, ThreadOK, TypeOK
<1>p. pc'[t] = "nat" /\ \A x \in Threads : x # t => pc'[x] = pc[x]
  BY <1>1 DEF Goto, TypeOK
<1>2. LoadInv' /\ ReadInv'
  BY <1>1, LoadSame, ReadSame, Zenon DEF rpVars, ebrVars, loadVars
<1>3. MbufInv'
  BY <1>1 DEF MbufInv, Goto, TypeOK
<1>4. CASE c = None
  <2>1. UNCHANGED <<connVars, t_con>>
    BY <1>4, Zenon DEF npf_conn_setpass
  <2>2. TypeOK'
    BY <1>1, <2>1, Zenon DEF TypeOK, Goto, rpVars, connVars, ebrVars, loadVars
  <2>3. ConnInv' /\ HoldInv'
    BY <1>1, <2>1, ConnSame, HoldSame, Zenon DEF rpVars, connVars
  <2>4. ThreadInv'
    <3>2. t_con'[t] = None
      BY <1>1, <2>1, Zenon
    <3>1. ThreadOK(t)'
      BY <1>p, <3>2, Zenon DEF ThreadOK
    <3> QED
      BY <1>1, <1>p, <2>1, <3>1, OthersOK, Zenon DEF rpVars, connVars
  <2>5. PacketsOf' = PacketsOf
    BY <1>1, <2>1, Zenon DEF PacketsOf, PacketRefs, connVars
  <2>6. RefInv'
    BY <1>1, <2>1, <2>5, AllSame, Zenon DEF rpVars, connVars, loadVars
  <2> QED
    BY <1>2, <1>3, <2>2, <2>3, <2>4, <2>6
<1>5. CASE c # None
  <2>1. /\ c \in Conns /\ c_state[c] = "free" /\ c_state' = [c_state EXCEPT ![c] = "new"]
        /\ c_refcnt' = [c_refcnt EXCEPT ![c] = 1] /\ c_pass' = [c_pass EXCEPT ![c] = TRUE]
        /\ c_rproc' = [c_rproc EXCEPT ![c] = r] /\ t_con' = [t_con EXCEPT ![t] = c]
    BY <1>5, Zenon DEF npf_conn_setpass
  <2>2. /\ c_rproc[c] = None /\ c_refcnt[c] = 0 /\ \A x \in Threads : t_con[x] # c
    BY <2>1, FreeConn, Zenon
  <2> HIDE DEF r
  <2>3. /\ c_rproc'[c] = r /\ c_pass'[c] = TRUE /\ c_state'[c] = "new"
        /\ \A d \in Conns : d # c => c_rproc'[d] = c_rproc[d] /\ c_pass'[d] = c_pass[d] /\ c_state'[d] = c_state[d]
    BY <2>1 DEF TypeOK
  <2>4. t_con'[t] = c /\ \A x \in Threads : x # t => t_con'[x] = t_con[x]
    BY <2>1, Zenon DEF TypeOK
  <2>5. HoldInv' /\ c_refcnt' \in [Conns -> Nat]
    <3>1. c_refcnt' = [c_refcnt EXCEPT ![c] = @ + 1]
      BY <2>1, <2>2
    <3>2. \A d \in Conns : c_state'[d] = "free" => c_state[d] = "free" /\ d # c
      BY <2>3
    <3>3. t_con[t] = None /\ t_con' = [t_con EXCEPT ![t] = c] /\ c \in Conns
      BY <1>1, <2>1, Zenon
    <3> QED
      BY <3>1, <3>2, <3>3, HoldGain, Zenon
  <2>6. TypeOK'
    BY <1>1, <2>1, <2>5, Zenon DEF TypeOK, Goto, rpVars, ebrVars, loadVars
  <2>7. ConnInv'
    <3>1. UNCHANGED site
      BY <1>1, Zenon DEF rpVars
    <3> QED
      BY <1>1, <2>3, <3>1, Zenon DEF ConnInv
  <2>8. ThreadInv'
    <3>1. UNCHANGED <<site, t_rp>> /\ t_rp'[t] = r
      BY <1>1 DEF rpVars, r
    <3>2. ThreadOK(t)'
      BY <1>p, <2>3, <2>4, <3>1, Zenon DEF ThreadOK
    <3>3. \A x \in Threads : x # t /\ t_con[x] # None => t_con[x] \in Conns /\ t_con[x] # c
      BY <2>2 DEF TypeOK
    <3> QED
      BY <1>p, <2>3, <2>4, <3>1, <3>2, <3>3, OthersOK, Zenon
  <2>9. RefInv'
    <3>1. UNCHANGED <<rp_refcnt, rp_live, ext_refcnt, ext_live, config, l_cfg, l_pc, t_rp>> /\ t_rp[t] = r
      BY <1>1, Zenon DEF rpVars, loadVars, r
    <3>2. CASE r = None
      <4>1. c_rproc' = c_rproc
        BY <2>1, <2>2, <3>2, Zenon DEF TypeOK
      <4>2. PacketsOf' = PacketsOf
        <5>1. ASSUME NEW y \in Rprocs PROVE y # None /\ t_rp[t] # y /\ t_rp'[t] # y
          BY <3>1, <3>2, Zenon DEF Instance
        <5>2. ASSUME NEW y \in Rprocs PROVE PacketRefs(y)' = PacketRefs(y)
          BY <2>4, <3>1, <4>1, <5>1, Zenon DEF PacketRefs
        <5> QED
          BY <5>2, Zenon DEF PacketsOf
      <4> QED
        BY <3>1, <4>1, <4>2, AllSame
    <3>3. CASE r # None
      <4>1. r \in Rprocs
        BY <1>1, <3>3, Zenon DEF r
      <4>2. /\ t \in PacketsOf[r] /\ PacketsOf'[r] = PacketsOf[r] \ {t}
            /\ \A x \in Rprocs : x # r => PacketsOf'[x] = PacketsOf[x]
        <5>1. \A x \in Threads : x # t /\ t_con[x] # None => c_rproc'[t_con[x]] = c_rproc[t_con[x]]
          BY <2>2, <2>3, Zenon DEF TypeOK
        <5>2. t_con[t] = None /\ t_con'[t] # None /\ c_rproc'[t_con'[t]] = r
          BY <1>1, <1>5, <2>3, <2>4, Zenon
        <5> QED
          BY <2>4, <3>1, <4>1, <5>1, <5>2 DEF PacketsOf, PacketRefs
      <4>3. /\ c \notin ConnsOf[r] /\ ConnsOf'[r] = ConnsOf[r] \cup {c}
            /\ \A x \in Rprocs : x # r => ConnsOf'[x] = ConnsOf[x]
        BY <2>1, <2>2, <2>3, <3>3, <4>1 DEF ConnsOf, ConnRefs, Instance
      <4>4. ConfigsOf' = ConfigsOf
        BY <3>1 DEF ConfigsOf, ConfigRefs
      <4>5. \A x \in Rprocs : Uses'[x] = Uses[x]
        BY <4>1, <4>2, <4>3, <4>4, Transferred, Zenon
      <4> QED
        BY <3>1, <4>5, RefSame
    <3> QED
      BY <3>2, <3>3
  <2> QED
    BY <1>2, <1>3, <2>5, <2>6, <2>7, <2>8, <2>9
<1> QED
  BY <1>4, <1>5

\* npf_do_nat: a connection it establishes is not a "pass" connection and has
\* no procedure.
LEMMA NatKeeps ==
  ASSUME Instance, HandlerInv, NEW t \in Threads, NEW c \in Conns \cup {None}, NEW ok \in BOOLEAN,
         npf_do_nat(t, c, ok)
  PROVE  HandlerInv'
<1> USE DEF HandlerInv
<1>1. /\ pc[t] = "nat" /\ Goto(t, "run") /\ t_block' = [t_block EXCEPT ![t] = ~ok]
      /\ UNCHANGED <<rpVars, ext_live, ebrVars, t_con, t_rp, t_cfg, t_mbuf, loadVars>>
  BY Zenon DEF npf_do_nat
<1>2. /\ UNCHANGED <<c_pass, c_rproc, c_refcnt>>
      /\ \/ c_state' = c_state
         \/ c \in Conns /\ site.nat /\ c_state' = [c_state EXCEPT ![c] = "active"]
  <2>1. CASE c = None
    BY <2>1, Zenon DEF npf_do_nat, connVars
  <2>2. CASE c # None
    <3>1. /\ site.nat /\ c \in Conns /\ c_state[c] = "free" /\ c_state' = [c_state EXCEPT ![c] = "active"]
          /\ c_pass' = [c_pass EXCEPT ![c] = FALSE] /\ c_rproc' = [c_rproc EXCEPT ![c] = None]
          /\ UNCHANGED c_refcnt
      BY <2>2, Zenon DEF npf_do_nat
    <3>2. c_rproc[c] = None /\ c_pass[c] = FALSE
      BY <3>1, FreeConn, Zenon
    <3> QED
      BY <3>1, <3>2 DEF TypeOK
  <2> QED
    BY <2>1, <2>2
<1>3. TypeOK'
  BY <1>1, <1>2 DEF TypeOK, Goto, rpVars, ebrVars, loadVars
<1>4. LoadInv' /\ ReadInv'
  BY <1>1, LoadSame, ReadSame, Zenon DEF rpVars, ebrVars, loadVars
<1>5. ConnInv' /\ HoldInv'
  <2>1. UNCHANGED <<site, t_con>>
    BY <1>1 DEF rpVars
  <2>2. \A d \in Conns : c_state'[d] = c_state[d] \/ (c_state'[d] = "active" /\ site.nat)
    BY <1>2, Zenon DEF TypeOK
  <2> QED
    BY <1>2, <2>1, <2>2, HoldSame, Zenon DEF ConnInv
<1>6. ThreadInv'
  <2>1. /\ pc'[t] = "run" /\ UNCHANGED <<c_pass, c_rproc, site, t_con, t_rp>>
        /\ \A x \in Threads : x # t => pc'[x] = pc[x]
    BY <1>1, <1>2 DEF Goto, TypeOK, rpVars
  <2>2. ThreadOK(t) /\ pc[t] = "nat"
    BY <1>1 DEF ThreadInv
  <2>3. ThreadOK(t)'
    BY <2>1, <2>2, Zenon DEF ThreadOK
  <2> QED
    BY <2>1, <2>3, OthersOK, Zenon
<1>7. MbufInv'
  BY <1>1 DEF MbufInv, Goto, TypeOK
<1>8. RefInv'
  <2>1. PacketsOf' = PacketsOf
    BY <1>1, <1>2, Zenon DEF PacketsOf, PacketRefs
  <2> QED
    BY <1>1, <1>2, <2>1, AllSame, Zenon DEF rpVars, loadVars
<1> QED
  BY <1>3, <1>4, <1>5, <1>6, <1>7, <1>8

\* npf_rproc_run: a procedure that consumes the packet is never one of the
\* connection that the packet has, and one that does not is.
LEMMA RunKeeps ==
  ASSUME Instance, HandlerInv, NEW t \in Threads, NEW more \in site.results, NEW block \in BOOLEAN,
         npf_rproc_run(t, more, block)
  PROVE  HandlerInv'
<1> USE DEF HandlerInv
<1>1. /\ pc[t] = "run" /\ UNCHANGED <<rpVars, ext_live, connVars, ebrVars, t_con, t_rp, t_cfg, loadVars>>
      /\ ThreadOK(t) /\ t_mbuf[t] = "held"
      /\ t_con[t] \in Conns \cup {None}
  BY Zenon DEF npf_rproc_run, ThreadInv, MbufInv, TypeOK
<1>2. PICK label \in {"out", "drop_rproc", "consumed"}, m \in {"held", "freed"}, b \in BOOLEAN :
        /\ Goto(t, label) /\ t_mbuf' = [t_mbuf EXCEPT ![t] = m] /\ t_block' = [t_block EXCEPT ![t] = b]
        /\ label = "out" <=> m = "held"
        /\ label = "out" => t_rp[t] = None \/ TRUE \in site.results
        /\ label # "out" => t_rp[t] # None /\ FALSE \in site.results /\ (t_con[t] = None <=> label = "drop_rproc")
  <2>0. /\ t_mbuf' = t_mbuf => t_mbuf' = [t_mbuf EXCEPT ![t] = "held"]
        /\ t_block' = t_block => t_block' = [t_block EXCEPT ![t] = t_block[t]]
        /\ t_block[t] \in BOOLEAN
    BY <1>1 DEF TypeOK
  <2>m. more \in BOOLEAN
    BY Zenon DEF Instance, LoadInv
  <2>1. CASE t_rp[t] = None /\ Goto(t, "out") /\ UNCHANGED <<t_block, t_mbuf>>
    BY <2>0, <2>1
  <2>2. CASE /\ t_rp[t] # None /\ more /\ t_block' = [t_block EXCEPT ![t] = @ \/ block]
             /\ Goto(t, "out") /\ UNCHANGED t_mbuf
    <3>1. (t_block[t] \/ block) \in BOOLEAN
      BY <2>0
    <3> QED
      BY <2>0, <2>2, <2>m, <3>1, Zenon
  <2>3. CASE /\ t_rp[t] # None /\ ~more /\ FreeMbuf(t) /\ UNCHANGED t_block
             /\ Goto(t, IF t_con[t] = None THEN "drop_rproc" ELSE "consumed")
    <3>1. t_mbuf' = [t_mbuf EXCEPT ![t] = "freed"]
      BY <1>1, <2>3 DEF FreeMbuf
    <3> QED
      BY <2>0, <2>3, <2>m, <3>1, Zenon
  <2> QED
    BY <2>1, <2>2, <2>3, Zenon DEF npf_rproc_run
<1>3. TypeOK'
  BY <1>1, <1>2 DEF TypeOK, Goto, rpVars, connVars, ebrVars, loadVars
<1>4. LoadInv' /\ ConnInv' /\ HoldInv'
  BY <1>1, LoadSame, ConnSame, HoldSame, Zenon DEF rpVars, connVars, loadVars
<1>5. ReadInv'
  BY <1>1, <1>2, ReadSame, Zenon DEF ebrVars, loadVars
<1>6. ThreadInv'
  <2>1. /\ pc'[t] = label /\ UNCHANGED <<c_pass, c_rproc, site, t_con, t_rp>>
        /\ \A x \in Threads : x # t => pc'[x] = pc[x]
    BY <1>1, <1>2, Zenon DEF Goto, TypeOK, rpVars, connVars
  <2>2. t_con[t] # None => t_rp[t] = c_rproc[t_con[t]] \/ (c_rproc[t_con[t]] = None /\ TRUE \notin site.results)
    BY <1>1, Zenon DEF ThreadOK
  <2>3. t_con[t] # None /\ c_rproc[t_con[t]] # None => FALSE \notin site.results
    BY <1>1, Zenon DEF ConnInv
  <2>4. t_con[t] # None => IF label = "out" THEN t_rp[t] = c_rproc[t_con[t]] ELSE c_rproc[t_con[t]] = None
    BY <1>2, <2>2, <2>3, Zenon
  <2>5. ThreadOK(t)'
    BY <1>2, <2>1, <2>4, Zenon DEF ThreadOK
  <2> QED
    BY <2>1, <2>5, OthersOK
<1>7. MbufInv'
  BY <1>1, <1>2 DEF MbufInv, Goto, TypeOK
<1>8. RefInv'
  <2>1. PacketsOf' = PacketsOf
    BY <1>1 DEF PacketsOf, PacketRefs, connVars
  <2> QED
    BY <1>1, <2>1, AllSame, Zenon DEF rpVars, connVars, loadVars
<1> QED
  BY <1>3, <1>4, <1>5, <1>6, <1>7, <1>8, Zenon

\* npf_conn_release: the connection stays, and with it its procedure.
LEMMA ReleaseKeeps ==
  ASSUME Instance, TypeOK, ConnInv, HoldInv, NEW t \in Threads, t_con[t] # None, ConnRelease(t_con[t]),
         t_con' = [t_con EXCEPT ![t] = None], UNCHANGED site
  PROVE  /\ ConnInv' /\ HoldInv' /\ c_refcnt' \in [Conns -> Nat]
         /\ c_state' \in [Conns -> {"free", "new", "active"}]
         /\ UNCHANGED <<c_pass, c_rproc>>
<1> DEFINE c == t_con[t]
<1>1. /\ c \in Conns /\ c_state' = [c_state EXCEPT ![c] = "active"] /\ UNCHANGED <<c_pass, c_rproc>>
      /\ c_refcnt' = [c_refcnt EXCEPT ![c] = @ - 1]
  BY Zenon DEF ConnRelease, TypeOK
<1>2. c_state[c] # "free"
  <2>1. t \in Holders[c]
    BY <1>1 DEF Holders
  <2> QED
    BY <1>1, <2>1, Zenon DEF HoldInv
<1>3. \A d \in Conns : c_state'[d] = "free" <=> c_state[d] = "free"
  BY <1>1, <1>2, Zenon DEF TypeOK
<1>4. HoldInv' /\ c_refcnt' \in [Conns -> Nat]
  BY <1>1, <1>3, HoldLose, Zenon
<1>5. ConnInv'
  BY <1>1, <1>3, Zenon DEF ConnInv
<1> QED
  BY <1>1, <1>4, <1>5, Zenon DEF TypeOK

\* After a procedure has consumed the packet, the connection is released; the
\* packet's reference is still its own.
LEMMA ConsumedKeeps ==
  ASSUME Instance, HandlerInv, NEW t \in Threads, handler_consumed(t)
  PROVE  HandlerInv'
<1> USE DEF HandlerInv
<1>1. /\ pc[t] = "consumed" /\ ConnRelease(t_con[t]) /\ t_con' = [t_con EXCEPT ![t] = None]
      /\ Goto(t, "drop_rproc")
      /\ UNCHANGED <<rpVars, ext_live, ebrVars, t_rp, t_cfg, t_mbuf, t_block, loadVars>>
  BY DEF handler_consumed
<1>2. t_con[t] # None /\ t_rp[t] # None /\ c_rproc[t_con[t]] = None
  BY <1>1, Zenon DEF ThreadInv, ThreadOK
<1>3. /\ ConnInv' /\ HoldInv' /\ c_refcnt' \in [Conns -> Nat]
      /\ c_state' \in [Conns -> {"free", "new", "active"}] /\ UNCHANGED <<c_pass, c_rproc>>
  BY <1>1, <1>2, ReleaseKeeps, Zenon DEF rpVars
<1>4. TypeOK'
  BY <1>1, <1>3 DEF TypeOK, Goto, rpVars, ebrVars, loadVars
<1>5. LoadInv' /\ ReadInv'
  BY <1>1, LoadSame, ReadSame, Zenon DEF rpVars, ebrVars, loadVars
<1>6. ThreadInv'
  <2>1. /\ pc'[t] = "drop_rproc" /\ t_con'[t] = None /\ UNCHANGED <<c_pass, c_rproc, site, t_rp>>
        /\ \A x \in Threads : x # t => pc'[x] = pc[x] /\ t_con'[x] = t_con[x]
    BY <1>1, <1>3, Zenon DEF Goto, TypeOK, rpVars
  <2>2. ThreadOK(t)'
    BY <1>2, <2>1, Zenon DEF ThreadOK
  <2> QED
    BY <2>1, <2>2, OthersOK, Zenon
<1>7. MbufInv'
  BY <1>1, Zenon DEF MbufInv, Goto, TypeOK
<1>8. RefInv'
  <2>1. PacketsOf' = PacketsOf
    BY <1>1, <1>2, <1>3 DEF PacketsOf, PacketRefs, TypeOK, Instance
  <2> QED
    BY <1>1, <1>3, <2>1, AllSame, Zenon DEF rpVars, loadVars
<1> QED
  BY <1>3, <1>4, <1>5, <1>6, <1>7, <1>8

\* The packet's own reference is released: on either exit of the handler.
LEMMA DropRef ==
  ASSUME Instance, HandlerInv, NEW t \in Threads, NEW r \in Rprocs, t_rp[t] = r, t_con[t] = None,
         npf_rproc_release(r), t_rp' = [t_rp EXCEPT ![t] = None],
         UNCHANGED <<t_con, c_rproc, ext_live, config, l_cfg, l_pc>>
  PROVE  /\ RefInv' /\ rp_refcnt' \in [Rprocs -> Nat] /\ rp_live' \subseteq Rprocs
         /\ ext_refcnt' \in Nat /\ UNCHANGED site
<1>0. TypeOK /\ RefInv /\ r # None
  BY Zenon DEF HandlerInv, Instance
<1>1. /\ t \in PacketsOf[r] /\ PacketsOf'[r] = PacketsOf[r] \ {t}
      /\ \A x \in Rprocs : x # r => PacketsOf'[x] = PacketsOf[x]
  BY <1>0 DEF PacketsOf, PacketRefs, TypeOK, Instance
<1>2. ConfigsOf' = ConfigsOf /\ ConnsOf' = ConnsOf
  BY Zenon DEF ConfigsOf, ConfigRefs, ConnsOf, ConnRefs
<1>3. OneLess(r)
  BY <1>1, <1>2, PacketLose, Zenon
<1>4. r \in rp_live
  BY <1>0, <1>1, UsedIsLive, Zenon
<1> QED
  BY <1>0, <1>3, <1>4, RefDown

\* The exit of a packet that was consumed: the reference of the packet goes.
LEMMA DropKeeps ==
  ASSUME Instance, HandlerInv, NEW t \in Threads, handler_drop_rproc(t)
  PROVE  HandlerInv'
<1> USE DEF HandlerInv
<1>1. /\ pc[t] = "drop_rproc" /\ npf_rproc_release(t_rp[t]) /\ t_rp' = [t_rp EXCEPT ![t] = None]
      /\ Goto(t, "idle")
      /\ UNCHANGED <<ext_live, connVars, ebrVars, t_con, t_cfg, t_mbuf, t_block, loadVars>>
  BY Zenon DEF handler_drop_rproc
<1>2. t_con[t] = None /\ t_rp[t] \in Rprocs
  BY <1>1, Zenon DEF ThreadInv, ThreadOK, TypeOK
<1>3. /\ RefInv' /\ rp_refcnt' \in [Rprocs -> Nat] /\ rp_live' \subseteq Rprocs
      /\ ext_refcnt' \in Nat /\ UNCHANGED site
  BY <1>1, <1>2, DropRef, Zenon DEF connVars, loadVars
<1>4. TypeOK'
  BY <1>1, <1>3 DEF TypeOK, Goto, connVars, ebrVars, loadVars
<1>5. LoadInv' /\ ConnInv' /\ HoldInv'
  BY <1>1, <1>3, LoadSame, ConnSame, HoldSame, Zenon DEF connVars, loadVars
<1>6. ReadInv'
  BY <1>1, ReadSame, Zenon DEF ebrVars, loadVars
<1>7. ThreadInv'
  <2>1. /\ pc'[t] = "idle" /\ t_con'[t] = None /\ t_rp'[t] = None /\ UNCHANGED <<c_pass, c_rproc, site, t_con>>
        /\ \A x \in Threads : x # t => pc'[x] = pc[x] /\ t_rp'[x] = t_rp[x]
    BY <1>1, <1>2, <1>3, Zenon DEF Goto, TypeOK, connVars
  <2>2. ThreadOK(t)'
    BY <2>1, Zenon DEF ThreadOK
  <2> QED
    BY <2>1, <2>2, OthersOK, Zenon
<1>8. MbufInv'
  BY <1>1 DEF MbufInv, Goto, TypeOK
<1> QED
  BY <1>3, <1>4, <1>5, <1>6, <1>7, <1>8

\* The common exit: "only if there was no association" is right, because a
\* connection that the packet has at this point has the packet's procedure.
LEMMA OutKeeps ==
  ASSUME Instance, HandlerInv, NEW t \in Threads, handler_out(t)
  PROVE  HandlerInv'
<1> USE DEF HandlerInv
<1>1. /\ pc[t] = "out" /\ t_con' = [t_con EXCEPT ![t] = None] /\ t_rp' = [t_rp EXCEPT ![t] = None]
      /\ Goto(t, "return") /\ UNCHANGED <<ext_live, ebrVars, t_cfg, t_mbuf, t_block, loadVars>>
  BY Zenon DEF handler_out
<1>2. t_con[t] # None => t_con[t] \in Conns /\ t_rp[t] = c_rproc[t_con[t]]
  BY <1>1, Zenon DEF ThreadInv, ThreadOK, TypeOK
<1>3. /\ ConnInv' /\ HoldInv' /\ RefInv' /\ UNCHANGED <<c_pass, c_rproc, site>>
      /\ c_refcnt' \in [Conns -> Nat] /\ c_state' \in [Conns -> {"free", "new", "active"}]
      /\ rp_refcnt' \in [Rprocs -> Nat] /\ rp_live' \subseteq Rprocs /\ ext_refcnt' \in Nat
  <2>1. CASE t_con[t] # None /\ ConnRelease(t_con[t]) /\ UNCHANGED rpVars
    <3>1. /\ ConnInv' /\ HoldInv' /\ c_refcnt' \in [Conns -> Nat]
          /\ c_state' \in [Conns -> {"free", "new", "active"}] /\ UNCHANGED <<c_pass, c_rproc>>
      BY <1>1, <2>1, ReleaseKeeps, Zenon DEF rpVars
    <3>2. PacketsOf' = PacketsOf
      BY <1>1, <1>2, <2>1, <3>1 DEF PacketsOf, PacketRefs, TypeOK, Instance
    <3>3. RefInv'
      BY <1>1, <2>1, <3>1, <3>2, AllSame DEF rpVars, loadVars
    <3> QED
      BY <2>1, <3>1, <3>3 DEF rpVars, TypeOK
  <2>2. CASE t_con[t] = None /\ UNCHANGED connVars
    <3>1. t_con' = t_con
      BY <1>1, <2>2, Zenon DEF TypeOK
    <3>2. /\ RefInv' /\ rp_refcnt' \in [Rprocs -> Nat] /\ rp_live' \subseteq Rprocs
          /\ ext_refcnt' \in Nat /\ UNCHANGED site
      <4>1. CASE t_rp[t] # None /\ npf_rproc_release(t_rp[t])
        <5>1. t_rp[t] \in Rprocs
          BY <4>1 DEF TypeOK
        <5> QED
          BY <1>1, <2>2, <3>1, <4>1, <5>1, DropRef, Zenon DEF connVars, loadVars
      <4>2. CASE t_rp[t] = None /\ UNCHANGED rpVars
        <5>1. t_rp' = t_rp
          BY <1>1, <4>2 DEF TypeOK
        <5>2. PacketsOf' = PacketsOf
          BY <2>2, <3>1, <5>1, Zenon DEF PacketsOf, PacketRefs, connVars
        <5> QED
          BY <1>1, <2>2, <4>2, <5>2, AllSame, Zenon DEF rpVars, connVars, loadVars, TypeOK
      <4> QED
        BY <2>2, <4>1, <4>2, Zenon DEF handler_out
    <3> QED
      BY <2>2, <3>1, <3>2, ConnSame, HoldSame, Zenon DEF connVars, TypeOK
  <2> QED
    BY <2>1, <2>2, Zenon DEF handler_out
<1>4. TypeOK'
  BY <1>1, <1>3, Zenon DEF TypeOK, Goto, ebrVars, loadVars
<1>5. LoadInv' /\ ReadInv'
  BY <1>1, <1>3, LoadSame, ReadSame, Zenon DEF ebrVars, loadVars
<1>6. ThreadInv'
  <2>1. /\ pc'[t] = "return" /\ t_con'[t] = None /\ t_rp'[t] = None
        /\ \A x \in Threads : x # t => pc'[x] = pc[x] /\ t_con'[x] = t_con[x] /\ t_rp'[x] = t_rp[x]
    BY <1>1, Zenon DEF Goto, TypeOK
  <2>2. ThreadOK(t)'
    BY <2>1, Zenon DEF ThreadOK
  <2> QED
    BY <1>3, <2>1, <2>2, OthersOK, Zenon
<1>7. MbufInv'
  BY <1>1 DEF MbufInv, Goto, TypeOK
<1> QED
  BY <1>3, <1>4, <1>5, <1>6, <1>7, Zenon

\* The handler returns: the packet was passed, freed, or given away.
LEMMA ReturnKeeps ==
  ASSUME Instance, HandlerInv, NEW t \in Threads, NEW ret \in BOOLEAN, handler_return(t, ret)
  PROVE  HandlerInv'
<1> USE DEF HandlerInv
<1>1. /\ pc[t] = "return" /\ Goto(t, "idle")
      /\ UNCHANGED <<rpVars, ext_live, connVars, ebrVars, t_con, t_rp, t_cfg, t_block, loadVars>>
      /\ t_mbuf[t] = "held" \/ (t_mbuf[t] = "freed" /\ t_block[t])
  BY Zenon DEF handler_return, MbufInv
<1>2. PICK m \in {"passed", "consumed", "freed"} : t_mbuf' = [t_mbuf EXCEPT ![t] = m]
  <2>1. CASE t_mbuf[t] = "freed" /\ t_block[t]
    <3>1. t_mbuf' = t_mbuf /\ t_mbuf = [t_mbuf EXCEPT ![t] = "freed"]
      BY <2>1, Zenon DEF handler_return, TypeOK
    <3> QED
      BY <3>1
  <2>2. CASE t_mbuf[t] = "held"
    BY <2>2, Zenon DEF handler_return, FreeMbuf
  <2> QED
    BY <1>1, <2>1, <2>2, Zenon
<1>3. TypeOK'
  BY <1>1, <1>2 DEF TypeOK, Goto, rpVars, connVars, ebrVars, loadVars
<1>4. LoadInv' /\ ConnInv' /\ HoldInv' /\ ReadInv'
  BY <1>1, LoadSame, ConnSame, HoldSame, ReadSame, Zenon DEF rpVars, connVars, ebrVars, loadVars
<1>5. ThreadInv'
  <2>1. /\ pc'[t] = "idle" /\ UNCHANGED <<c_pass, c_rproc, site, t_con, t_rp>>
        /\ \A x \in Threads : x # t => pc'[x] = pc[x]
    BY <1>1, Zenon DEF Goto, TypeOK, rpVars, connVars
  <2>2. ThreadOK(t) /\ pc[t] = "return"
    BY <1>1, Zenon DEF ThreadInv
  <2>3. ThreadOK(t)'
    BY <2>1, <2>2 DEF ThreadOK
  <2> QED
    BY <2>1, <2>3, OthersOK, Zenon
<1>6. MbufInv'
  BY <1>1, <1>2, Zenon DEF MbufInv, Goto, TypeOK
<1>7. RefInv'
  <2>1. PacketsOf' = PacketsOf
    BY <1>1 DEF PacketsOf, PacketRefs, connVars
  <2> QED
    BY <1>1, <2>1, AllSame, Zenon DEF rpVars, connVars, loadVars
<1> QED
  BY <1>3, <1>4, <1>5, <1>6, <1>7, Zenon

\* npf_conn_destroy by the G/C: nobody holds the connection, so that no packet
\* relies on the reference that it releases.
LEMMA DestroyKeeps ==
  ASSUME Instance, HandlerInv, NEW c \in Conns, npf_conn_destroy(c)
  PROVE  HandlerInv'
<1> USE DEF HandlerInv
<1> DEFINE r == c_rproc[c]
<1>1. /\ c_state[c] = "active" /\ c_refcnt[c] = 0
      /\ c_state' = [c_state EXCEPT ![c] = "free"] /\ c_pass' = [c_pass EXCEPT ![c] = FALSE]
      /\ c_rproc' = [c_rproc EXCEPT ![c] = None]
      /\ UNCHANGED <<ext_live, c_refcnt, ebrVars, pktVars, loadVars>>
  BY Zenon DEF npf_conn_destroy
<1>2. Holders[c] = {} /\ \A x \in Threads : t_con[x] # c
  <2>1. Holders[c] \subseteq Threads
    BY DEF Holders
  <2>2. IsFiniteSet(Holders[c])
    BY <2>1, FS_Subset, Zenon DEF Instance
  <2>3. Holders[c] = {}
    BY <1>1, <2>2, FS_EmptySet, Zenon DEF HoldInv
  <2> QED
    BY <2>3 DEF Holders
<1>3. /\ c_rproc'[c] = None /\ c_pass'[c] = FALSE /\ c_state'[c] = "free"
      /\ \A d \in Conns : d # c => c_rproc'[d] = c_rproc[d] /\ c_pass'[d] = c_pass[d] /\ c_state'[d] = c_state[d]
  BY <1>1, Zenon DEF TypeOK
<1>4. \A x \in Threads : t_con[x] # None =>
        c_pass'[t_con[x]] = c_pass[t_con[x]] /\ c_rproc'[t_con[x]] = c_rproc[t_con[x]]
  BY <1>2, <1>3, Zenon DEF TypeOK
<1>5. UNCHANGED <<pc, t_con, t_rp, t_cfg, t_mbuf, t_block, readers, grace, config, l_pc, l_cfg>>
  BY <1>1 DEF pktVars, ebrVars, loadVars
<1>6. PacketsOf' = PacketsOf /\ ConfigsOf' = ConfigsOf
  <2>1. PacketsOf' = PacketsOf
    BY <1>4, <1>5, Zenon DEF PacketsOf, PacketRefs
  <2> QED
    BY <1>5, <2>1, Zenon DEF ConfigsOf, ConfigRefs
<1>7. /\ RefInv' /\ rp_refcnt' \in [Rprocs -> Nat] /\ rp_live' \subseteq Rprocs
      /\ ext_refcnt' \in Nat /\ UNCHANGED site
  <2>1. CASE r = None
    <3>1. UNCHANGED rpVars
      BY <2>1, Zenon DEF npf_conn_destroy
    <3>2. c_rproc' = c_rproc
      BY <1>1, <2>1, Zenon DEF TypeOK
    <3> QED
      BY <1>1, <1>5, <1>6, <3>1, <3>2, AllSame, Zenon DEF rpVars, TypeOK
  <2>2. CASE r # None
    <3>1. npf_rproc_release(r) /\ r \in Rprocs
      BY <2>2, Zenon DEF npf_conn_destroy, TypeOK
    <3>2. /\ c \in ConnsOf[r] /\ ConnsOf'[r] = ConnsOf[r] \ {c}
          /\ \A x \in Rprocs : x # r => ConnsOf'[x] = ConnsOf[x]
      BY <1>3, <3>1, <2>2 DEF ConnsOf, ConnRefs, Instance
    <3> HIDE DEF r
    <3>3. OneLess(r)
      BY <1>6, <3>1, <3>2, ConnLose
    <3>4. r \in rp_live
      BY <3>1, <3>2, UsedIsLive, Zenon
    <3> QED
      BY <1>1, <3>1, <3>3, <3>4, RefDown, Zenon
  <2> QED
    BY <2>1, <2>2
<1>8. TypeOK'
  BY <1>1, <1>5, <1>7, Zenon DEF TypeOK
<1>9. LoadInv'
  BY <1>5, <1>7, LoadSame, Zenon
<1>10. ReadInv' /\ MbufInv'
  BY <1>5, Zenon DEF ReadInv, MbufInv
<1>11. ConnInv'
  BY <1>3, <1>7, Zenon DEF ConnInv
<1>12. HoldInv'
  <2>1. Holders' = Holders /\ c_refcnt' = c_refcnt
    BY <1>1, <1>5, Zenon DEF Holders
  <2> QED
    BY <1>2, <1>3, <2>1 DEF HoldInv
<1>13. ThreadInv'
  <2>1. ASSUME NEW x \in Threads PROVE ThreadOK(x)'
    <3>1. ThreadOK(x)
      BY DEF ThreadInv
    <3> QED
      BY <1>4, <1>5, <1>7, <3>1, Zenon DEF ThreadOK
  <2> QED
    BY <2>1 DEF ThreadInv
<1> QED
  BY <1>7, <1>8, <1>9, <1>10, <1>11, <1>12, <1>13

\* Every step of a packet keeps the invariant.
LEMMA PacketKeeps ==
  ASSUME Instance, HandlerInv, NEW t \in Threads, PacketNext(t)
  PROVE  HandlerInv'
  BY CacheKeeps, InspectKeeps, SetpassKeeps, EnterKeeps, RuleKeeps, NatKeeps, RunKeeps,
     ConsumedKeeps, DropKeeps, OutKeeps, ReturnKeeps, Zenon DEF PacketNext

-----------------------------------------------------------------------------
(* The loader and the extension.                                           *)

\* The loader changes no packet and no connection.
LEMMA LoaderFrame ==
  ASSUME HandlerInv, UNCHANGED <<connVars, pktVars, site>>
  PROVE  /\ ConnInv' /\ HoldInv' /\ ThreadInv' /\ MbufInv'
         /\ ConnsOf' = ConnsOf /\ PacketsOf' = PacketsOf
<1> USE DEF HandlerInv, connVars, pktVars
<1>1. ConnInv' /\ HoldInv'
  BY ConnSame, HoldSame, Zenon
<1>2. ThreadInv'
  BY Zenon DEF ThreadInv, ThreadOK
<1>3. MbufInv'
  BY Zenon DEF MbufInv
<1>4. ConnsOf' = ConnsOf /\ PacketsOf' = PacketsOf
  BY DEF ConnsOf, ConnRefs, PacketsOf, PacketRefs
<1> QED
  BY <1>1, <1>2, <1>3, <1>4

\* Readers of the active configuration do not care about the loader; those of
\* the replaced one are waited for.
LEMMA ReadersKeep ==
  ASSUME ReadInv, UNCHANGED <<pktVars, readers, grace, config>>, l_pc = "sync" => grace = {}
  PROVE  ReadInv'
  BY Zenon DEF ReadInv, pktVars

\* npf_rproc_create: fresh memory, to which nothing has a reference left.
LEMMA CreateKeeps ==
  ASSUME Instance, HandlerInv, NEW rule \in site.rules, NEW r \in Rprocs, npf_rproc_create(rule, r)
  PROVE  HandlerInv'
<1> USE DEF HandlerInv
<1> DEFINE cfg(x) == [rp |-> x, stateful |-> rule.stateful, pass |-> rule.pass]
<1>1. l_pc = "idle" /\ UNCHANGED <<ext_live, connVars, ebrVars, pktVars, config, site>>
  BY Zenon DEF npf_rproc_create, rpVars
<1>2. /\ ConnInv' /\ HoldInv' /\ ThreadInv' /\ MbufInv' /\ ConnsOf' = ConnsOf /\ PacketsOf' = PacketsOf
  BY <1>1, LoaderFrame, Zenon
<1>3. ReadInv'
  BY <1>1, ReadersKeep, Zenon DEF ebrVars
<1>4. rule \in [rproc : BOOLEAN, stateful : BOOLEAN, pass : BOOLEAN]
  BY Zenon DEF LoadInv, Instance
<1>5. /\ cfg(r) \in Configs /\ cfg(None) \in Configs /\ cfg(r) # None /\ cfg(None) # None
      /\ cfg(r).rp = r /\ cfg(None).rp = None
      /\ cfg(r).stateful = rule.stateful /\ cfg(r).pass = rule.pass
  BY <1>4 DEF Configs, Instance
<1>6. l_cfg = None
  BY <1>1 DEF LoadInv
<1>7. CASE rule.rproc
  <2> DEFINE k == cfg(r)
  <2>1. /\ r \notin rp_live /\ ext_live
        /\ rp_refcnt' = [rp_refcnt EXCEPT ![r] = 1] /\ rp_live' = rp_live \cup {r}
        /\ ext_refcnt' = ext_refcnt + 1 /\ l_cfg' = k /\ l_pc' = "ctor"
    BY <1>7, Zenon DEF npf_rproc_create
  <2>2. /\ k \in Configs /\ k # None /\ k.rp = r /\ k.stateful = rule.stateful /\ k.pass = rule.pass
    BY <1>5, Zenon
  <2> HIDE DEF k, cfg
  <2>3. LoadInv'
    BY <1>1, <1>7, <2>1, <2>2, Zenon DEF LoadInv, Made, Instance
  <2>4. ConfigsOf[r] = 0 /\ Uses[r] = 0 /\ rp_refcnt[r] = 0
    BY <2>1, FreeIsUnused, Zenon
  <2>5. ConfigsOf'[r] = 1 /\ \A x \in Rprocs : x # r => ConfigsOf'[x] = ConfigsOf[x]
    BY <1>1, <1>6, <2>1, <2>2, <2>4 DEF ConfigsOf, ConfigRefs
  <2>6. OneMore(r)
    BY <1>2, <2>4, <2>5, ConfigMore
  <2>7. \A x \in Rprocs : rp_refcnt'[x] = Uses'[x] /\ (x \in rp_live' <=> rp_refcnt'[x] # 0)
    <3>1. rp_refcnt'[r] = 1 /\ \A x \in Rprocs : x # r => rp_refcnt'[x] = rp_refcnt[x]
      BY <2>1, Zenon DEF TypeOK
    <3>2. Uses'[r] = 1 /\ \A x \in Rprocs : x # r => Uses'[x] = Uses[x]
      BY <2>4, <2>6 DEF OneMore
    <3>3. 1 # 0
      OBVIOUS
    <3> QED
      BY <2>1, <3>1, <3>2, <3>3, Zenon DEF RefInv
  <2>8. IsFiniteSet(rp_live) /\ ext_refcnt = Cardinality(rp_live)
    BY DEF RefInv
  <2>9. IsFiniteSet(rp_live') /\ ext_refcnt' = Cardinality(rp_live') /\ ext_refcnt' \in Nat
    BY <2>1, <2>8, FS_AddElement, FS_CardinalityType
  <2>10. RefInv'
    BY <1>1, <2>1, <2>7, <2>9, Zenon DEF RefInv
  <2>11. TypeOK'
    BY <1>1, <2>1, <2>2, <2>9 DEF TypeOK, connVars, ebrVars, pktVars
  <2> QED
    BY <1>2, <1>3, <2>3, <2>10, <2>11, Zenon
<1>8. CASE ~rule.rproc
  <2> DEFINE k == cfg(None)
  <2>1. UNCHANGED rpVars /\ l_cfg' = k /\ l_pc' = "install"
    BY <1>8, Zenon DEF npf_rproc_create
  <2>2. k \in Configs /\ k # None /\ k.rp = None
    BY <1>5
  <2> HIDE DEF k, cfg
  <2>3. LoadInv'
    BY <1>1, <2>1, <2>2, Zenon DEF LoadInv, Made
  <2>4. ConfigsOf' = ConfigsOf
    BY <1>1, <1>6, <2>1, <2>2 DEF ConfigsOf, ConfigRefs, Instance
  <2>5. RefInv'
    BY <1>1, <1>2, <2>1, <2>4, UsesSame, RefSame, Zenon DEF rpVars
  <2>6. TypeOK'
    BY <1>1, <2>1, <2>2, Zenon DEF TypeOK, rpVars, connVars, ebrVars, pktVars
  <2> QED
    BY <1>2, <1>3, <2>3, <2>5, <2>6, Zenon
<1> QED
  BY <1>4, <1>7, <1>8, Zenon

\* The loader drops a reference: of a load that failed, or of a configuration
\* that nobody reads any more.
LEMMA LoaderDrops ==
  ASSUME Instance, HandlerInv, npf_rproc_release(l_cfg.rp),
         UNCHANGED <<ext_live, connVars, ebrVars, pktVars, config>>,
         \/ l_pc = "rule" /\ l_pc' = "rprocset" /\ l_cfg' = l_cfg
         \/ l_pc \in {"ctor", "rprocset"} /\ l_pc' = "idle" /\ l_cfg' = None
  PROVE  HandlerInv'
<1> USE DEF HandlerInv
<1> DEFINE r == l_cfg.rp
<1>1. l_cfg \in Configs /\ l_cfg # None /\ r \in Rprocs /\ r # None
  <2>1. l_cfg \in Configs
    BY DEF TypeOK, LoadInv
  <2> QED
    BY <2>1, Zenon DEF LoadInv, Configs, Instance
<1>2. npf_rproc_release(r) /\ UNCHANGED site
  BY Zenon DEF npf_rproc_release
<1>3. /\ ConnInv' /\ HoldInv' /\ ThreadInv' /\ MbufInv' /\ ConnsOf' = ConnsOf /\ PacketsOf' = PacketsOf
  BY <1>2, LoaderFrame, Zenon
<1>4. ReadInv'
  BY ReadersKeep, Zenon DEF ebrVars
<1>5. LoadInv'
  BY <1>1, <1>2, Zenon DEF LoadInv, Made
<1>6. /\ ConfigsOf'[r] = ConfigsOf[r] - 1 /\ ConfigsOf[r] # 0
      /\ \A x \in Rprocs : x # r => ConfigsOf'[x] = ConfigsOf[x]
  BY <1>1 DEF ConfigsOf, ConfigRefs
<1> HIDE DEF r
<1>7. OneLess(r)
  BY <1>1, <1>3, <1>6, ConfigLess, Zenon
<1>8. r \in rp_live
  BY <1>1, <1>6, UsedIsLive, Zenon
<1>9. /\ RefInv' /\ rp_refcnt' \in [Rprocs -> Nat] /\ rp_live' \subseteq Rprocs /\ ext_refcnt' \in Nat
  BY <1>1, <1>2, <1>7, <1>8, RefDown, Zenon
<1>10. TypeOK'
  BY <1>1, <1>9, Zenon DEF TypeOK, connVars, ebrVars, pktVars
<1> QED
  BY <1>3, <1>4, <1>5, <1>9, <1>10

\* npf_ext_construct: on success the rule takes the second reference.
LEMMA ConstructKeeps ==
  ASSUME Instance, HandlerInv, NEW ok \in BOOLEAN, npf_ext_construct(ok)
  PROVE  HandlerInv'
<1> USE DEF HandlerInv
<1>1. l_pc = "ctor" /\ UNCHANGED <<ext_live, connVars, ebrVars, pktVars, config>>
  BY Zenon DEF npf_ext_construct
<1>2. CASE ~ok
  BY <1>1, <1>2, LoaderDrops, Zenon DEF npf_ext_construct
<1>3. CASE ok
  <2> DEFINE r == l_cfg.rp
  <2>1. npf_rproc_acquire(r) /\ l_pc' = "install" /\ UNCHANGED <<rp_live, ext_refcnt, site, l_cfg>>
    BY <1>3, Zenon DEF npf_ext_construct
  <2>2. l_cfg \in Configs /\ l_cfg # None /\ r \in Rprocs
    <3>1. l_cfg \in Configs
      BY <1>1, Zenon DEF TypeOK, LoadInv
    <3> QED
      BY <1>1, <3>1, Zenon DEF LoadInv, Configs, Instance
  <2>3. /\ ConnInv' /\ HoldInv' /\ ThreadInv' /\ MbufInv' /\ ConnsOf' = ConnsOf /\ PacketsOf' = PacketsOf
    BY <1>1, <2>1, LoaderFrame, Zenon
  <2>4. ReadInv'
    BY <1>1, ReadersKeep DEF ebrVars
  <2>5. LoadInv'
    BY <1>1, <2>1, <2>2, Zenon DEF LoadInv, Made
  <2>6. /\ ConfigsOf'[r] = ConfigsOf[r] + 1 /\ ConfigsOf[r] # 0
        /\ \A x \in Rprocs : x # r => ConfigsOf'[x] = ConfigsOf[x]
    BY <1>1, <2>1, <2>2 DEF ConfigsOf, ConfigRefs
  <2> HIDE DEF r
  <2>7. OneMore(r) /\ r \in rp_live
    BY <2>2, <2>3, <2>6, ConfigMore, UsedIsLive, Zenon
  <2>8. RefInv' /\ rp_refcnt' \in [Rprocs -> Nat]
    BY <1>1, <2>1, <2>2, <2>7, RefUp, Zenon
  <2>9. TypeOK'
    BY <1>1, <2>1, <2>2, <2>8, Zenon DEF TypeOK, connVars, ebrVars, pktVars
  <2> QED
    BY <2>3, <2>4, <2>5, <2>8, <2>9, Zenon
<1> QED
  BY <1>2, <1>3, Zenon

\* npf_config_load: from here on the readers of the old configuration are the
\* ones that npf_ebr_full_sync waits for.
LEMMA InstallKeeps ==
  ASSUME Instance, HandlerInv, npf_config_load
  PROVE  HandlerInv'
<1> USE DEF HandlerInv
<1>1. /\ l_pc = "install" /\ config' = l_cfg /\ l_cfg' = config /\ grace' = readers
      /\ l_pc' = (IF config = None THEN "idle" ELSE "sync")
      /\ UNCHANGED <<rpVars, ext_live, connVars, readers, pktVars>>
  BY Zenon DEF npf_config_load, npf_ebr_full_sync
<1>2. l_cfg # None
  BY <1>1, Zenon DEF LoadInv
<1>3. /\ ConnInv' /\ HoldInv' /\ ThreadInv' /\ MbufInv' /\ ConnsOf' = ConnsOf /\ PacketsOf' = PacketsOf
  BY <1>1, LoaderFrame, Zenon DEF rpVars
<1>4. LoadInv'
  BY <1>1, <1>2, Zenon DEF LoadInv, Made, rpVars
<1>5. ReadInv'
  BY <1>1 DEF ReadInv, pktVars
<1>6. ConfigsOf' = ConfigsOf
  BY <1>1, <1>2 DEF ConfigsOf, ConfigRefs
<1>7. RefInv'
  BY <1>1, <1>3, <1>6, UsesSame, RefSame, Zenon DEF rpVars
<1>8. TypeOK'
  BY <1>1, Zenon DEF TypeOK, rpVars, connVars, pktVars
<1> QED
  BY <1>3, <1>4, <1>5, <1>7, <1>8, Zenon

\* After the grace period nobody has the old configuration.
LEMMA SyncedKeeps ==
  ASSUME Instance, HandlerInv, config_synced
  PROVE  HandlerInv'
<1> USE DEF HandlerInv
<1>1. /\ l_pc = "sync" /\ grace = {} /\ l_pc' = (IF l_cfg.rp = None THEN "idle" ELSE "rule")
      /\ l_cfg' = (IF l_cfg.rp = None THEN None ELSE l_cfg)
      /\ UNCHANGED <<rpVars, ext_live, connVars, ebrVars, pktVars, config>>
  BY DEF config_synced
<1>2. l_cfg # None
  BY <1>1, Zenon DEF LoadInv
<1>3. /\ ConnInv' /\ HoldInv' /\ ThreadInv' /\ MbufInv' /\ ConnsOf' = ConnsOf /\ PacketsOf' = PacketsOf
  BY <1>1, LoaderFrame, Zenon DEF rpVars
<1>4. LoadInv'
  BY <1>1, <1>2, Zenon DEF LoadInv, Made, rpVars
<1>5. ReadInv'
  BY <1>1, ReadersKeep DEF ebrVars
<1>6. ConfigsOf' = ConfigsOf
  BY <1>1, <1>2, Zenon DEF ConfigsOf, ConfigRefs, Instance
<1>7. RefInv'
  BY <1>1, <1>3, <1>6, UsesSame, RefSame, Zenon DEF rpVars
<1>8. TypeOK'
  BY <1>1, Zenon DEF TypeOK, rpVars, connVars, ebrVars, pktVars
<1> QED
  BY <1>3, <1>4, <1>5, <1>7, <1>8, Zenon

\* The extension may come and go: it goes only when no procedure refers to it.
LEMMA ExtKeeps ==
  ASSUME Instance, HandlerInv, npf_ext_register \/ npf_ext_unregister
  PROVE  HandlerInv'
<1> USE DEF HandlerInv
<1>1. UNCHANGED <<rpVars, connVars, ebrVars, pktVars, loadVars>> /\ ext_live' \in BOOLEAN
  BY Zenon DEF npf_ext_register, npf_ext_unregister
<1>2. ext_live' \/ rp_live = {}
  <2>1. CASE npf_ext_unregister
    <3>1. ext_refcnt = 0
      BY <2>1 DEF npf_ext_unregister, ExtBusy, TypeOK
    <3> QED
      BY <3>1, FS_EmptySet, Zenon DEF RefInv
  <2> QED
    BY <2>1 DEF npf_ext_register
<1>3. /\ ConnInv' /\ HoldInv' /\ ThreadInv' /\ MbufInv' /\ ConnsOf' = ConnsOf /\ PacketsOf' = PacketsOf
  BY <1>1, LoaderFrame DEF rpVars
<1>4. LoadInv'
  BY <1>1, LoadSame, Zenon DEF rpVars, loadVars
<1>5. ReadInv'
  BY <1>1, Zenon DEF ReadInv, pktVars, ebrVars, loadVars
<1>6. ConfigsOf' = ConfigsOf
  BY <1>1, Zenon DEF ConfigsOf, ConfigRefs, loadVars
<1>7. RefInv'
  <2>1. \A r \in Rprocs : Uses'[r] = Uses[r]
    BY <1>3, <1>6, UsesSame
  <2> QED
    BY <1>1, <1>2, <2>1, Zenon DEF RefInv, rpVars
<1>8. TypeOK'
  BY <1>1, Zenon DEF TypeOK, rpVars, connVars, ebrVars, pktVars, loadVars
<1> QED
  BY <1>3, <1>4, <1>5, <1>7, <1>8

\* Every step keeps the invariant.
LEMMA NextKeeps ==
  ASSUME Instance, HandlerInv, [Next]_vars
  PROVE  HandlerInv'
<1>1. ASSUME NEW t \in Threads, PacketNext(t) PROVE HandlerInv'
  BY <1>1, PacketKeeps
<1>2. ASSUME NEW c \in Conns, npf_conn_destroy(c) PROVE HandlerInv'
  BY <1>2, DestroyKeeps
<1>3. CASE LoadNext
  <2>1. CASE npf_rule_free
    BY <2>1, LoaderDrops, Zenon DEF npf_rule_free
  <2>2. CASE npf_rprocset_destroy
    BY <2>2, LoaderDrops, Zenon DEF npf_rprocset_destroy
  <2> QED
    BY <1>3, <2>1, <2>2, CreateKeeps, ConstructKeeps, InstallKeeps, SyncedKeeps, ExtKeeps, Zenon DEF LoadNext
<1>4. CASE UNCHANGED vars
  <2>1. UNCHANGED <<rpVars, ext_live, connVars, ebrVars, pktVars, loadVars>>
    BY <1>4 DEF vars
  <2>2. TypeOK' /\ LoadInv' /\ ReadInv' /\ ConfigsOf' = ConfigsOf
    <3>1. TypeOK'
      BY <2>1, Zenon DEF HandlerInv, TypeOK, rpVars, connVars, ebrVars, pktVars, loadVars
    <3>2. LoadInv' /\ ReadInv'
      BY <2>1, Zenon DEF HandlerInv, LoadInv, Made, ReadInv, rpVars, connVars, ebrVars, pktVars, loadVars
    <3>3. ConfigsOf' = ConfigsOf
      BY <2>1, Zenon DEF ConfigsOf, ConfigRefs, connVars, loadVars
    <3> QED
      BY <3>1, <3>2, <3>3, Zenon
  <2>3. /\ ConnInv' /\ HoldInv' /\ ThreadInv' /\ MbufInv' /\ ConnsOf' = ConnsOf /\ PacketsOf' = PacketsOf
    BY <2>1, LoaderFrame DEF rpVars
  <2>4. RefInv'
    BY <2>1, <2>2, <2>3, UsesSame, RefSame, Zenon DEF HandlerInv, rpVars
  <2> QED
    BY <2>2, <2>3, <2>4, Zenon DEF HandlerInv
<1> QED
  BY <1>1, <1>2, <1>3, <1>4, Zenon DEF Next

\* Initially there is neither a packet nor a configuration.
LEMMA InitHandler ==
  ASSUME Instance, Init
  PROVE  HandlerInv
<1>1. TypeOK
  BY Zenon DEF Init, TypeOK
<1>2. LoadInv /\ ReadInv
  BY Zenon DEF Init, LoadInv, Made, ReadInv
<1>3. ConnInv /\ ThreadInv /\ MbufInv
  BY Zenon DEF Init, ConnInv, ThreadInv, ThreadOK, MbufInv
<1>4. HoldInv
  <2>1. \A c \in Conns : Holders[c] = {}
    BY Zenon DEF Init, Holders, Instance
  <2> QED
    BY <2>1, FS_EmptySet DEF Init, HoldInv
<1>5. RefInv
  <2>1. \A r \in Rprocs : ConfigsOf[r] = 0 /\ ConnsOf[r] = {} /\ PacketsOf[r] = {}
    BY DEF Init, ConfigsOf, ConfigRefs, ConnsOf, ConnRefs, PacketsOf, PacketRefs, Instance
  <2>2. \A r \in Rprocs : Uses[r] = 0
    BY <2>1, FS_EmptySet DEF Uses
  <2> QED
    BY <2>2, FS_EmptySet DEF Init, RefInv
<1> QED
  BY <1>1, <1>2, <1>3, <1>4, <1>5 DEF HandlerInv

-----------------------------------------------------------------------------
(* The theorems.                                                           *)

\* The inductive invariant.
THEOREM HandlerInvariant == Instance => (Spec => []HandlerInv)
<1> SUFFICES ASSUME Instance PROVE Spec => []HandlerInv
  OBVIOUS
<1>1. Init => HandlerInv
  BY InitHandler
<1>2. HandlerInv /\ [Next]_vars => HandlerInv'
  BY NextKeeps, Zenon
<1> QED
  BY <1>1, <1>2, PTL DEF Spec

\* npfk_packet_handler neither leaks nor over-releases a rule procedure on any
\* of its exits, however packets, loads, the G/C and the extension interleave.
THEOREM ProceduresCounted == Instance => (Spec => []RprocRefcntExact)
<1> SUFFICES ASSUME Instance PROVE Spec => []RprocRefcntExact
  OBVIOUS
<1>1. HandlerInv => RprocRefcntExact
  BY Zenon DEF HandlerInv, RefInv, RprocRefcntExact, Uses, ConfigsOf, ConnsOf, PacketsOf
<1> QED
  BY <1>1, HandlerInvariant, PTL

\* No packet, connection or configuration is left with a procedure that was
\* freed, no procedure without its extension, and no packet is freed twice.
THEOREM NothingFreedIsUsed == Instance => (Spec => []NoFreedUse)
<1> SUFFICES ASSUME Instance PROVE Spec => []NoFreedUse
  OBVIOUS
<1>1. HandlerInv => NoFreedUse
  <2> SUFFICES ASSUME HandlerInv PROVE NoFreedUse
    OBVIOUS
  <2> USE DEF HandlerInv
  <2>1. ASSUME NEW c \in Conns PROVE c_rproc[c] \in rp_live \cup {None}
    <3>1. c_rproc[c] # None => c_rproc[c] \in Rprocs /\ c \in ConnsOf[c_rproc[c]]
      BY DEF TypeOK, ConnsOf, ConnRefs
    <3> QED
      BY <3>1, UsedIsLive, Zenon
  <2>2. ASSUME NEW t \in Threads, t_rp[t] # None PROVE t_rp[t] \in rp_live
    <3> DEFINE r == t_rp[t]
    <3>1. r \in Rprocs
      BY <2>2, Zenon DEF TypeOK
    <3>2. CASE t_con[t] = None \/ c_rproc[t_con[t]] # r
      <4>1. t \in PacketsOf[r]
        BY <3>1, <3>2, Zenon DEF PacketsOf, PacketRefs
      <4> QED
        BY <3>1, <4>1, UsedIsLive, Zenon
    <3>3. CASE t_con[t] # None /\ c_rproc[t_con[t]] = r
      <4>1. t_con[t] \in Conns
        BY <3>3, Zenon DEF TypeOK
      <4> QED
        BY <2>1, <2>2, <3>3, <4>1, Zenon
    <3> QED
      BY <3>2, <3>3, Zenon
  <2>3. ASSUME NEW cfg \in Configs, cfg = config \/ (cfg = l_cfg /\ l_pc = "sync")
        PROVE  cfg.rp \in rp_live \cup {None}
    <3>1. cfg.rp \in Rprocs \cup {None} /\ cfg # None
      BY Zenon DEF Configs, Instance
    <3>2. cfg.rp \in Rprocs => ConfigsOf[cfg.rp] # 0
      BY <2>3, <3>1 DEF ConfigsOf, ConfigRefs
    <3> QED
      BY <3>1, <3>2, UsedIsLive, Zenon
  <2>4. ASSUME NEW t \in Threads, t_cfg[t] # None PROVE t_cfg[t].rp \in rp_live \cup {None}
    <3>1. t_cfg[t] \in Configs /\ (t_cfg[t] = config \/ (t_cfg[t] = l_cfg /\ l_pc = "sync"))
      BY <2>4, Zenon DEF TypeOK, ReadInv
    <3> QED
      BY <2>3, <3>1
  <2>5. config # None => config.rp \in rp_live \cup {None}
    BY <2>3, Zenon DEF TypeOK
  <2>6. \A t \in Threads : t_mbuf[t] # "twice" /\ (pc[t] = "idle" => t_mbuf[t] # "held")
    BY Zenon DEF MbufInv, TypeOK
  <2>7. rp_live # {} => ext_live
    BY Zenon DEF RefInv
  <2> QED
    BY <2>1, <2>2, <2>4, <2>5, <2>6, <2>7 DEF NoFreedUse
<1> QED
  BY <1>1, HandlerInvariant, PTL
====
