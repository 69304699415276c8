------------------------------- MODULE NpfNat --------------------------------
(***************************************************************************)
(* NAT policies and NAT entries (npf_nat.c) with the ALG registry          *)
(* (npf_alg.c): packets that create translations, the reload that inherits *)
(* or drops the policies, the worker that destroys expired connections and *)
(* the unloading of an ALG.  Connections and the port map are reduced to   *)
(* what npf_nat.c needs of them; NpfConn and NpfPortmap have the rest.     *)
(***************************************************************************)
EXTENDS Integers, FiniteSets

CONSTANTS
  Policies, Nats, Conns,   \* memory for policies, NAT entries, connections
  Ports,                   \* ports of the translation address
  Specs,                   \* what policies say: "map", "rr" (port map), "rdr" or "static"
  MaxRules,                \* bound on the NAT rules of a configuration
  Packets, NULL,
  Quiet                    \* an ALG is unloaded only while no entry is being destroyed

ASSUME NatAssumption ==
  /\ NULL \notin Policies \cup Nats \cup Conns \cup Packets
  /\ Ports \subseteq Nat \ {0}
  /\ IsFiniteSet(Nats) /\ IsFiniteSet(Packets)

VARIABLES
  pol,       \* per policy: [live, spec, rr, ref]
  nat,       \* per entry: [live, pol, conn, alg, port, alen, late]
  conn,      \* per connection: [live, exp, nat, done]
  ports,     \* the ports taken
  cur,       \* the policies of the active NAT rules
  ld,        \* npf_config_load: [pc, old, wait]
  alg,       \* the ALG: [reg, pc, wait]
  pk,        \* per packet: [pc, con, own, pol, nt, err]
  calls      \* per entry: how often the ALG destructor was called for it

vars == <<pol, nat, conn, ports, cur, ld, alg, pk, calls>>

FreePolicy == [live |-> FALSE, spec |-> NULL, rr |-> 0, ref |-> 0]
FreeNat == [live |-> FALSE, pol |-> NULL, conn |-> NULL, alg |-> FALSE, port |-> 0,
            alen |-> 0, late |-> FALSE]
FreeConn == [live |-> FALSE, exp |-> FALSE, nat |-> NULL, done |-> "no"]
NoPacket == [pc |-> "idle", con |-> NULL, own |-> FALSE, pol |-> NULL, nt |-> NULL, err |-> FALSE]
NoLoad == [pc |-> "idle", old |-> {}, wait |-> {}]

PacketPCs == {"idle", "inspect", "getnat", "snat", "establish", "create", "match", "matched",
              "setnat", "destroy", "unlink", "exec", "out"}

PolicyType == [live : BOOLEAN, spec : Specs \cup {NULL}, rr : {0, 1}, ref : Nat]
NatType == [live : BOOLEAN, pol : Policies \cup {NULL}, conn : Conns \cup {NULL}, alg : BOOLEAN,
            port : Ports \cup {0}, alen : {0, 4}, late : BOOLEAN]
ConnType == [live : BOOLEAN, exp : BOOLEAN, nat : Nats \cup {NULL}, done : {"no", "alg"}]
PacketType == [pc : PacketPCs, con : Conns \cup {NULL}, own : BOOLEAN,
               pol : Policies \cup {NULL}, nt : Nats \cup {NULL}, err : BOOLEAN]

TypeOK ==
  /\ pol \in [Policies -> PolicyType] /\ nat \in [Nats -> NatType]
  /\ conn \in [Conns -> ConnType]
  /\ ports \subseteq {0, 4} \X Ports /\ cur \subseteq Policies
  /\ ld \in [pc : {"idle", "sync", "release"}, old : SUBSET Policies, wait : SUBSET Packets]
  /\ alg \in [reg : BOOLEAN, pc : {"idle", "sync"}, wait : SUBSET Packets]
  /\ pk \in [Packets -> PacketType]
  /\ calls \in [Nats -> Nat]

\* The packet pc of which is inside an EBR section.
InCrit(p) == pk[p].pc \in {"getnat", "matched"}
Sections == {p \in Packets : InCrit(p)}

SparePolicies == {q \in Policies : ~pol[q].live /\ \A p \in Packets : pk[p].pol # q}
SpareNats == {n \in Nats : ~nat[n].live /\ \A p \in Packets : pk[p].nt # n}
SpareConns == {c \in Conns : ~conn[c].live /\ \A p \in Packets : pk[p].con # c}

NewPolicy(s) == [live |-> TRUE, spec |-> s, rr |-> 0, ref |-> 1]

Init ==
  /\ pol = [q \in Policies |-> FreePolicy] /\ nat = [n \in Nats |-> FreeNat]
  /\ conn = [c \in Conns |-> FreeConn] /\ ports = {} /\ cur = {}
  /\ ld = NoLoad
  /\ alg = [reg |-> TRUE, pc |-> "idle", wait |-> {}]
  /\ pk = [p \in Packets |-> NoPacket] /\ calls = [n \in Nats |-> 0]

\* The end of an EBR section, for those who wait for it.
Exit(p) ==
  /\ ld' = [ld EXCEPT !.wait = @ \ {p}]
  /\ alg' = [alg EXCEPT !.wait = @ \ {p}]

-----------------------------------------------------------------------------
(* Reference counting of policies, and the destruction of an entry.        *)

Entries(q) == {n \in Nats : nat[n].live /\ nat[n].pol = q}

\* npf_natpolicy_release
Released(ps, q) == IF ps[q].ref = 1 THEN [ps EXCEPT ![q] = FreePolicy]
                   ELSE [ps EXCEPT ![q].ref = @ - 1]

\* npf_alg_destroy: the callback, if it is still there.
CallDestroy(ns) ==
  calls' = [n \in Nats |-> IF n \in ns /\ (alg.reg \/ alg.pc # "idle")
                           THEN calls[n] + 1 ELSE calls[n]]

\* npf_nat_destroy up to the list: nt_alg is read, without a lock, and the
\* destructor called.
nat_destroy_alg(n) == CallDestroy(IF nat[n].alg THEN {n} ELSE {})

\* The rest: nt_alg is reset, the port put, the list and the reference left.
\* Mutant: the port is not put back.
PortPut_none(n) == {}
PortPut(n) == {<<nat[n].alen, nat[n].port>>}

nat_destroy_unlink(n) ==
  /\ ports' = ports \ PortPut(n)
  /\ pol' = Released(pol, nat[n].pol)
  /\ nat' = [nat EXCEPT ![n] = FreeNat]
  /\ calls' = [calls EXCEPT ![n] = 0]

-----------------------------------------------------------------------------
(* npf_do_nat                                                              *)

Go(p, r) == pk' = [pk EXCEPT ![p] = r]

\* A packet with a connection, or without; npf_nat_lookup finds its entry if
\* the packet is on the interface of the entry.
npf_nat_lookup(p, c, same) ==
  /\ pk[p].pc = "idle"
  /\ c # NULL => conn[c].live /\ ~conn[c].exp
  /\ LET nt == IF c = NULL \/ ~same THEN NULL ELSE conn[c].nat IN
     Go(p, [NoPacket EXCEPT !.con = c, !.nt = nt,
              !.pol = IF nt = NULL THEN NULL ELSE nat[nt].pol,
              !.pc = IF nt = NULL THEN "inspect" ELSE "exec"])
  /\ UNCHANGED <<pol, nat, conn, ports, cur, ld, alg, calls>>

\* npf_nat_inspect: a rule of the active ruleset, inside a section, or none.
npf_nat_inspect(p) ==
  /\ pk[p].pc = "inspect"
  /\ \/ Go(p, [pk[p] EXCEPT !.pc = "out"])
     \/ \E q \in cur : Go(p, [pk[p] EXCEPT !.pc = "getnat", !.pol = q])
  /\ UNCHANGED <<pol, nat, conn, ports, cur, ld, alg, calls>>

\* A reference on the policy is acquired and the section left.
nat_inspect_ref(p) ==
  /\ pk[p].pc = "getnat"
  /\ pol' = [pol EXCEPT ![pk[p].pol].ref = @ + 1]
  /\ Go(p, [pk[p] EXCEPT !.pc = CASE pol[pk[p].pol].spec = "static" -> "snat"
                                  [] pk[p].con = NULL -> "establish"
                                  [] OTHER -> "create"])
  /\ Exit(p)
  /\ UNCHANGED <<nat, conn, ports, cur, calls>>

\* npf_snat_translate, without a connection.
npf_snat_translate(p) ==
  /\ pk[p].pc = "snat"
  /\ pol' = Released(pol, pk[p].pol)
  /\ Go(p, [pk[p] EXCEPT !.pc = "out", !.pol = NULL])
  /\ UNCHANGED <<nat, conn, ports, cur, ld, alg, calls>>

\* npf_conn_establish for the translation; on failure the policy is released.
npf_conn_establish(p) ==
  /\ pk[p].pc = "establish"
  /\ \/ \E c \in SpareConns :
          /\ conn' = [conn EXCEPT ![c] = [FreeConn EXCEPT !.live = TRUE]]
          /\ Go(p, [pk[p] EXCEPT !.pc = "create", !.con = c, !.own = TRUE])
          /\ UNCHANGED pol
     \/ /\ pol' = Released(pol, pk[p].pol)
        /\ Go(p, [pk[p] EXCEPT !.pc = "out", !.pol = NULL, !.err = TRUE])
        /\ UNCHANGED conn
  /\ UNCHANGED <<nat, ports, cur, ld, alg, calls>>

\* A reload has dropped the policy and gone through its list already.
Dropped(q) == q \notin cur /\ ~(q \in ld.old /\ ld.pc = "sync")

\* npf_nat_create: address, port (0 if there is none left) and list.
Created(n, q, c, port, alen) ==
  /\ nat' = [nat EXCEPT ![n] = [live |-> TRUE, pol |-> q, conn |-> c, alg |-> FALSE,
                                port |-> port, alen |-> alen, late |-> Dropped(q)]]
  /\ ports' = ports \cup ({<<alen, port>>} \ {<<alen, 0>>})

\* "We will consume the reference": the count is left alone; the round robin
\* counter advances.  Mutant: the reference is released.
ConsumeRef_release(q) == Released(pol, q)
ConsumeRef(q) == [pol EXCEPT ![q].rr = IF pol[q].spec = "rr" THEN 1 ELSE 0]

\* npf_portmap_get for the address of the policy, of length 4.
PortmapGet(s) ==
  LET left == {port \in Ports : <<4, port>> \notin ports}
  IN  IF s \notin {"map", "rr"} \/ left = {} THEN {0} ELSE left

npf_nat_create(p) ==
  /\ pk[p].pc = "create"
  /\ \/ \E n \in SpareNats, port \in PortmapGet(pol[pk[p].pol].spec) :
          /\ Created(n, pk[p].pol, pk[p].con, port, 4)
          /\ pol' = ConsumeRef(pk[p].pol)
          /\ Go(p, [pk[p] EXCEPT !.pc = "match", !.nt = n])
     \/ /\ pol' = Released(pol, pk[p].pol)
        /\ Go(p, [pk[p] EXCEPT !.pc = "out", !.pol = NULL, !.err = TRUE])
        /\ UNCHANGED <<nat, ports>>
  /\ UNCHANGED <<conn, cur, ld, alg, calls>>

\* npf_alg_match enters a section and loads the function of the ALG, which
\* takes the entry or does not.
npf_alg_match(p, takes) ==
  /\ pk[p].pc = "match"
  /\ takes => alg.reg
  /\ Go(p, [pk[p] EXCEPT !.pc = IF takes THEN "matched" ELSE "setnat"])
  /\ UNCHANGED <<pol, nat, conn, ports, cur, ld, alg, calls>>

\* The function calls npf_nat_setalg; the section is left.
npf_nat_setalg(p) ==
  /\ pk[p].pc = "matched"
  /\ nat' = [nat EXCEPT ![pk[p].nt].alg = TRUE]
  /\ Go(p, [pk[p] EXCEPT !.pc = "setnat"])
  /\ Exit(p)
  /\ UNCHANGED <<pol, conn, ports, cur, calls>>

\* npf_conn_setnat: refused if the connection has expired or has a NAT entry;
\* a duplicate key expires it.
npf_conn_setnat(p, duplicate) ==
  /\ pk[p].pc = "setnat"
  /\ LET c == pk[p].con
         ok == ~conn[c].exp /\ conn[c].nat = NULL
     IN  IF ok /\ ~duplicate
         THEN /\ conn' = [conn EXCEPT ![c].nat = pk[p].nt]
              /\ Go(p, [pk[p] EXCEPT !.pc = "exec"])
         ELSE /\ conn' = [conn EXCEPT ![c].exp = @ \/ ok]
              /\ Go(p, [pk[p] EXCEPT !.pc = "destroy", !.err = TRUE])
  /\ UNCHANGED <<pol, nat, ports, cur, ld, alg, calls>>

\* "Will release the reference": npf_nat_destroy by the packet.
npf_nat_destroy(p) ==
  \/ /\ pk[p].pc = "destroy"
     /\ nat_destroy_alg(pk[p].nt)
     /\ Go(p, [pk[p] EXCEPT !.pc = "unlink"])
     /\ UNCHANGED <<pol, nat, conn, ports, cur, ld, alg>>
  \/ /\ pk[p].pc = "unlink"
     /\ nat_destroy_unlink(pk[p].nt)
     /\ Go(p, [pk[p] EXCEPT !.pc = "out", !.nt = NULL, !.pol = NULL])
     /\ UNCHANGED <<conn, cur, ld, alg>>

\* npf_dnat_translate with npf_alg_exec; the rewriting may fail.
npf_dnat_translate(p) ==
  /\ pk[p].pc = "exec"
  /\ \E err \in BOOLEAN : Go(p, [pk[p] EXCEPT !.pc = "out", !.err = err /\ pk[p].own])
  /\ UNCHANGED <<pol, nat, conn, ports, cur, ld, alg, calls>>

\* npf_nat_share_policy, by an ALG that opens a second connection.  The entry
\* is created, the reference taken (that of the first entry is held), and the
\* connection gets the entry, or is expired.
npf_nat_share_policy(p, c, ok) ==
  /\ pk[p].pc = "exec" /\ nat[pk[p].nt].alg /\ alg.reg
  /\ c \in SpareConns
  /\ \E n \in SpareNats, port \in PortmapGet(pol[pk[p].pol].spec) :
       LET q == pk[p].pol IN
       IF ok
       THEN /\ Created(n, q, c, port, 4)
            /\ pol' = [pol EXCEPT ![q].ref = @ + 1]
            /\ conn' = [conn EXCEPT ![c] = [FreeConn EXCEPT !.live = TRUE, !.nat = n]]
       ELSE /\ conn' = [conn EXCEPT ![c] = [FreeConn EXCEPT !.live = TRUE, !.exp = TRUE]]
            /\ UNCHANGED <<pol, nat, ports>>
  /\ Go(p, [pk[p] EXCEPT !.pc = "out"])
  /\ UNCHANGED <<cur, ld, alg, calls>>

\* A connection made for the translation is expired if that has failed; the
\* reference on it is released.
do_nat_out(p) ==
  /\ pk[p].pc = "out"
  /\ conn' = IF pk[p].own /\ pk[p].err THEN [conn EXCEPT ![pk[p].con].exp = TRUE] ELSE conn
  /\ Go(p, NoPacket)
  /\ UNCHANGED <<pol, nat, ports, cur, ld, alg, calls>>

-----------------------------------------------------------------------------
(* Connections expire and the worker destroys them.                        *)

npf_conn_expired(c) ==
  /\ conn[c].live /\ ~conn[c].exp
  /\ conn' = [conn EXCEPT ![c].exp = TRUE]
  /\ UNCHANGED <<pol, nat, ports, cur, ld, alg, pk, calls>>

npf_conn_destroy(c) ==
  /\ conn[c].live /\ conn[c].exp /\ \A p \in Packets : pk[p].con # c
  /\ \/ /\ conn[c].done = "no" /\ conn[c].nat # NULL
        /\ nat_destroy_alg(conn[c].nat)
        /\ conn' = [conn EXCEPT ![c].done = "alg"]
        /\ UNCHANGED <<pol, nat, ports>>
     \/ /\ conn[c].done = "alg"
        /\ nat_destroy_unlink(conn[c].nat)
        /\ conn' = [conn EXCEPT ![c] = FreeConn]
     \/ /\ conn[c].nat = NULL
        /\ conn' = [conn EXCEPT ![c] = FreeConn]
        /\ UNCHANGED <<pol, nat, ports, calls>>
  /\ UNCHANGED <<cur, ld, alg, pk>>

-----------------------------------------------------------------------------
(* npf_ruleset_reload for the NAT rules; npf_natpolicy_destroy.            *)

\* npf_natpolicy_cmp compares the counter of round robin, too.
npf_natpolicy_cmp(q, s) == pol[q].spec = s /\ pol[q].rr = 0

\* Fresh policies for the rules of a configuration, want[s] of each kind s.
FreshFor(want, f) ==
  /\ DOMAIN f \subseteq SparePolicies
  /\ \A s \in Specs : Cardinality({q \in DOMAIN f : f[q] = s}) = want[s]

Policy(f) == [q \in Policies |-> IF q \in DOMAIN f THEN NewPolicy(f[q]) ELSE pol[q]]

Wanted == {w \in [Specs -> 0..MaxRules] : \E R \in SUBSET (Specs \X (1..MaxRules)) :
             Cardinality(R) <= MaxRules /\ \A s \in Specs : w[s] = Cardinality({r \in R : r[1] = s})}

\* An active policy is inherited by one rule that has the same, and then kept
\* when its old rule is freed.
OldPolicies(keep) == cur \ keep

Swap(keep, f) ==
  /\ cur' = keep \cup DOMAIN f
  /\ ld' = [pc |-> "sync", old |-> OldPolicies(keep), wait |-> Sections]

npf_ruleset_reload(want) ==
  /\ ld.pc = "idle" /\ alg.pc = "idle"
  /\ \E keep \in SUBSET cur, F \in SUBSET SparePolicies :
     \E f \in [F -> Specs] :
       LET same(s) == Cardinality({q \in cur : npf_natpolicy_cmp(q, s)})
           kept(s) == Cardinality({q \in keep : npf_natpolicy_cmp(q, s)})
       IN  /\ \A s \in Specs : kept(s) = IF same(s) < want[s] THEN same(s) ELSE want[s]
           /\ \A q \in keep : npf_natpolicy_cmp(q, pol[q].spec)
           /\ FreshFor([s \in Specs |-> want[s] - kept(s)], f)
           /\ Swap(keep, f)
           /\ pol' = Policy(f)
  /\ UNCHANGED <<nat, conn, ports, alg, pk, calls>>

\* A configuration with a connection that npf_nat_import builds: nothing is
\* inherited, nt_alen stays 0, and npf_portmap_take has to get the port.  The
\* database is empty before; NpfConnLoad has the replacement of a used one.
npf_nat_import(want, c, n, port) ==
  /\ ld.pc = "idle" /\ alg.pc = "idle"
  /\ \A d \in Conns : ~conn[d].live
  /\ <<0, port>> \notin ports
  /\ \E F \in SUBSET SparePolicies : \E f \in [F -> Specs] : \E q \in F :
       /\ FreshFor(want, f) /\ f[q] \in {"map", "rr"}
       /\ Swap({}, f)
       /\ pol' = [Policy(f) EXCEPT ![q].ref = 2]
       /\ nat' = [nat EXCEPT ![n] = [FreeNat EXCEPT !.live = TRUE, !.pol = q, !.conn = c, !.port = port]]
  /\ conn' = [conn EXCEPT ![c] = [FreeConn EXCEPT !.live = TRUE, !.nat = n]]
  /\ ports' = ports \cup {<<0, port>>}
  /\ UNCHANGED <<alg, pk, calls>>

\* npf_natpolicy_destroy: the connections of an old policy are expired if it is
\* in use.  Mutant: they are left alone.
Expires_none(q) == {}
Expires(q) == IF pol[q].ref > 1 THEN {nat[n].conn : n \in Entries(q)} ELSE {}

\* After the grace period.
npf_natpolicy_destroy ==
  /\ ld.pc = "sync" /\ ld.wait = {}
  /\ LET gone == UNION {Expires(q) : q \in ld.old}
     IN  conn' = [c \in Conns |-> IF c \in gone THEN [conn[c] EXCEPT !.exp = TRUE] ELSE conn[c]]
  /\ ld' = IF ld.old = {} THEN NoLoad ELSE [ld EXCEPT !.pc = "release"]
  /\ UNCHANGED <<pol, nat, ports, cur, alg, pk, calls>>

\* The initial reference of an old policy is dropped.
natpolicy_destroy_release ==
  /\ ld.pc = "release"
  /\ \E q \in ld.old :
       /\ pol' = Released(pol, q)
       /\ ld' = IF ld.old = {q} THEN NoLoad ELSE [ld EXCEPT !.old = @ \ {q}]
  /\ UNCHANGED <<nat, conn, ports, cur, alg, pk, calls>>

-----------------------------------------------------------------------------
(* npf_alg_register, npf_alg_unregister                                    *)

npf_alg_register ==
  /\ ~alg.reg /\ alg.pc = "idle"
  /\ alg' = [alg EXCEPT !.reg = TRUE]
  /\ UNCHANGED <<pol, nat, conn, ports, cur, ld, pk, calls>>

\* The functions go, except the destructor; the sections are waited for.
\* Mutant: they are not.
SyncWith_none == {}
SyncWith == Sections

npf_alg_unregister ==
  /\ alg.reg /\ alg.pc = "idle" /\ ld.pc # "sync"
  /\ alg' = [reg |-> FALSE, pc |-> "sync", wait |-> SyncWith]
  /\ UNCHANGED <<pol, nat, conn, ports, cur, ld, pk, calls>>

\* npf_ruleset_freealg: the entries of the active policies, then the
\* destructor goes.
Freed(n) == [nat[n] EXCEPT !.alg = FALSE]

BeingDestroyed ==
  (\E c \in Conns : conn[c].done = "alg") \/ (\E p \in Packets : pk[p].pc = "unlink")

npf_ruleset_freealg ==
  /\ alg.pc = "sync" /\ alg.wait = {}
  /\ Quiet => ~BeingDestroyed
  /\ LET mine == {n \in UNION {Entries(q) : q \in cur} : nat[n].alg} IN
     /\ CallDestroy(mine)
     /\ nat' = [n \in Nats |-> IF n \in mine THEN Freed(n) ELSE nat[n]]
  /\ alg' = [alg EXCEPT !.pc = "idle"]
  /\ UNCHANGED <<pol, conn, ports, cur, ld, pk>>

-----------------------------------------------------------------------------
Packet(p) ==
  \/ npf_nat_inspect(p) \/ nat_inspect_ref(p) \/ npf_snat_translate(p)
  \/ npf_conn_establish(p) \/ npf_nat_create(p)
  \/ \E takes \in BOOLEAN : npf_alg_match(p, takes)
  \/ npf_nat_setalg(p)
  \/ \E duplicate \in BOOLEAN : npf_conn_setnat(p, duplicate)
  \/ npf_nat_destroy(p) \/ npf_dnat_translate(p)
  \/ \E c \in Conns, ok \in BOOLEAN : npf_nat_share_policy(p, c, ok)
  \/ do_nat_out(p)

Next ==
  \/ \E p \in Packets : Packet(p) \/ \E c \in Conns \cup {NULL}, same \in BOOLEAN : npf_nat_lookup(p, c, same)
  \/ \E c \in Conns : npf_conn_expired(c) \/ npf_conn_destroy(c)
  \/ \E want \in Wanted : npf_ruleset_reload(want)
  \/ \E want \in Wanted, c \in SpareConns, n \in SpareNats, port \in Ports : npf_nat_import(want, c, n, port)
  \/ npf_natpolicy_destroy \/ natpolicy_destroy_release
  \/ npf_alg_register \/ npf_alg_unregister \/ npf_ruleset_freealg

Spec == Init /\ [][Next]_vars

-----------------------------------------------------------------------------
(* Properties.                                                             *)

\* The packets that hold a reference on q which no entry has consumed yet.
Holding(q) == {p \in Packets : pk[p].pol = q /\ pk[p].pc \in {"snat", "establish", "create"}}

\* n_refcnt counts the rule, the entries and the packets that hold the policy;
\* nobody has a policy, or a connection of an entry, that was freed.
PolicyRefs ==
  /\ \A q \in Policies : pol[q].live =>
       pol[q].ref = Cardinality(Entries(q)) + Cardinality(Holding(q))
                      + (IF q \in cur \cup ld.old THEN 1 ELSE 0)
  /\ \A q \in cur \cup ld.old : pol[q].live
  /\ \A p \in Packets : pk[p].pol # NULL => pol[pk[p].pol].live
  /\ \A n \in Nats : nat[n].live => pol[nat[n].pol].live /\ conn[nat[n].conn].live

\* A port is taken as long as exactly one entry has it, on every error path.
PortsOwned ==
  LET Having == {n \in Nats : nat[n].live /\ nat[n].port # 0}
  IN  /\ ports = {<<nat[n].alen, nat[n].port>> : n \in Having}
      /\ Cardinality(ports) = Cardinality(Having)

\* The destructor of an ALG is called at most once for an entry, whether the
\* entry or the ALG goes first; and once the ALG is unloaded, no entry of an
\* active policy refers to it.  (The entries of a dropped policy may.)
AlgDetached ==
  /\ \A n \in Nats : calls[n] <= 1
  /\ ~alg.reg /\ alg.pc = "idle" => \A n \in Nats : nat[n].alg => nat[n].pol \notin cur

\* What is left of a policy that a reload has dropped drains away: the
\* connections of its entries have expired, so that the worker destroys them
\* and the last one frees the policy.  Except: a packet between the lookup and
\* the list escapes that, and its entry lives until the connection is idle.
DroppedDrains ==
  \A n \in Nats : nat[n].live /\ Dropped(nat[n].pol) => conn[nat[n].conn].exp \/ nat[n].late

\* npf_portmap_autoget asserts that it is given the length of an address; the
\* import has to give it, too.
AddressLength == \A x \in ports : x[1] # 0
====
