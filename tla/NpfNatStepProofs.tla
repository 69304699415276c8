--------------------------- MODULE NpfNatStepProofs ---------------------------
(***************************************************************************)
(* The inductive invariant of NpfNat, for any number of policies, entries, *)
(* connections, packets and ports, and the steps of npf_do_nat up to the   *)
(* moment the connection has its entry, action by action.                  *)
(*                                                                         *)
(* A policy is freed with its last reference, and a reference is counted,  *)
(* not recorded.  The invariant names those who have one (Uses): the rule  *)
(* of the policy, each entry made from it, and a packet between the lookup *)
(* of the policy and the entry that takes its reference over (HoldPCs).    *)
(* That nobody else frees an entry needs its owner: the connection, or one *)
(* packet (EntryInv, OwnerInv).                                            *)
(***************************************************************************)
EXTENDS NpfNat, FiniteSetTheorems, TLAPS

\* Where a packet has a reference on a policy that no entry has consumed yet,
\* and where it owns the entry it has created, which npf_conn_setnat gives to
\* the connection or the packet destroys.
HoldPCs == {"snat", "establish", "create"}
OwnPCs == {"match", "matched", "setnat", "destroy", "unlink"}

\* What the local variables of npf_do_nat refer to.
PacketOK(p) ==
  /\ pk[p].pc = "idle" => pk[p].con = NULL
  /\ pk[p].con # NULL => conn[pk[p].con].live
  /\ pk[p].own => pk[p].con # NULL
  /\ pk[p].pc \in {"idle", "inspect"} => pk[p].pol = NULL
  /\ pk[p].pc \in {"getnat"} \cup HoldPCs => pk[p].pol # NULL
  /\ pk[p].pc \in {"idle", "inspect", "getnat"} \cup HoldPCs => pk[p].nt = NULL
  /\ pk[p].pc \in {"create", "exec"} \cup OwnPCs => pk[p].con # NULL
  /\ pk[p].pc \in {"exec"} \cup OwnPCs => pk[p].nt # NULL
  /\ pk[p].pc = "out" /\ pk[p].nt = NULL => pk[p].pol = NULL
  /\ pk[p].nt # NULL => /\ pk[p].con # NULL
                        /\ nat[pk[p].nt].live
                        /\ nat[pk[p].nt].pol = pk[p].pol
                        /\ nat[pk[p].nt].conn = pk[p].con
                        /\ conn[pk[p].con].nat = pk[p].nt <=> pk[p].pc \notin OwnPCs

PacketInv == \A p \in Packets : PacketOK(p)

OwnerInv ==
  \A p, r \in Packets :
    pk[p].pc \in OwnPCs /\ pk[r].pc \in OwnPCs /\ pk[p].nt = pk[r].nt => p = r

\* An entry belongs to the connection it translates, or to a packet.
EntryInv ==
  \A n \in Nats :
    /\ nat[n].live =>
         /\ nat[n].pol # NULL /\ nat[n].conn # NULL
         /\ conn[nat[n].conn].live
         /\ conn[nat[n].conn].nat = n \/ \E p \in Packets : pk[p].pc \in OwnPCs /\ pk[p].nt = n
    /\ ~nat[n].live => nat[n] = FreeNat

ConnInv ==
  \A c \in Conns :
    /\ conn[c].nat # NULL => nat[conn[c].nat].live /\ nat[conn[c].nat].conn = c
    /\ ~conn[c].live => conn[c] = FreeConn
    /\ conn[c].done = "alg" => conn[c].nat # NULL /\ conn[c].exp /\ \A p \in Packets : pk[p].con # c

\* A packet refers to a policy without a reference only inside an EBR section,
\* and a reload that has dropped the policy waits for that section.
LoadInv ==
  /\ ld.pc = "idle" => ld.old = {}
  /\ cur \cap ld.old = {}
  /\ \A p \in Packets : pk[p].pc = "getnat" =>
       pk[p].pol \in cur \/ (ld.pc = "sync" /\ pk[p].pol \in ld.old /\ p \in ld.wait)

Core == TypeOK /\ PacketInv /\ OwnerInv /\ EntryInv /\ ConnInv /\ LoadInv

\* The references on each policy.
EntriesOf == [q \in Policies |-> Entries(q)]
HoldingOf == [q \in Policies |-> Holding(q)]
Uses == [q \in Policies |-> Cardinality(EntriesOf[q]) + Cardinality(HoldingOf[q])
                              + (IF q \in cur \cup ld.old THEN 1 ELSE 0)]

PolInv == \A q \in Policies : pol[q].ref = Uses[q] /\ (pol[q].live <=> pol[q].ref # 0)

PortInv ==
  /\ \A n \in Nats : nat[n].live /\ nat[n].port # 0 => <<nat[n].alen, nat[n].port>> \in ports
  /\ \A x \in ports : \E n \in Nats :
       nat[n].live /\ nat[n].port # 0 /\ x = <<nat[n].alen, nat[n].port>>
  /\ \A m, n \in Nats :
       /\ nat[m].live /\ nat[n].live /\ nat[m].port # 0
       /\ nat[m].port = nat[n].port /\ nat[m].alen = nat[n].alen
       => m = n

NatInv == Core /\ PolInv /\ PortInv /\ DroppedDrains

-----------------------------------------------------------------------------
\* The references of a policy (npf_natpolicy_t::n_refcnt) can be counted: its
\* entries and the packets that hold it are finitely many.
LEMMA SetsFinite ==
  ASSUME NEW q \in Policies
  PROVE  /\ IsFiniteSet(EntriesOf[q]) /\ Cardinality(EntriesOf[q]) \in Nat
         /\ IsFiniteSet(HoldingOf[q]) /\ Cardinality(HoldingOf[q]) \in Nat
         /\ Uses[q] \in Nat
<1>1. EntriesOf[q] \subseteq Nats /\ HoldingOf[q] \subseteq Packets
  BY DEF EntriesOf, HoldingOf, Entries, Holding
<1>2. IsFiniteSet(EntriesOf[q]) /\ IsFiniteSet(HoldingOf[q])
  BY <1>1, NatAssumption, FS_Subset
<1>3. Cardinality(EntriesOf[q]) \in Nat /\ Cardinality(HoldingOf[q]) \in Nat
  BY <1>2, FS_CardinalityType
<1>4. Uses[q] \in Nat
  BY <1>3 DEF Uses
<1> QED
  BY <1>2, <1>3, <1>4

\* Whoever refers to a policy keeps it from being freed.
LEMMA UsedIsLive ==
  ASSUME PolInv, NEW q \in Policies
  PROVE  /\ EntriesOf[q] # {} => pol[q].live
         /\ HoldingOf[q] # {} => pol[q].live
         /\ q \in cur \cup ld.old => pol[q].live
<1>1. /\ EntriesOf[q] # {} => Cardinality(EntriesOf[q]) # 0
      /\ HoldingOf[q] # {} => Cardinality(HoldingOf[q]) # 0
  BY SetsFinite, FS_EmptySet
<1>2. Uses[q] = Cardinality(EntriesOf[q]) + Cardinality(HoldingOf[q])
                  + (IF q \in cur \cup ld.old THEN 1 ELSE 0)
  BY DEF Uses
<1> QED
  BY <1>1, <1>2, SetsFinite DEF PolInv

\* Nobody refers to free policy memory.
LEMMA FreeIsUnused ==
  ASSUME PolInv, NEW q \in Policies, ~pol[q].live
  PROVE  EntriesOf[q] = {} /\ HoldingOf[q] = {} /\ q \notin cur \cup ld.old /\ Uses[q] = 0
  BY UsedIsLive DEF PolInv

\* A step adds a reference to those on a policy, or takes one away.
OneMore(q) == Uses'[q] = Uses[q] + 1 /\ \A x \in Policies : x # q => Uses'[x] = Uses[x]
OneLess(q) == Uses'[q] = Uses[q] - 1 /\ \A x \in Policies : x # q => Uses'[x] = Uses[x]

\* A reference more ...
LEMMA PolUp ==
  ASSUME TypeOK, PolInv, NEW q \in Policies, pol[q].live,
         OneMore(q), pol' = [pol EXCEPT ![q].ref = @ + 1]
  PROVE  PolInv'
<1>1. /\ Uses'[q] = Uses[q] + 1
      /\ \A x \in Policies : x # q => Uses'[x] = Uses[x]
  BY DEF OneMore
<1>2. /\ pol'[q].ref = pol[q].ref + 1 /\ pol'[q].live = pol[q].live
      /\ \A x \in Policies : x # q => pol'[x] = pol[x]
  <2> DEFINE v == pol[q].ref + 1
  <2>1. pol'[q] = [pol[q] EXCEPT !.ref = v]
    BY DEF TypeOK
  <2> HIDE DEF v
  <2>2. \A x \in Policies : x # q => pol'[x] = pol[x]
    BY DEF TypeOK
  <2>3. pol[q] \in PolicyType
    BY DEF TypeOK
  <2>4. pol'[q].ref = v /\ pol'[q].live = pol[q].live
    BY <2>1, <2>3, ZenonT(30) DEF PolicyType
  <2> QED
    BY <2>1, <2>2, <2>3, <2>4, Zenon DEF v
<1>3. pol[q].ref = Uses[q] /\ Uses[q] \in Nat
  BY SetsFinite DEF PolInv
<1>4. pol'[q].ref = Uses'[q] /\ pol'[q].ref # 0
  BY <1>1, <1>2, <1>3
<1> QED
  BY <1>1, <1>2, <1>4 DEF PolInv

\* ... and one less: npf_natpolicy_release frees the policy with the last one.
LEMMA PolDown ==
  ASSUME TypeOK, PolInv, NEW q \in Policies, pol[q].live,
         OneLess(q), pol' = Released(pol, q)
  PROVE  PolInv'
<1>1. /\ Uses'[q] = Uses[q] - 1
      /\ \A x \in Policies : x # q => Uses'[x] = Uses[x]
  BY DEF OneLess
<1>2. \A x \in Policies : x # q => pol'[x] = pol[x]
  BY DEF TypeOK, Released
<1>3. pol[q].ref = Uses[q] /\ Uses[q] \in Nat /\ Uses[q] # 0
  BY SetsFinite DEF PolInv
<1>4. pol[q].ref = 1 => pol'[q].ref = 0 /\ ~pol'[q].live
  BY DEF TypeOK, PolicyType, Released, FreePolicy
<1>5. pol[q].ref # 1 => pol'[q].ref = pol[q].ref - 1 /\ pol'[q].live
  BY DEF TypeOK, PolicyType, Released
<1>6. pol'[q].ref = Uses'[q] /\ (pol'[q].live <=> pol'[q].ref # 0)
  BY <1>1, <1>3, <1>4, <1>5
<1> QED
  BY <1>1, <1>2, <1>6, Zenon DEF PolInv

\* References are counted the same.
LEMMA PolSame ==
  ASSUME PolInv, Uses' = Uses,
         \A q \in Policies : pol'[q].ref = pol[q].ref /\ pol'[q].live = pol[q].live
  PROVE  PolInv'
  BY DEF PolInv

\* What a step does to the references: a packet takes one ...
LEMMA HoldGain ==
  ASSUME TypeOK, NEW p \in Packets, NEW r, Go(p, r), NEW q \in Policies,
         pk[p].pc \notin HoldPCs, r.pc \in HoldPCs, r.pol = q,
         EntriesOf' = EntriesOf, (cur \cup ld.old)' = cur \cup ld.old
  PROVE  OneMore(q)
<1>1. pk'[p] = r /\ \A x \in Packets : x # p => pk'[x] = pk[x]
  BY DEF TypeOK, Go
<1>2. p \notin HoldingOf[q] /\ HoldingOf'[q] = HoldingOf[q] \cup {p}
  BY <1>1 DEF HoldingOf, Holding, HoldPCs
<1>3. \A x \in Policies : x # q => HoldingOf'[x] = HoldingOf[x]
  BY <1>1 DEF HoldingOf, Holding, HoldPCs
<1>4. Cardinality(HoldingOf'[q]) = Cardinality(HoldingOf[q]) + 1
  <2>1. IsFiniteSet(HoldingOf[q])
    BY SetsFinite
  <2> QED
    BY ONLY <1>2, <2>1, FS_AddElement, Zenon
<1>5. Uses'[q] = Uses[q] + 1
  BY <1>4, SetsFinite DEF Uses
<1>6. \A x \in Policies : x # q => Uses'[x] = Uses[x]
  BY <1>3 DEF Uses
<1> QED
  BY <1>5, <1>6 DEF OneMore

\* ... or drops it,
LEMMA HoldLose ==
  ASSUME TypeOK, NEW p \in Packets, NEW r, Go(p, r), NEW q \in Policies,
         pk[p].pc \in HoldPCs, r.pc \notin HoldPCs, pk[p].pol = q,
         EntriesOf' = EntriesOf, (cur \cup ld.old)' = cur \cup ld.old
  PROVE  OneLess(q)
<1>1. pk'[p] = r /\ \A x \in Packets : x # p => pk'[x] = pk[x]
  BY DEF TypeOK, Go
<1>2. p \in HoldingOf[q] /\ HoldingOf'[q] = HoldingOf[q] \ {p}
  BY <1>1 DEF HoldingOf, Holding, HoldPCs
<1>3. \A x \in Policies : x # q => HoldingOf'[x] = HoldingOf[x]
  BY <1>1 DEF HoldingOf, Holding, HoldPCs
<1>4. Cardinality(HoldingOf'[q]) = Cardinality(HoldingOf[q]) - 1
  <2>1. IsFiniteSet(HoldingOf[q])
    BY SetsFinite
  <2> QED
    BY ONLY <1>2, <2>1, FS_RemoveElement, Zenon
<1>5. Uses'[q] = Uses[q] - 1
  BY <1>4, SetsFinite DEF Uses
<1>6. \A x \in Policies : x # q => Uses'[x] = Uses[x]
  BY <1>3 DEF Uses
<1> QED
  BY <1>5, <1>6 DEF OneLess

\* ... or gives it to the entry it makes;
LEMMA HoldConsumed ==
  ASSUME TypeOK, NEW p \in Packets, NEW r, Go(p, r), NEW q \in Policies, NEW n \in Nats,
         pk[p].pc \in HoldPCs, r.pc \notin HoldPCs, pk[p].pol = q,
         ~nat[n].live, nat'[n].live, nat'[n].pol = q,
         \A m \in Nats : m # n => nat'[m] = nat[m],
         (cur \cup ld.old)' = cur \cup ld.old
  PROVE  Uses' = Uses
<1>1. pk'[p] = r /\ \A x \in Packets : x # p => pk'[x] = pk[x]
  BY DEF TypeOK, Go
<1>2. p \in HoldingOf[q] /\ HoldingOf'[q] = HoldingOf[q] \ {p}
  BY <1>1 DEF HoldingOf, Holding, HoldPCs
<1>3. n \notin EntriesOf[q] /\ EntriesOf'[q] = EntriesOf[q] \cup {n}
  BY DEF EntriesOf, Entries
<1>4. \A x \in Policies : x # q => HoldingOf'[x] = HoldingOf[x] /\ EntriesOf'[x] = EntriesOf[x]
  BY <1>1 DEF HoldingOf, Holding, HoldPCs, EntriesOf, Entries
<1>5. Cardinality(HoldingOf'[q]) = Cardinality(HoldingOf[q]) - 1
  <2>1. IsFiniteSet(HoldingOf[q])
    BY SetsFinite
  <2> QED
    BY ONLY <1>2, <2>1, FS_RemoveElement, Zenon
<1>6. Cardinality(EntriesOf'[q]) = Cardinality(EntriesOf[q]) + 1
  <2>1. IsFiniteSet(EntriesOf[q])
    BY SetsFinite
  <2> QED
    BY ONLY <1>3, <2>1, FS_AddElement, Zenon
<1>7. Uses'[q] = Uses[q]
  BY <1>5, <1>6, SetsFinite DEF Uses
<1>8. \A x \in Policies : x # q => Uses'[x] = Uses[x]
  BY <1>4 DEF Uses
<1> QED
  BY <1>7, <1>8 DEF Uses

\* an entry is made with a reference of its own,
LEMMA EntryGain ==
  ASSUME NEW q \in Policies, NEW n \in Nats, ~nat[n].live, nat'[n].live, nat'[n].pol = q,
         \A m \in Nats : m # n => nat'[m] = nat[m],
         HoldingOf' = HoldingOf, (cur \cup ld.old)' = cur \cup ld.old
  PROVE  OneMore(q)
<1>1. n \notin EntriesOf[q] /\ EntriesOf'[q] = EntriesOf[q] \cup {n}
  BY DEF EntriesOf, Entries
<1>2. \A x \in Policies : x # q => EntriesOf'[x] = EntriesOf[x]
  BY DEF EntriesOf, Entries
<1>3. Cardinality(EntriesOf'[q]) = Cardinality(EntriesOf[q]) + 1
  <2>1. IsFiniteSet(EntriesOf[q])
    BY SetsFinite
  <2> QED
    BY ONLY <1>1, <2>1, FS_AddElement, Zenon
<1>4. Uses'[q] = Uses[q] + 1
  BY <1>3, SetsFinite DEF Uses
<1>5. \A x \in Policies : x # q => Uses'[x] = Uses[x]
  BY <1>2 DEF Uses
<1> QED
  BY <1>4, <1>5 DEF OneMore

\* or destroyed with it.
LEMMA EntryLose ==
  ASSUME NEW q \in Policies, NEW n \in Nats, nat[n].live, nat[n].pol = q, ~nat'[n].live,
         \A m \in Nats : m # n => nat'[m] = nat[m],
         HoldingOf' = HoldingOf, (cur \cup ld.old)' = cur \cup ld.old
  PROVE  OneLess(q)
<1>1. n \in EntriesOf[q] /\ EntriesOf'[q] = EntriesOf[q] \ {n}
  BY DEF EntriesOf, Entries
<1>2. \A x \in Policies : x # q => EntriesOf'[x] = EntriesOf[x]
  BY DEF EntriesOf, Entries
<1>3. Cardinality(EntriesOf'[q]) = Cardinality(EntriesOf[q]) - 1
  <2>1. IsFiniteSet(EntriesOf[q])
    BY SetsFinite
  <2> QED
    BY ONLY <1>1, <2>1, FS_RemoveElement, Zenon
<1>4. Uses'[q] = Uses[q] - 1
  BY <1>3, SetsFinite DEF Uses
<1>5. \A x \in Policies : x # q => Uses'[x] = Uses[x]
  BY <1>2 DEF Uses
<1> QED
  BY <1>4, <1>5 DEF OneLess

\* The counting keeps the policies well-typed.
LEMMA PolTypes ==
  ASSUME TypeOK, PolInv, NEW q \in Policies, pol[q].live
  PROVE  /\ pol' = [pol EXCEPT ![q].ref = @ + 1] => pol' \in [Policies -> PolicyType]
         /\ pol' = Released(pol, q) => pol' \in [Policies -> PolicyType]
<1>1. pol[q] \in PolicyType /\ pol[q].ref \in Nat /\ pol[q].ref # 0 /\ pol \in [Policies -> PolicyType]
  BY DEF TypeOK, PolicyType, PolInv
<1> USE <1>1
<1>2. pol[q].ref + 1 \in Nat /\ pol[q].ref - 1 \in Nat
  OBVIOUS
<1>3. /\ [pol[q] EXCEPT !.ref = pol[q].ref + 1] \in PolicyType
      /\ [pol[q] EXCEPT !.ref = pol[q].ref - 1] \in PolicyType /\ FreePolicy \in PolicyType
  BY <1>2 DEF PolicyType, FreePolicy
<1> QED
  BY <1>3 DEF Released

-----------------------------------------------------------------------------
\* A step of a packet that neither takes nor drops a reference.
LEMMA HoldSame ==
  ASSUME TypeOK, NEW p \in Packets, NEW r, Go(p, r),
         pk[p].pc \in HoldPCs <=> r.pc \in HoldPCs,
         r.pc \in HoldPCs => r.pol = pk[p].pol
  PROVE  HoldingOf' = HoldingOf
<1>1. pk'[p] = r /\ \A x \in Packets : x # p => pk'[x] = pk[x]
  BY DEF TypeOK, Go
<1>2. ASSUME NEW q \in Policies PROVE HoldingOf'[q] = HoldingOf[q]
  BY <1>1 DEF HoldingOf, Holding, HoldPCs
<1> QED
  BY <1>2 DEF HoldingOf

\* What the entries and their ports need of a step that leaves them alone.
LEMMA NatSame ==
  ASSUME UNCHANGED <<nat, ports>>
  PROVE  EntriesOf' = EntriesOf /\ (PortInv => PortInv')
  BY DEF EntriesOf, Entries, PortInv

\* What changes neither the list of entries of a policy, nor who holds it, nor
\* the rules, leaves the number of its references as it is.
LEMMA UsesSame ==
  ASSUME EntriesOf' = EntriesOf, HoldingOf' = HoldingOf, (cur \cup ld.old)' = cur \cup ld.old
  PROVE  Uses' = Uses
  BY DEF Uses

\* What touches no entry, connection or rule disturbs no dropped policy.
LEMMA DrainsSame ==
  ASSUME DroppedDrains, UNCHANGED <<nat, conn, cur>>, ld'.old = ld.old, ld'.pc = ld.pc
  PROVE  DroppedDrains'
  BY DEF DroppedDrains, Dropped

-----------------------------------------------------------------------------
(* What a step leaves alone.                                               *)

\* What the fields that refer to another structure can hold.
LEMMA Fields ==
  ASSUME TypeOK
  PROVE  /\ \A x \in Packets : /\ pk[x] \in PacketType /\ pk[x].con \in Conns \cup {NULL}
                               /\ pk[x].nt \in Nats \cup {NULL} /\ pk[x].pol \in Policies \cup {NULL}
         /\ \A n \in Nats : nat[n].conn \in Conns \cup {NULL} /\ nat[n].pol \in Policies \cup {NULL}
         /\ \A c \in Conns : conn[c] \in ConnType /\ conn[c].nat \in Nats \cup {NULL}
  BY DEF TypeOK, PacketType, NatType, ConnType

\* A packet of which a step makes no second owner of an entry.
LEMMA OwnerFrame ==
  ASSUME OwnerInv, NEW p \in Packets, \A x \in Packets : x # p => pk'[x] = pk[x],
         pk'[p].pc \in OwnPCs => \/ pk[p].pc \in OwnPCs /\ pk'[p].nt = pk[p].nt
                                 \/ \A x \in Packets : x # p => pk[x].nt # pk'[p].nt
  PROVE  OwnerInv'
  BY DEF OwnerInv

\* A step of a packet is no business of another one, if the connection and the
\* entry that one refers to stay as they are.
LEMMA PacketFrame ==
  ASSUME PacketInv, NEW p \in Packets, PacketOK(p)',
         \A x \in Packets : x # p =>
           /\ pk'[x] = pk[x]
           /\ pk[x].con # NULL => conn'[pk[x].con].live = conn[pk[x].con].live
           /\ pk[x].nt # NULL =>
                /\ nat'[pk[x].nt].live = nat[pk[x].nt].live /\ nat'[pk[x].nt].pol = nat[pk[x].nt].pol
                /\ nat'[pk[x].nt].conn = nat[pk[x].nt].conn
                /\ conn'[pk[x].con].nat = pk[x].nt <=> conn[pk[x].con].nat = pk[x].nt
  PROVE  PacketInv'
<1>1. ASSUME NEW x \in Packets, x # p PROVE PacketOK(x)'
  <2>1. PacketOK(x)
    BY Zenon DEF PacketInv
  <2> QED
    BY <1>1, <2>1 DEF PacketOK
<1> QED
  BY <1>1 DEF PacketInv

\* An entry keeps its owner in a step of a packet that goes on to own what it
\* owned.
LEMMA EntryFrame ==
  ASSUME TypeOK, EntryInv, NEW p \in Packets, \A x \in Packets : x # p => pk'[x] = pk[x],
         pk[p].pc \in OwnPCs => pk'[p].pc \in OwnPCs /\ pk'[p].nt = pk[p].nt,
         \A n \in Nats : /\ nat'[n].live = nat[n].live /\ nat'[n].pol = nat[n].pol
                         /\ nat'[n].conn = nat[n].conn /\ (nat[n] = FreeNat => nat'[n] = FreeNat),
         \A c \in Conns : conn[c].live => conn'[c].live /\ conn'[c].nat = conn[c].nat
  PROVE  EntryInv'
<1>1. ASSUME NEW n \in Nats, nat[n].live
      PROVE  /\ nat[n].conn \in Conns /\ nat[n].conn # NULL /\ nat[n].pol # NULL /\ conn[nat[n].conn].live
             /\ conn[nat[n].conn].nat = n \/ \E x \in Packets : pk[x].pc \in OwnPCs /\ pk[x].nt = n
  BY <1>1, Zenon DEF EntryInv, TypeOK, NatType
<1>2. ASSUME NEW n \in Nats, \E x \in Packets : pk[x].pc \in OwnPCs /\ pk[x].nt = n
      PROVE  \E x \in Packets : pk'[x].pc \in OwnPCs /\ pk'[x].nt = n
  BY <1>2
<1>3. ASSUME NEW n \in Nats, ~nat[n].live PROVE nat'[n] = FreeNat
  BY <1>3 DEF EntryInv
<1> QED
  BY <1>1, <1>2, <1>3 DEF EntryInv

\* A dropped policy goes on to drain while its connections stay expired.
LEMMA DrainsFrame ==
  ASSUME TypeOK, EntryInv, DroppedDrains, cur' = cur, ld'.old = ld.old, ld'.pc = ld.pc,
         \A n \in Nats : /\ nat'[n].live = nat[n].live /\ nat'[n].pol = nat[n].pol
                         /\ nat'[n].conn = nat[n].conn /\ nat'[n].late = nat[n].late,
         \A c \in Conns : conn[c].live /\ conn[c].exp => conn'[c].exp
  PROVE  DroppedDrains'
<1>1. ASSUME NEW n \in Nats, nat[n].live PROVE nat[n].conn \in Conns /\ conn[nat[n].conn].live
  BY <1>1 DEF EntryInv, TypeOK, NatType
<1>2. \A q : Dropped(q)' = Dropped(q)
  BY DEF Dropped
<1> QED
  BY <1>1, <1>2 DEF DroppedDrains

-----------------------------------------------------------------------------
(* The steps of a packet.                                                  *)

\* npf_conn_lookup and npf_conn_getnat at the head of npf_do_nat: the packet
\* takes the connection, and no reference on the policy.
LEMMA LookupKeeps ==
  ASSUME NatInv, NEW p \in Packets, NEW c \in Conns \cup {NULL}, NEW same \in BOOLEAN,
         npf_nat_lookup(p, c, same)
  PROVE  NatInv'
<1> DEFINE nt == IF c = NULL \/ ~same THEN NULL ELSE conn[c].nat
           r == [NoPacket EXCEPT !.con = c, !.nt = nt,
                   !.pol = IF nt = NULL THEN NULL ELSE nat[nt].pol,
                   !.pc = IF nt = NULL THEN "inspect" ELSE "exec"]
<1> USE DEF NatInv, Core
<1>1. Go(p, r) /\ UNCHANGED <<pol, nat, conn, ports, cur, ld, alg, calls>>
  BY DEF npf_nat_lookup
<1> USE <1>1
<1>2. pk'[p] = r /\ \A x \in Packets : x # p => pk'[x] = pk[x]
  BY DEF TypeOK, Go
<1> USE <1>2
<1>3. /\ nt \in Nats \cup {NULL} /\ pk[p].pc = "idle"
      /\ nt # NULL => /\ c \in Conns /\ nat[nt].pol \in Policies /\ nat[nt].live
                      /\ conn[c].nat = nt /\ nat[nt].conn = c
      /\ c # NULL => conn[c].live /\ ~conn[c].exp
  BY NatAssumption DEF TypeOK, NatType, ConnType, ConnInv, EntryInv, npf_nat_lookup
<1> USE <1>3
<1>4. /\ r.pc = (IF nt = NULL THEN "inspect" ELSE "exec") /\ r.con = c /\ r.nt = nt
      /\ r.pol = (IF nt = NULL THEN NULL ELSE nat[nt].pol) /\ r.own = FALSE /\ r.err = FALSE
  BY DEF NoPacket
<1> USE <1>4
<1>a. r \in PacketType
  BY ZenonT(30) DEF PacketType, NoPacket, PacketPCs
<1> HIDE DEF nt, r
<1>5. TypeOK'
  BY <1>a DEF TypeOK, Go
<1>6. PacketInv'
  <2>1. PacketOK(p)'
    BY NatAssumption, Zenon DEF PacketOK, HoldPCs, OwnPCs
  <2> QED
    BY <2>1, PacketFrame, Zenon
<1>7. OwnerInv'
  BY DEF OwnerInv, OwnPCs
<1>8. EntryInv'
  BY DEF EntryInv, OwnPCs
<1>9. ConnInv'
  BY NatAssumption DEF ConnInv
<1>10. LoadInv'
  BY Zenon DEF LoadInv
<1>11. PolInv'
  BY HoldSame, NatSame, UsesSame, PolSame, Zenon DEF HoldPCs
<1>12. PortInv' /\ DroppedDrains'
  BY NatSame, DrainsSame
<1> QED
  BY <1>5, <1>6, <1>7, <1>8, <1>9, <1>10, <1>11, <1>12, Zenon

\* npf_nat_inspect finds a rule with a policy, of which it has no reference yet.
LEMMA InspectKeeps ==
  ASSUME NatInv, NEW p \in Packets, npf_nat_inspect(p)
  PROVE  NatInv'
<1> USE DEF NatInv, Core
<1>1. PICK r : /\ Go(p, r)
               /\ \/ r = [pk[p] EXCEPT !.pc = "out"]
                  \/ \E q \in cur : r = [pk[p] EXCEPT !.pc = "getnat", !.pol = q]
  BY ZenonT(30) DEF npf_nat_inspect
<1>2. pk'[p] = r /\ \A x \in Packets : x # p => pk'[x] = pk[x]
  BY <1>1, ZenonT(30) DEF TypeOK, Go
<1>3. pk[p].pc = "inspect" /\ UNCHANGED <<pol, nat, conn, ports, cur, ld, alg, calls>>
  BY ZenonT(30) DEF npf_nat_inspect
<1> USE <1>3
<1>4. /\ r.con = pk[p].con /\ r.nt = pk[p].nt /\ r.own = pk[p].own
      /\ (r.pc = "out" /\ r.pol = pk[p].pol) \/ (r.pc = "getnat" /\ r.pol \in cur)
  <2>1. pk[p] \in PacketType
    BY DEF TypeOK
  <2> QED
    BY <1>1, <2>1, Zenon DEF PacketType
<1> USE <1>4
<1>5. TypeOK'
  <2>1. r \in PacketType
    <3>1. pk[p] \in PacketType /\ cur \subseteq Policies
      BY DEF TypeOK
    <3> QED
      BY <1>1, <3>1, ZenonT(30) DEF PacketType, PacketPCs
  <2> QED
    BY <1>1, <2>1, ZenonT(30) DEF TypeOK, Go
<1>6. PacketInv'
  <2>1. PacketOK(p) /\ cur \subseteq Policies
    BY DEF PacketInv, TypeOK
  <2>2. PacketOK(p)'
    BY <1>2, <2>1, NatAssumption, Zenon DEF PacketOK, HoldPCs, OwnPCs
  <2> QED
    BY <1>2, <2>2, PacketFrame, Zenon
<1>7. OwnerInv'
  BY <1>2 DEF OwnerInv, OwnPCs
<1>8. EntryInv'
  BY <1>2 DEF EntryInv, OwnPCs
<1>9. ConnInv'
  BY <1>2 DEF ConnInv
<1>10. LoadInv'
  BY <1>2, Zenon DEF LoadInv
<1>11. PolInv'
  BY <1>1, HoldSame, NatSame, UsesSame, PolSame, Zenon DEF HoldPCs
<1>12. PortInv' /\ DroppedDrains'
  BY NatSame, DrainsSame
<1> QED
  BY <1>5, <1>6, <1>7, <1>8, <1>9, <1>10, <1>11, <1>12

\* npf_nat_inspect takes the reference, still in the critical section that keeps
\* the rule's own reference.
LEMMA InspectRefKeeps ==
  ASSUME NatInv, NEW p \in Packets, nat_inspect_ref(p)
  PROVE  NatInv'
<1> USE DEF NatInv, Core
<1> DEFINE q == pk[p].pol
<1>1. PICK r : /\ Go(p, r)
               /\ \E pc \in HoldPCs : /\ r = [pk[p] EXCEPT !.pc = pc]
                                      /\ pk[p].con = NULL => pc # "create"
  BY DEF nat_inspect_ref, HoldPCs
<1>2. pk'[p] = r /\ \A x \in Packets : x # p => pk'[x] = pk[x]
  BY <1>1 DEF TypeOK, Go
<1>3. /\ pk[p].pc = "getnat" /\ UNCHANGED <<nat, conn, ports, cur, calls>>
      /\ pol' = [pol EXCEPT ![q].ref = @ + 1]
      /\ ld' = [ld EXCEPT !.wait = @ \ {p}] /\ alg' = [alg EXCEPT !.wait = @ \ {p}]
  BY DEF nat_inspect_ref, Exit
<1> USE <1>3
<1>4. /\ r.con = pk[p].con /\ r.nt = pk[p].nt /\ r.own = pk[p].own /\ r.pol = pk[p].pol
      /\ r.pc \in HoldPCs /\ (r.con = NULL => r.pc # "create")
  <2>1. pk[p] \in PacketType
    BY DEF TypeOK
  <2> QED
    BY <1>1, <2>1 DEF PacketType
<1>5. /\ ld'.pc = ld.pc /\ ld'.old = ld.old /\ ld'.wait = ld.wait \ {p}
      /\ alg'.pc = alg.pc /\ alg'.reg = alg.reg /\ alg'.wait = alg.wait \ {p}
  BY DEF TypeOK
<1>6. q \in Policies /\ q \in cur \cup ld.old /\ pol[q].live
  BY UsedIsLive DEF TypeOK, LoadInv
<1>7. TypeOK'
  <2>1. r \in PacketType
    <3>1. pk[p] \in PacketType
      BY DEF TypeOK
    <3> QED
      BY <1>1, <3>1 DEF PacketType, PacketPCs, HoldPCs
  <2>2. pol' \in [Policies -> PolicyType]
    BY <1>6, PolTypes, Zenon
  <2>3. /\ ld' \in [pc : {"idle", "sync", "release"}, old : SUBSET Policies, wait : SUBSET Packets]
        /\ alg' \in [reg : BOOLEAN, pc : {"idle", "sync"}, wait : SUBSET Packets]
    BY DEF TypeOK
  <2> QED
    BY <1>1, <2>1, <2>2, <2>3 DEF TypeOK, Go
<1>8. PacketInv'
  BY <1>2, <1>4, NatAssumption DEF PacketInv, PacketOK, HoldPCs, OwnPCs, TypeOK
<1>9. OwnerInv'
  BY <1>2, <1>4 DEF OwnerInv, OwnPCs, HoldPCs
<1>10. EntryInv'
  BY <1>2, <1>4 DEF EntryInv, OwnPCs
<1>11. ConnInv'
  BY <1>2, <1>4 DEF ConnInv
<1>12. LoadInv'
  BY <1>2, <1>4, <1>5 DEF LoadInv, HoldPCs
<1>13. PolInv'
  <2>1. OneMore(q)
    BY <1>1, <1>4, <1>5, <1>6, HoldGain, NatSame, Zenon DEF HoldPCs
  <2> QED
    BY <1>6, <2>1, PolUp, Zenon
<1>14. PortInv' /\ DroppedDrains'
  BY <1>5, NatSame, DrainsSame
<1> QED
  BY <1>7, <1>8, <1>9, <1>10, <1>11, <1>12, <1>13, <1>14

\* A packet that only moves on: matched by an ALG or not, translated, or about
\* to destroy its entry.
LEMMA MoveKeeps ==
  ASSUME NatInv, NEW p \in Packets, NEW r \in PacketType, Go(p, r),
         r.con = pk[p].con, r.nt = pk[p].nt, r.own = pk[p].own, r.pol = pk[p].pol,
         (pk[p].pc \in OwnPCs /\ r.pc \in OwnPCs) \/ (pk[p].pc = "exec" /\ r.pc = "out"),
         UNCHANGED <<pol, nat, conn, ports, cur, ld, alg>>, calls' \in [Nats -> Nat]
  PROVE  NatInv'
<1> USE DEF NatInv, Core
<1>1. pk'[p] = r /\ \A x \in Packets : x # p => pk'[x] = pk[x]
  BY DEF TypeOK, Go
<1> USE <1>1
<1>3. TypeOK'
  BY DEF TypeOK, Go
<1>4. PacketInv'
  BY DEF PacketInv, PacketOK, HoldPCs, OwnPCs
<1>5. OwnerInv'
  BY DEF OwnerInv, OwnPCs
<1>6. EntryInv'
  BY DEF EntryInv, OwnPCs
<1>7. ConnInv'
  BY DEF ConnInv
<1>8. LoadInv'
  BY Zenon DEF LoadInv, OwnPCs
<1>9. PolInv'
  <2>1. Go(p, r) /\ pk[p].pc \notin HoldPCs /\ r.pc \notin HoldPCs
    BY DEF HoldPCs, OwnPCs
  <2> QED
    BY <2>1, HoldSame, NatSame, UsesSame, PolSame, Zenon
<1>10. PortInv' /\ DroppedDrains'
  BY NatSame, DrainsSame, Zenon
<1> QED
  BY <1>3, <1>4, <1>5, <1>6, <1>7, <1>8, <1>9, <1>10, Zenon

\* A packet that gives up its reference on the policy, before it has an entry.
LEMMA GiveUpKeeps ==
  ASSUME NatInv, NEW p \in Packets, NEW err \in BOOLEAN, pk[p].pc \in HoldPCs,
         Go(p, [pk[p] EXCEPT !.pc = "out", !.pol = NULL, !.err = err]),
         pol' = Released(pol, pk[p].pol),
         UNCHANGED <<nat, conn, ports, cur, ld, alg, calls>>
  PROVE  NatInv'
<1> USE DEF NatInv, Core
<1> DEFINE r == [pk[p] EXCEPT !.pc = "out", !.pol = NULL, !.err = err]
           q == pk[p].pol
<1>1. pk'[p] = r /\ \A x \in Packets : x # p => pk'[x] = pk[x]
  BY DEF TypeOK, Go
<1>2. /\ r.con = pk[p].con /\ r.nt = pk[p].nt /\ r.own = pk[p].own /\ r.pol = NULL
      /\ r.pc = "out" /\ r \in PacketType
  <2>1. pk[p] \in PacketType
    BY DEF TypeOK
  <2> QED
    BY <2>1, Zenon DEF PacketType, PacketPCs
<1> USE <1>2
<1>3. q \in Policies /\ pk[p].nt = NULL /\ pol[q].live
  <2>1. q \in Policies /\ pk[p].nt = NULL
    BY DEF TypeOK, PacketType, PacketInv, PacketOK
  <2>2. p \in HoldingOf[q]
    BY <2>1 DEF HoldingOf, Holding, HoldPCs
  <2> QED
    BY <2>1, <2>2, UsedIsLive
<1>4. Go(p, r)
  OBVIOUS
<1> HIDE DEF r
<1>5. TypeOK'
  BY <1>3, <1>4, PolTypes, ZenonT(30) DEF TypeOK, Go
<1>6. PacketInv'
  BY <1>1, <1>3 DEF PacketInv, PacketOK, HoldPCs, OwnPCs
<1>7. OwnerInv'
  BY <1>1 DEF OwnerInv, OwnPCs
<1>8. EntryInv'
  BY <1>1 DEF EntryInv, OwnPCs, HoldPCs
<1>9. ConnInv'
  BY <1>1 DEF ConnInv
<1>10. LoadInv'
  BY <1>1 DEF LoadInv
<1>11. PolInv'
  BY <1>3, <1>4, HoldLose, NatSame, PolDown DEF HoldPCs
<1>12. PortInv' /\ DroppedDrains'
  BY NatSame, DrainsSame
<1> QED
  BY <1>5, <1>6, <1>7, <1>8, <1>9, <1>10, <1>11, <1>12

\* npf_conn_establish gives the packet a connection of its own, or fails and
\* npf_do_nat drops the reference.
LEMMA EstablishKeeps ==
  ASSUME NatInv, NEW p \in Packets, npf_conn_establish(p)
  PROVE  NatInv'
<1> USE DEF NatInv, Core
<1>1. /\ pk[p].pc = "establish" /\ pk[p].pc \in HoldPCs
      /\ UNCHANGED <<nat, ports, cur, ld, alg, calls>>
  BY Zenon DEF npf_conn_establish, HoldPCs
<1> USE <1>1
<1>2. CASE \E c \in SpareConns :
             /\ conn' = [conn EXCEPT ![c] = [FreeConn EXCEPT !.live = TRUE]]
             /\ Go(p, [pk[p] EXCEPT !.pc = "create", !.con = c, !.own = TRUE])
             /\ UNCHANGED pol
  <2>1. PICK c \in SpareConns :
          /\ conn' = [conn EXCEPT ![c] = [FreeConn EXCEPT !.live = TRUE]]
          /\ Go(p, [pk[p] EXCEPT !.pc = "create", !.con = c, !.own = TRUE])
    BY <1>2, Zenon
  <2> DEFINE r == [pk[p] EXCEPT !.pc = "create", !.con = c, !.own = TRUE]
             k == [FreeConn EXCEPT !.live = TRUE]
  <2>2. pk'[p] = r /\ \A x \in Packets : x # p => pk'[x] = pk[x]
    BY <2>1 DEF TypeOK, Go
  <2>3. c \in Conns /\ ~conn[c].live /\ \A x \in Packets : pk[x].con # c
    BY DEF SpareConns
  <2>4. conn'[c] = k /\ \A d \in Conns : d # c => conn'[d] = conn[d]
    BY <2>1, <2>3 DEF TypeOK
  <2>5. /\ r.con = c /\ r.nt = pk[p].nt /\ r.own = TRUE /\ r.pol = pk[p].pol
        /\ r.pc = "create" /\ r \in PacketType
    <3>1. pk[p] \in PacketType
      BY DEF TypeOK
    <3> QED
      BY <2>3, <3>1, Zenon DEF PacketType, PacketPCs
  <2>6. k.live /\ ~k.exp /\ k.nat = NULL /\ k.done = "no" /\ k \in ConnType
    BY Zenon DEF FreeConn, ConnType
  <2>7. Go(p, r) /\ conn' = [conn EXCEPT ![c] = k]
    BY <2>1
  <2> HIDE DEF r, k
  <2>8. TypeOK'
    BY <1>2, <2>3, <2>5, <2>6, <2>7, ZenonT(30) DEF TypeOK, Go
  <2>9. PacketInv'
    <3>1. PacketOK(p) /\ \A x \in Packets : pk[x].con \in Conns \cup {NULL}
      BY DEF PacketInv, TypeOK, PacketType
    <3>2. PacketOK(p)'
      BY <2>2, <2>3, <2>4, <2>5, <2>6, <3>1, NatAssumption, Zenon DEF PacketOK, HoldPCs, OwnPCs
    <3>3. \A x \in Packets : pk[x].nt # NULL => pk[x].con # NULL
      BY Zenon DEF PacketInv, PacketOK
    <3>4. \A x \in Packets : pk[x].con # NULL => conn'[pk[x].con] = conn[pk[x].con]
      BY <2>3, <2>4, <3>1, Zenon
    <3> QED
      BY <2>2, <3>2, <3>3, <3>4, PacketFrame
  <2>10. OwnerInv'
    BY <2>2, <2>5 DEF OwnerInv, OwnPCs
  <2>11. EntryInv'
    <3>1. pk[p].pc \notin OwnPCs
      BY DEF OwnPCs
    <3> QED
      BY <2>2, <2>3, <2>4, <3>1, EntryFrame, Zenon
  <2>12. ConnInv'
    BY <2>2, <2>3, <2>4, <2>5, <2>6, NatAssumption DEF ConnInv, TypeOK, ConnType
  <2>13. LoadInv'
    BY <2>2, <2>5, Zenon DEF LoadInv
  <2>14. PolInv'
    BY <1>2, <2>5, <2>7, HoldSame, NatSame, UsesSame, PolSame DEF HoldPCs
  <2>15. PortInv'
    BY NatSame
  <2>16. DroppedDrains'
    BY <2>3, <2>4, DrainsFrame, Zenon
  <2> QED
    BY <2>8, <2>9, <2>10, <2>11, <2>12, <2>13, <2>14, <2>15, <2>16
<1>3. CASE /\ pol' = Released(pol, pk[p].pol)
           /\ Go(p, [pk[p] EXCEPT !.pc = "out", !.pol = NULL, !.err = TRUE])
           /\ UNCHANGED conn
  BY <1>3, GiveUpKeeps, Zenon
<1> QED
  BY <1>2, <1>3, ZenonT(30) DEF npf_conn_establish

-----------------------------------------------------------------------------
\* npf_nat_create takes a port nobody has, or none.
LEMMA CreatedKeeps ==
  ASSUME TypeOK, PortInv, NEW n \in Nats, ~nat[n].live, NEW q \in Policies, NEW c \in Conns,
         NEW s, NEW port \in PortmapGet(s), Created(n, q, c, port, 4)
  PROVE  /\ PortInv' /\ ports' \subseteq {0, 4} \X Ports /\ nat' \in [Nats -> NatType]
         /\ nat'[n].live /\ nat'[n].pol = q /\ nat'[n].conn = c /\ nat'[n].late = Dropped(q)
         /\ ~nat'[n].alg /\ \A m \in Nats : m # n => nat'[m] = nat[m]
<1> DEFINE e == [live |-> TRUE, pol |-> q, conn |-> c, alg |-> FALSE,
                 port |-> port, alen |-> 4, late |-> Dropped(q)]
<1>1. port = 0 \/ (port \in Ports /\ port # 0 /\ <<4, port>> \notin ports)
  BY NatAssumption DEF PortmapGet
<1> USE <1>1
<1>2. nat' = [nat EXCEPT ![n] = e] /\ ports' = ports \cup ({<<4, port>>} \ {<<4, 0>>})
  BY DEF Created
<1>3. /\ e.live /\ e.pol = q /\ e.conn = c /\ e.late = Dropped(q) /\ ~e.alg
      /\ e.port = port /\ e.alen = 4
  OBVIOUS
<1>4. e \in NatType
  BY Zenon DEF NatType, Dropped
<1> HIDE DEF e
<1>5. nat'[n] = e /\ \A m \in Nats : m # n => nat'[m] = nat[m]
  BY <1>2 DEF TypeOK
<1> USE <1>5
<1>6. ports' = IF port = 0 THEN ports ELSE ports \cup {<<4, port>>}
  BY <1>2
<1>7. nat' \in [Nats -> NatType]
  BY <1>2, <1>4 DEF TypeOK
<1>8. ports' \subseteq {0, 4} \X Ports
  BY <1>6 DEF TypeOK
<1>9. PortInv'
  <2>1. \A m \in Nats : nat'[m].live /\ nat'[m].port # 0 => <<nat'[m].alen, nat'[m].port>> \in ports'
    BY <1>3, <1>6, Zenon DEF PortInv
  <2>2. \A x \in ports' : \E m \in Nats :
          nat'[m].live /\ nat'[m].port # 0 /\ x = <<nat'[m].alen, nat'[m].port>>
    BY <1>3, <1>6 DEF PortInv
  <2>3. \A m \in Nats : m # n /\ nat[m].live /\ nat[m].port # 0 =>
          ~(nat[m].port = port /\ nat[m].alen = 4)
    BY Zenon DEF PortInv
  <2>4. ASSUME NEW k \in Nats, NEW m \in Nats, nat'[k].live, nat'[m].live, nat'[k].port # 0,
               nat'[k].port = nat'[m].port, nat'[k].alen = nat'[m].alen
        PROVE  k = m
    BY <1>3, <2>3, <2>4 DEF PortInv
  <2> QED
    BY <2>1, <2>2, <2>4, Zenon DEF PortInv
<1> QED
  BY <1>3, <1>7, <1>8, <1>9

\* npf_nat_destroy puts the port back.
LEMMA UnlinkKeeps ==
  ASSUME TypeOK, PortInv, NEW n \in Nats, nat[n].live, nat_destroy_unlink(n)
  PROVE  /\ PortInv' /\ ports' \subseteq {0, 4} \X Ports /\ nat' \in [Nats -> NatType]
         /\ calls' \in [Nats -> Nat] /\ pol' = Released(pol, nat[n].pol)
         /\ nat'[n] = FreeNat /\ \A m \in Nats : m # n => nat'[m] = nat[m]
<1>1. /\ nat' = [nat EXCEPT ![n] = FreeNat] /\ ports' = ports \ {<<nat[n].alen, nat[n].port>>}
      /\ pol' = Released(pol, nat[n].pol) /\ calls' = [calls EXCEPT ![n] = 0]
  BY DEF nat_destroy_unlink, PortPut
<1> USE <1>1
<1>2. nat'[n] = FreeNat /\ \A m \in Nats : m # n => nat'[m] = nat[m]
  BY DEF TypeOK
<1> USE <1>2
<1>3. FreeNat \in NatType /\ ~FreeNat.live
  BY DEF FreeNat, NatType
<1> USE <1>3
<1>4. nat' \in [Nats -> NatType] /\ ports' \subseteq {0, 4} \X Ports /\ calls' \in [Nats -> Nat]
  BY Zenon DEF TypeOK
<1>5. PortInv'
  <2>1. ASSUME NEW m \in Nats, m # n, nat[m].live, nat[m].port # 0
        PROVE  <<nat[m].alen, nat[m].port>> # <<nat[n].alen, nat[n].port>>
    BY <2>1, Zenon DEF PortInv
  <2>2. ASSUME NEW m \in Nats, nat'[m].live, nat'[m].port # 0
        PROVE  <<nat'[m].alen, nat'[m].port>> \in ports'
    <3>1. m # n /\ nat'[m] = nat[m]
      BY <2>2, Zenon
    <3>2. <<nat[m].alen, nat[m].port>> \in ports
      BY <2>2, <3>1, Zenon DEF PortInv
    <3>3. <<nat[m].alen, nat[m].port>> # <<nat[n].alen, nat[n].port>>
      BY <2>1, <2>2, <3>1, Zenon
    <3>4. <<nat[m].alen, nat[m].port>> \in ports'
      BY <3>2, <3>3, Zenon
    <3> QED
      BY <3>1, <3>4, Zenon
  <2>3. \A x \in ports' : \E m \in Nats :
          nat'[m].live /\ nat'[m].port # 0 /\ x = <<nat'[m].alen, nat'[m].port>>
    <3> TAKE x \in ports'
    <3>1. PICK m \in Nats : nat[m].live /\ nat[m].port # 0 /\ x = <<nat[m].alen, nat[m].port>>
      BY Zenon DEF PortInv
    <3>2. m # n
      BY <3>1, Zenon
    <3> QED
      BY <3>1, <3>2, Zenon
  <2>4. ASSUME NEW k \in Nats, NEW m \in Nats, nat'[k].live, nat'[m].live, nat'[k].port # 0,
               nat'[k].port = nat'[m].port, nat'[k].alen = nat'[m].alen
        PROVE  k = m
    <3>1. k # n /\ m # n /\ nat'[k] = nat[k] /\ nat'[m] = nat[m]
      BY <2>4, Zenon
    <3> QED
      BY <2>4, <3>1, Zenon DEF PortInv
  <2> QED
    BY <2>2, <2>3, <2>4, Zenon DEF PortInv
<1> QED
  BY <1>4, <1>5

\* npf_nat_create: the new entry takes over the packet's reference and, with a
\* port map, a port; or it fails and the reference is dropped.
LEMMA CreateKeeps ==
  ASSUME NatInv, NEW p \in Packets, npf_nat_create(p)
  PROVE  NatInv'
<1> USE DEF NatInv, Core
<1> DEFINE q == pk[p].pol
           c == pk[p].con
<1>1. /\ pk[p].pc = "create" /\ pk[p].pc \in HoldPCs
      /\ UNCHANGED <<conn, cur, ld, alg, calls>>
  BY ZenonT(30) DEF npf_nat_create, HoldPCs
<1>2. CASE \E n \in SpareNats, port \in PortmapGet(pol[q].spec) :
             /\ Created(n, q, c, port, 4) /\ pol' = ConsumeRef(q)
             /\ Go(p, [pk[p] EXCEPT !.pc = "match", !.nt = n])
  <2>1. PICK n \in SpareNats, port \in PortmapGet(pol[q].spec) :
             /\ Created(n, q, c, port, 4) /\ pol' = ConsumeRef(q)
             /\ Go(p, [pk[p] EXCEPT !.pc = "match", !.nt = n])
    BY <1>2, Zenon
  <2> DEFINE r == [pk[p] EXCEPT !.pc = "match", !.nt = n]
  <2>2. pk'[p] = r /\ \A x \in Packets : x # p => pk'[x] = pk[x]
    BY <2>1 DEF TypeOK, Go
  <2>3. /\ n \in Nats /\ ~nat[n].live /\ \A x \in Packets : pk[x].nt # n
        /\ q \in Policies /\ c \in Conns /\ conn[c].live /\ pk[p].nt = NULL
    <3>1. PacketOK(p)
      BY Zenon DEF PacketInv
    <3>2. q # NULL /\ c # NULL /\ (c # NULL => conn[c].live) /\ pk[p].nt = NULL
      BY <1>1, <3>1 DEF PacketOK, HoldPCs
    <3>3. n \in Nats /\ ~nat[n].live /\ \A x \in Packets : pk[x].nt # n
      BY Zenon DEF SpareNats
    <3> QED
      BY <3>2, <3>3, Fields, Zenon
  <2> USE <2>3
  <2>4. /\ r.con = c /\ r.nt = n /\ r.own = pk[p].own /\ r.pol = q
        /\ r.pc = "match" /\ r \in PacketType
    <3>1. pk[p] \in PacketType
      BY DEF TypeOK
    <3> QED
      BY <3>1, Zenon DEF PacketType, PacketPCs
  <2>5. Go(p, r)
    BY <2>1
  <2> HIDE DEF r
  <2>6. /\ PortInv' /\ ports' \subseteq {0, 4} \X Ports /\ nat' \in [Nats -> NatType]
        /\ nat'[n].live /\ nat'[n].pol = q /\ nat'[n].conn = c /\ nat'[n].late = Dropped(q)
        /\ \A m \in Nats : m # n => nat'[m] = nat[m]
    BY <2>1, CreatedKeeps
  <2>7. /\ pol' \in [Policies -> PolicyType]
        /\ \A x \in Policies : pol'[x].ref = pol[x].ref /\ pol'[x].live = pol[x].live
    BY <2>1 DEF ConsumeRef, TypeOK, PolicyType
  <2>8. TypeOK'
    BY <1>1, <2>4, <2>5, <2>6, <2>7, Zenon DEF TypeOK, Go
  <2>9. conn[c].nat # n
    BY NatAssumption DEF ConnInv
  <2>10. PacketInv'
    <3>1. ASSUME NEW x \in Packets, x # p, pk[x].nt # NULL PROVE pk[x].nt # n /\ nat'[pk[x].nt] = nat[pk[x].nt]
      BY <2>6, <3>1, Fields
    <3> QED
      <4>1. PacketOK(p)
        BY DEF PacketInv
      <4>2. PacketOK(p)'
        BY <1>1, <2>2, <2>4, <2>6, <2>9, <4>1, NatAssumption, Zenon DEF PacketOK, HoldPCs, OwnPCs
      <4>3. \A x \in Packets : x # p => pk'[x] = pk[x] /\ (pk[x].nt # NULL => nat'[pk[x].nt] = nat[pk[x].nt])
        BY <2>2, <3>1, Zenon
      <4> QED
        BY <1>1, <4>2, <4>3, PacketFrame, Zenon
  <2>11. OwnerInv'
    BY <2>2, <2>4, OwnerFrame, Zenon
  <2>12. EntryInv'
    <3>1. ASSUME NEW m \in Nats, m # n PROVE pk[p].nt # m
      BY NatAssumption
    <3> QED
      <4>1. n # NULL /\ c # NULL /\ q # NULL /\ pk'[p].pc \in OwnPCs /\ pk'[p].nt = n
        BY <2>2, <2>4, NatAssumption, Zenon DEF OwnPCs
      <4>2. \A m \in Nats : (\E x \in Packets : pk[x].pc \in OwnPCs /\ pk[x].nt = m) =>
              \E x \in Packets : pk'[x].pc \in OwnPCs /\ pk'[x].nt = m
        BY <2>2, <4>1, NatAssumption, Zenon
      <4> QED
        BY <1>1, <2>6, <4>1, <4>2 DEF EntryInv
  <2>13. ConnInv'
    <3>1. \A x \in Packets : pk'[x].con = pk[x].con
      BY <2>2, <2>4, Zenon
    <3>2. \A d \in Conns : conn[d].nat # NULL => conn[d].nat \in Nats /\ conn[d].nat # n
      BY Fields DEF ConnInv
    <3> QED
      <4>1. ASSUME NEW d \in Conns, conn[d].nat # NULL
            PROVE  nat'[conn[d].nat].live /\ nat'[conn[d].nat].conn = d
        <5>1. nat'[conn[d].nat] = nat[conn[d].nat]
          BY <2>6, <3>2, <4>1, Zenon
        <5> QED
          BY <4>1, <5>1, Zenon DEF ConnInv
      <4> QED
        BY <1>1, <3>1, <4>1 DEF ConnInv
  <2>14. LoadInv'
    BY <1>1, <2>2, <2>4, Zenon DEF LoadInv
  <2>15. PolInv'
    <3>1. Uses' = Uses
      BY <1>1, <2>4, <2>5, <2>6, HoldConsumed, Zenon DEF HoldPCs
    <3> QED
      BY <2>7, <3>1, PolSame
  <2>16. DroppedDrains'
    BY <1>1, <2>6, Zenon DEF DroppedDrains, Dropped
  <2> QED
    BY <2>6, <2>8, <2>10, <2>11, <2>12, <2>13, <2>14, <2>15, <2>16
<1>3. CASE /\ pol' = Released(pol, pk[p].pol)
           /\ Go(p, [pk[p] EXCEPT !.pc = "out", !.pol = NULL, !.err = TRUE])
           /\ UNCHANGED <<nat, ports>>
  BY <1>1, <1>3, GiveUpKeeps, Zenon
<1> QED
  BY <1>2, <1>3, ZenonT(30) DEF npf_nat_create

\* An ALG that matched marks the entry, which only its packet has yet.
LEMMA SetalgKeeps ==
  ASSUME NatInv, NEW p \in Packets, npf_nat_setalg(p)
  PROVE  NatInv'
<1> USE DEF NatInv, Core
<1> DEFINE r == [pk[p] EXCEPT !.pc = "setnat"]
           n == pk[p].nt
<1>1. /\ pk[p].pc = "matched" /\ Go(p, r) /\ nat' = [nat EXCEPT ![n].alg = TRUE]
      /\ UNCHANGED <<pol, conn, ports, cur, calls>>
      /\ ld' = [ld EXCEPT !.wait = @ \ {p}] /\ alg' = [alg EXCEPT !.wait = @ \ {p}]
  BY DEF npf_nat_setalg, Exit
<1> USE <1>1
<1>2. pk'[p] = r /\ \A x \in Packets : x # p => pk'[x] = pk[x]
  BY DEF TypeOK, Go
<1>3. /\ r.con = pk[p].con /\ r.nt = pk[p].nt /\ r.own = pk[p].own /\ r.pol = pk[p].pol
      /\ r.pc = "setnat" /\ r \in PacketType
  <2>1. pk[p] \in PacketType
    BY DEF TypeOK
  <2> QED
    BY <2>1 DEF PacketType, PacketPCs
<1> HIDE DEF r
<1>4. /\ ld'.pc = ld.pc /\ ld'.old = ld.old /\ ld'.wait = ld.wait \ {p}
  BY DEF TypeOK
<1>5. n \in Nats /\ nat[n].live
  BY NatAssumption, Zenon DEF TypeOK, PacketType, PacketInv, PacketOK, OwnPCs
<1>6. \A m \in Nats : /\ nat'[m].live = nat[m].live /\ nat'[m].pol = nat[m].pol
                      /\ nat'[m].conn = nat[m].conn /\ nat'[m].port = nat[m].port
                      /\ nat'[m].alen = nat[m].alen /\ nat'[m].late = nat[m].late
                      /\ m # n => nat'[m] = nat[m]
  BY DEF TypeOK, NatType
<1>7. TypeOK'
  <2>1. /\ ld' \in [pc : {"idle", "sync", "release"}, old : SUBSET Policies, wait : SUBSET Packets]
        /\ alg' \in [reg : BOOLEAN, pc : {"idle", "sync"}, wait : SUBSET Packets]
    BY DEF TypeOK
  <2>2. nat[n] \in NatType
    BY <1>5 DEF TypeOK
  <2>3. [nat[n] EXCEPT !.alg = TRUE] \in NatType
    BY <2>2, Zenon DEF NatType
  <2>4. nat' \in [Nats -> NatType]
    BY <2>3, Zenon DEF TypeOK
  <2> QED
    BY <1>3, <2>1, <2>4 DEF TypeOK, Go
<1>8. PacketInv'
  <2>1. PacketOK(p) /\ \A x \in Packets : pk[x].nt \in Nats \cup {NULL}
    BY DEF PacketInv, TypeOK, PacketType
  <2>2. PacketOK(p)'
    BY <1>2, <1>3, <1>5, <1>6, <2>1 DEF PacketOK, HoldPCs, OwnPCs
  <2> QED
    BY <1>2, <1>6, <2>1, <2>2, PacketFrame
<1>9. OwnerInv'
  BY <1>2, <1>3 DEF OwnerInv, OwnPCs
<1>10. EntryInv'
  <2>1. pk'[p].pc \in OwnPCs /\ pk'[p].nt = pk[p].nt
    BY <1>2, <1>3 DEF OwnPCs
  <2>2. nat[n] # FreeNat
    BY <1>5 DEF FreeNat
  <2> QED
    BY <1>2, <1>6, <2>1, <2>2, EntryFrame, Zenon
<1>11. ConnInv'
  BY <1>2, <1>3, <1>6 DEF ConnInv, TypeOK, ConnType
<1>12. LoadInv'
  BY <1>2, <1>3, <1>4 DEF LoadInv
<1>13. PolInv'
  <2>1. EntriesOf' = EntriesOf
    BY <1>6 DEF EntriesOf, Entries
  <2> QED
    BY <1>3, <1>4, <2>1, HoldSame, UsesSame, PolSame DEF HoldPCs
<1>14. PortInv'
  <2>1. \A x \in ports : \E m \in Nats :
          nat'[m].live /\ nat'[m].port # 0 /\ x = <<nat'[m].alen, nat'[m].port>>
    <3> TAKE x \in ports
    <3>1. PICK m \in Nats : nat[m].live /\ nat[m].port # 0 /\ x = <<nat[m].alen, nat[m].port>>
      BY Zenon DEF PortInv
    <3> QED
      BY <1>6, <3>1, Zenon
  <2>2. \A m \in Nats : nat'[m].live /\ nat'[m].port # 0 => <<nat'[m].alen, nat'[m].port>> \in ports
    BY <1>6, Zenon DEF PortInv
  <2>3. ASSUME NEW k \in Nats, NEW m \in Nats, nat'[k].live, nat'[m].live, nat'[k].port # 0,
               nat'[k].port = nat'[m].port, nat'[k].alen = nat'[m].alen
        PROVE  k = m
    <3>1. /\ nat[k].live /\ nat[m].live /\ nat[k].port # 0
          /\ nat[k].port = nat[m].port /\ nat[k].alen = nat[m].alen
      BY <1>6, <2>3, Zenon
    <3> QED
      BY <3>1, Zenon DEF PortInv
  <2> QED
    BY <2>1, <2>2, <2>3, Zenon DEF PortInv
<1>15. DroppedDrains'
  BY <1>4, <1>6, DrainsFrame, Zenon
<1> QED
  BY <1>7, <1>8, <1>9, <1>10, <1>11, <1>12, <1>13, <1>14, <1>15

\* npf_conn_setnat gives the entry to the connection, which has none, or the
\* packet keeps it.
LEMMA SetnatKeeps ==
  ASSUME NatInv, NEW p \in Packets, NEW duplicate \in BOOLEAN, npf_conn_setnat(p, duplicate)
  PROVE  NatInv'
<1> USE DEF NatInv, Core
<1> DEFINE c == pk[p].con
           n == pk[p].nt
           ok == ~conn[c].exp /\ conn[c].nat = NULL
           r == IF ok /\ ~duplicate THEN [pk[p] EXCEPT !.pc = "exec"]
                ELSE [pk[p] EXCEPT !.pc = "destroy", !.err = TRUE]
           k == IF ok /\ ~duplicate THEN [conn[c] EXCEPT !.nat = n]
                ELSE [conn[c] EXCEPT !.exp = @ \/ ok]
<1>1. pk[p].pc = "setnat" /\ Go(p, r) /\ UNCHANGED <<pol, nat, ports, cur, ld, alg, calls>>
  BY Zenon DEF npf_conn_setnat
<1>2. conn' = [conn EXCEPT ![c] = k]
  BY Zenon DEF npf_conn_setnat
<1>3. pk'[p] = r /\ \A x \in Packets : x # p => pk'[x] = pk[x]
  BY <1>1 DEF TypeOK, Go
<1>4. /\ c \in Conns /\ conn[c].live /\ n \in Nats /\ nat[n].live /\ nat[n].conn = c
      /\ conn[c].nat # n
  BY <1>1, NatAssumption, Zenon DEF TypeOK, PacketType, PacketInv, PacketOK, OwnPCs
<1>5. /\ r.con = pk[p].con /\ r.nt = pk[p].nt /\ r.own = pk[p].own /\ r.pol = pk[p].pol
      /\ r.pc = (IF ok /\ ~duplicate THEN "exec" ELSE "destroy") /\ r \in PacketType
  <2>1. pk[p] \in PacketType
    BY DEF TypeOK
  <2> QED
    BY <2>1, Zenon DEF PacketType, PacketPCs
<1>6. /\ k.live = conn[c].live /\ k.done = conn[c].done /\ (conn[c].exp => k.exp)
      /\ k.nat = (IF ok /\ ~duplicate THEN n ELSE conn[c].nat) /\ k \in ConnType
  <2>1. conn[c] \in ConnType
    BY <1>4 DEF TypeOK
  <2> QED
    BY <1>4, <2>1, Zenon DEF ConnType
<1>7. conn'[c] = k /\ \A d \in Conns : d # c => conn'[d] = conn[d]
  BY <1>2, <1>4, Zenon DEF TypeOK
<1>8. ok => conn[c].nat = NULL
  OBVIOUS
<1> HIDE DEF r, k, ok
<1>9. TypeOK'
  BY <1>1, <1>2, <1>5, <1>6, ZenonT(30) DEF TypeOK, Go
<1>10. ASSUME NEW x \in Packets, x # p, pk[x].nt # NULL, pk[x].con = c, ok
       PROVE  pk[x].pc \in OwnPCs /\ pk[x].nt # n
  BY <1>1, <1>4, <1>8, <1>10 DEF PacketInv, PacketOK, OwnerInv, OwnPCs
<1>11. PacketInv'
  <2>1. \A d \in Conns : conn'[d].live = conn[d].live /\ (d # c \/ ~ok => conn'[d].nat = conn[d].nat)
    BY <1>6, <1>7
  <2>2. ASSUME NEW x \in Packets, x # p, pk[x].nt # NULL
        PROVE  conn'[pk[x].con].nat = pk[x].nt <=> pk[x].pc \notin OwnPCs
    <3>1. pk[x].con \in Conns /\ (conn[pk[x].con].nat = pk[x].nt <=> pk[x].pc \notin OwnPCs)
      BY <2>2, Zenon DEF PacketInv, PacketOK, TypeOK, PacketType
    <3>2. CASE pk[x].con = c /\ ok
      BY <1>4, <1>6, <1>7, <1>8, <1>10, <2>2, <3>1, <3>2, Zenon
    <3>3. CASE ~(pk[x].con = c /\ ok)
      BY <2>1, <3>1, <3>3
    <3> QED
      BY <3>2, <3>3, Zenon
  <2>3. conn'[c].nat = n <=> r.pc \notin OwnPCs
    BY <1>4, <1>5, <1>6, <1>7, Zenon DEF OwnPCs
  <2> QED
    <3>1. PacketOK(p) /\ \A x \in Packets : pk[x].con \in Conns \cup {NULL}
      BY DEF PacketInv, TypeOK, PacketType
    <3>2. PacketOK(p)'
      BY <1>1, <1>3, <1>4, <1>5, <2>1, <2>3, <3>1, Zenon DEF PacketOK, HoldPCs, OwnPCs
    <3>3. \A x \in Packets : pk[x].nt # NULL => (conn[pk[x].con].nat = pk[x].nt <=> pk[x].pc \notin OwnPCs)
      BY Zenon DEF PacketInv, PacketOK
    <3> QED
      BY <1>1, <1>3, <2>1, <2>2, <3>1, <3>2, <3>3, PacketFrame, Zenon
<1>12. OwnerInv'
  BY <1>1, <1>3, <1>5, OwnerFrame, Zenon DEF OwnPCs
<1>13. EntryInv'
  <2>1. ASSUME NEW m \in Nats, nat[m].live
        PROVE  /\ conn'[nat[m].conn].live
               /\ \/ conn'[nat[m].conn].nat = m
                  \/ \E x \in Packets : pk'[x].pc \in OwnPCs /\ pk'[x].nt = m
    <3>1. /\ nat[m].conn \in Conns /\ conn[nat[m].conn].live
          /\ \/ conn[nat[m].conn].nat = m
             \/ \E x \in Packets : pk[x].pc \in OwnPCs /\ pk[x].nt = m
      BY <2>1, Zenon DEF EntryInv, TypeOK, NatType
    <3>2. m = n => \/ conn'[nat[m].conn].nat = m
                   \/ pk'[p].pc \in OwnPCs /\ pk'[p].nt = m
      BY <1>3, <1>4, <1>5, <1>6, <1>7, Zenon DEF OwnPCs
    <3>3. m # n /\ conn[nat[m].conn].nat = m => conn'[nat[m].conn].nat = m
      BY <1>4, <1>6, <1>7, <1>8, <3>1, NatAssumption
    <3> QED
      BY <1>3, <1>6, <1>7, <3>1, <3>2, <3>3
  <2> QED
    BY <1>1, <2>1, ZenonT(30) DEF EntryInv
<1>14. ConnInv'
  <2>1. conn[c].done # "alg" /\ \A x \in Packets : pk'[x].con = pk[x].con
    BY <1>3, <1>4, <1>5, Zenon DEF ConnInv
  <2>2. /\ conn'[c].nat # NULL => nat[conn'[c].nat].live /\ nat[conn'[c].nat].conn = c
        /\ conn'[c].live /\ conn'[c].done # "alg"
    BY <1>4, <1>6, <1>7, <2>1, ZenonT(30) DEF ConnInv
  <2> QED
    BY <1>1, <1>7, <2>1, <2>2 DEF ConnInv
<1>15. LoadInv'
  BY <1>1, <1>3, <1>5, Zenon DEF LoadInv
<1>16. PolInv'
  BY <1>1, <1>5, HoldSame, NatSame, UsesSame, PolSame, Zenon DEF HoldPCs
<1>17. PortInv'
  BY <1>1, NatSame
<1>18. DroppedDrains'
  BY <1>1, <1>4, <1>6, <1>7, DrainsFrame, Zenon
<1> QED
  BY <1>9, <1>11, <1>12, <1>13, <1>14, <1>15, <1>16, <1>17, <1>18

\* npf_nat_destroy by the packet that owns the entry.
LEMMA DestroyKeeps ==
  ASSUME NatInv, NEW p \in Packets, pk[p].pc = "unlink", nat_destroy_unlink(pk[p].nt),
         Go(p, [pk[p] EXCEPT !.pc = "out", !.nt = NULL, !.pol = NULL]),
         UNCHANGED <<conn, cur, ld, alg>>
  PROVE  NatInv'
<1> USE DEF NatInv, Core
<1> DEFINE r == [pk[p] EXCEPT !.pc = "out", !.nt = NULL, !.pol = NULL]
           n == pk[p].nt
           q == nat[n].pol
<1>1. pk'[p] = r /\ \A x \in Packets : x # p => pk'[x] = pk[x]
  BY DEF TypeOK, Go
<1>2. /\ r.con = pk[p].con /\ r.nt = NULL /\ r.own = pk[p].own /\ r.pol = NULL
      /\ r.pc = "out" /\ r \in PacketType
  <2>1. pk[p] \in PacketType
    BY DEF TypeOK
  <2> QED
    BY <2>1, Zenon DEF PacketType, PacketPCs
<1>3. Go(p, r)
  OBVIOUS
<1> HIDE DEF r
<1>4. n \in Nats /\ nat[n].live /\ q \in Policies /\ n \in EntriesOf[q] /\ pol[q].live
  <2>1. n \in Nats /\ nat[n].live
    BY NatAssumption, Zenon DEF TypeOK, PacketType, PacketInv, PacketOK, OwnPCs
  <2> USE <2>1
  <2>2. q \in Policies
    BY DEF TypeOK, NatType, EntryInv
  <2>3. n \in EntriesOf[q]
    BY <2>2, Zenon DEF EntriesOf, Entries
  <2> QED
    BY <2>2, <2>3, UsedIsLive, Zenon
<1>5. /\ PortInv' /\ ports' \subseteq {0, 4} \X Ports /\ nat' \in [Nats -> NatType]
      /\ calls' \in [Nats -> Nat] /\ pol' = Released(pol, q)
      /\ nat'[n] = FreeNat /\ \A m \in Nats : m # n => nat'[m] = nat[m]
  BY <1>4, UnlinkKeeps, Zenon
<1> USE <1>5
<1>6. ~FreeNat.live
  BY DEF FreeNat
<1>7. TypeOK'
  BY <1>2, <1>3, <1>4, PolTypes, ZenonT(30) DEF TypeOK, Go
<1>8. ASSUME NEW x \in Packets, x # p PROVE pk[x].nt # n
  <2>1. pk[x].nt = n => pk[x].pc \in OwnPCs
    BY <1>4, NatAssumption DEF PacketInv, PacketOK, OwnPCs
  <2> QED
    BY <1>8, <2>1 DEF OwnerInv, OwnPCs
<1>9. PacketInv'
  <2>1. ASSUME NEW x \in Packets, x # p, pk[x].nt # NULL PROVE nat'[pk[x].nt] = nat[pk[x].nt]
    BY <1>8, <2>1, Fields
  <2>2. PacketOK(p)
    BY DEF PacketInv
  <2>3. PacketOK(p)'
    BY <1>1, <1>2, <2>2, Zenon DEF PacketOK, HoldPCs, OwnPCs
  <2>4. \A x \in Packets : x # p => pk'[x] = pk[x] /\ (pk[x].nt # NULL => nat'[pk[x].nt] = nat[pk[x].nt])
    BY <1>1, <2>1
  <2> QED
    BY <2>3, <2>4, PacketFrame, Zenon
<1>10. OwnerInv'
  BY <1>1, <1>2, OwnerFrame DEF OwnPCs
<1>11. EntryInv'
  BY <1>1, <1>2, <1>6 DEF EntryInv, OwnPCs
<1>12. ConnInv'
  <2>1. nat[n].conn = pk[p].con /\ conn[pk[p].con].nat # n
    BY <1>4, NatAssumption, Zenon DEF PacketInv, PacketOK, OwnPCs
  <2>2. ASSUME NEW c \in Conns PROVE conn[c].nat # n
    BY <1>4, <2>1, NatAssumption DEF ConnInv
  <2> QED
    BY <1>1, <1>2, <2>2, Fields DEF ConnInv
<1>13. LoadInv'
  BY <1>1, <1>2 DEF LoadInv
<1>14. PolInv'
  <2>1. HoldingOf' = HoldingOf
    BY <1>2, <1>3, HoldSame DEF HoldPCs
  <2>2. OneLess(q)
    BY <1>4, <1>6, <2>1, EntryLose, Zenon
  <2> QED
    BY <1>4, <2>2, PolDown, Zenon
<1>15. DroppedDrains'
  BY <1>6 DEF DroppedDrains, Dropped
<1> QED
  BY <1>7, <1>9, <1>10, <1>11, <1>12, <1>13, <1>14, <1>15

\* The end of npf_do_nat: the packet drops its connection, and has no reference
\* left.
LEMMA OutKeeps ==
  ASSUME NatInv, NEW p \in Packets, do_nat_out(p)
  PROVE  NatInv'
<1> USE DEF NatInv, Core
<1>1. pk[p].pc = "out" /\ Go(p, NoPacket) /\ UNCHANGED <<pol, nat, ports, cur, ld, alg, calls>>
  BY DEF do_nat_out
<1> USE <1>1
<1>2. pk'[p] = NoPacket /\ \A x \in Packets : x # p => pk'[x] = pk[x]
  BY Zenon DEF TypeOK, Go
<1>3. /\ NoPacket.pc = "idle" /\ NoPacket.con = NULL /\ NoPacket.pol = NULL /\ NoPacket.nt = NULL
      /\ ~NoPacket.own /\ NoPacket \in PacketType
  BY Zenon DEF NoPacket, PacketType, PacketPCs
<1>4. /\ conn' \in [Conns -> ConnType]
      /\ \A c \in Conns : /\ conn'[c].live = conn[c].live /\ conn'[c].nat = conn[c].nat
                          /\ conn'[c].done = conn[c].done /\ (conn[c].exp => conn'[c].exp)
                          /\ ~conn[c].live => conn'[c] = conn[c]
  <2> DEFINE c == pk[p].con
             k == [conn[c] EXCEPT !.exp = TRUE]
  <2>1. CASE pk[p].own /\ pk[p].err
    <3>1. c \in Conns /\ conn[c].live
      BY <2>1 DEF PacketInv, PacketOK, TypeOK, PacketType
    <3>2. conn[c] \in ConnType
      BY <3>1, Zenon DEF TypeOK
    <3>3. /\ k \in ConnType /\ k.live = conn[c].live /\ k.nat = conn[c].nat
          /\ k.done = conn[c].done /\ k.exp
      BY <3>2, ZenonT(30) DEF ConnType
    <3>4. conn' = [conn EXCEPT ![c] = k]
      BY <2>1 DEF do_nat_out
    <3> HIDE DEF k
    <3> QED
      BY <3>1, <3>3, <3>4, Zenon DEF TypeOK
  <2>2. CASE ~(pk[p].own /\ pk[p].err)
    BY <2>2, Zenon DEF do_nat_out, TypeOK
  <2> QED
    BY <2>1, <2>2, Zenon
<1>5. TypeOK'
  BY <1>3, <1>4, Zenon DEF TypeOK, Go
<1>6. PacketInv'
  <2>1. \A x \in Packets : /\ pk[x].con \in Conns \cup {NULL}
                           /\ pk[x].nt # NULL => pk[x].con # NULL
    BY Fields, Zenon DEF PacketInv, PacketOK
  <2>2. PacketOK(p)'
    BY <1>2, <1>3, Zenon DEF PacketOK, HoldPCs, OwnPCs
  <2>3. \A x \in Packets : /\ pk[x].con # NULL => conn'[pk[x].con].live = conn[pk[x].con].live
                           /\ pk[x].nt # NULL => conn'[pk[x].con].nat = conn[pk[x].con].nat
    BY <1>4, <2>1, Zenon
  <2> QED
    BY <1>2, <2>2, <2>3, PacketFrame, Zenon
<1>7. OwnerInv'
  BY <1>2, <1>3, OwnerFrame DEF OwnPCs
<1>8. EntryInv'
  <2>1. pk[p].pc \notin OwnPCs
    BY DEF OwnPCs
  <2> QED
    BY <1>2, <1>4, <2>1, EntryFrame, Zenon
<1>9. ConnInv'
  BY <1>2, <1>3, <1>4, NatAssumption DEF ConnInv
<1>10. LoadInv'
  BY <1>2, <1>3, Zenon DEF LoadInv
<1>11. PolInv'
  BY <1>3, HoldSame, NatSame, UsesSame, PolSame DEF HoldPCs
<1>12. PortInv'
  BY NatSame, Zenon
<1>13. DroppedDrains'
  BY <1>4, DrainsFrame, Zenon
<1> QED
  BY <1>5, <1>6, <1>7, <1>8, <1>9, <1>10, <1>11, <1>12, <1>13, Zenon
====
