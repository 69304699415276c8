----------------------------- MODULE NpfNatProofs -----------------------------
(***************************************************************************)
(* NatInv of NpfNatStepProofs is preserved by the remaining steps of       *)
(* NpfNat - sharing a policy, the worker, reloads, imports and the ALG -   *)
(* and is therefore an invariant; what it gives: the reference counts of   *)
(* the policies, the owners of the ports, and that dropped policies drain. *)
(* The second part adds, for an ALG that is unloaded while no entry is     *)
(* being destroyed, that it is detached (AlgDetached).                     *)
(***************************************************************************)
EXTENDS NpfNatStepProofs

\* npf_nat_share_policy: the reference of the first entry keeps the policy.
LEMMA ShareKeeps ==
  ASSUME NatInv, NEW p \in Packets, NEW c \in Conns, NEW ok \in BOOLEAN,
         npf_nat_share_policy(p, c, ok)
  PROVE  NatInv'
<1> USE DEF NatInv, Core
<1> DEFINE q == pk[p].pol
           r == [pk[p] EXCEPT !.pc = "out"]
<1>1. pk[p].pc = "exec" /\ Go(p, r) /\ UNCHANGED <<cur, ld, alg, calls>>
  BY DEF npf_nat_share_policy
<1>2. pk'[p] = r /\ \A x \in Packets : x # p => pk'[x] = pk[x]
  BY <1>1 DEF TypeOK, Go
<1>3. /\ r.con = pk[p].con /\ r.nt = pk[p].nt /\ r.own = pk[p].own /\ r.pol = pk[p].pol
      /\ r.pc = "out" /\ r \in PacketType
  <2>1. pk[p] \in PacketType
    BY DEF TypeOK
  <2> QED
    BY <2>1 DEF PacketType, PacketPCs
<1> HIDE DEF r
<1>4. ~conn[c].live /\ conn[c] = FreeConn /\ \A x \in Packets : pk[x].con # c
  BY DEF npf_nat_share_policy, SpareConns, ConnInv
<1>5. q \in Policies /\ pol[q].live /\ pk[p].nt # NULL
  <2>1. pk[p].nt \in Nats /\ nat[pk[p].nt].live /\ nat[pk[p].nt].pol = q
    BY <1>1 DEF PacketInv, PacketOK, TypeOK, PacketType
  <2>2. q \in Policies
    BY <2>1 DEF EntryInv, TypeOK, NatType
  <2>3. pk[p].nt \in EntriesOf[q]
    BY <2>1, <2>2 DEF EntriesOf, Entries
  <2> QED
    BY <2>1, <2>2, <2>3, UsedIsLive, NatAssumption
<1>6. HoldingOf' = HoldingOf
  BY <1>1, <1>3, HoldSame DEF HoldPCs
<1>7. OwnerInv' /\ LoadInv'
  BY <1>1, <1>2, <1>3 DEF OwnerInv, LoadInv, OwnPCs
<1>8. ASSUME NEW n \in SpareNats, NEW port \in PortmapGet(pol[q].spec), Created(n, q, c, port, 4),
             pol' = [pol EXCEPT ![q].ref = @ + 1],
             conn' = [conn EXCEPT ![c] = [FreeConn EXCEPT !.live = TRUE, !.nat = n]]
      PROVE  NatInv'
  <2> DEFINE k == [FreeConn EXCEPT !.live = TRUE, !.nat = n]
  <2>1. n \in Nats /\ ~nat[n].live /\ \A x \in Packets : pk[x].nt # n
    BY DEF SpareNats
  <2>2. k.live /\ ~k.exp /\ k.nat = n /\ k.done = "no" /\ k \in ConnType
    BY <2>1, Zenon DEF FreeConn, ConnType
  <2>3. conn'[c] = k /\ \A d \in Conns : d # c => conn'[d] = conn[d]
    BY <1>8 DEF TypeOK
  <2>4. conn' \in [Conns -> ConnType]
    BY <1>8, <2>2 DEF TypeOK
  <2> HIDE DEF k
  <2>5. /\ PortInv' /\ ports' \subseteq {0, 4} \X Ports /\ nat' \in [Nats -> NatType]
        /\ nat'[n].live /\ nat'[n].pol = q /\ nat'[n].conn = c /\ nat'[n].late = Dropped(q)
        /\ \A m \in Nats : m # n => nat'[m] = nat[m]
    BY <1>5, <1>8, <2>1, CreatedKeeps
  <2>6. TypeOK'
    BY <1>1, <1>3, <1>5, <1>8, <2>4, <2>5, PolTypes, ZenonT(30) DEF TypeOK, Go
  <2>7. PacketInv'
    <3>1. ASSUME NEW x \in Packets PROVE pk'[x].con = pk[x].con /\ pk'[x].nt = pk[x].nt
      BY <1>2, <1>3
    <3>2. ASSUME NEW x \in Packets, pk[x].nt # NULL PROVE nat'[pk[x].nt] = nat[pk[x].nt]
      BY <2>1, <2>5, <3>2 DEF TypeOK, PacketType
    <3>3. ASSUME NEW x \in Packets, pk[x].con # NULL PROVE conn'[pk[x].con] = conn[pk[x].con]
      BY <1>4, <2>3, <3>3 DEF TypeOK, PacketType
    <3> QED
      BY <1>1, <1>2, <1>3, <1>5, <3>1, <3>2, <3>3 DEF PacketInv, PacketOK, HoldPCs, OwnPCs
  <2>8. EntryInv'
    <3>1. ASSUME NEW m \in Nats, m # n, nat[m].live
          PROVE  /\ nat[m].pol # NULL /\ nat[m].conn # NULL /\ conn'[nat[m].conn].live
                 /\ \/ conn'[nat[m].conn].nat = m
                    \/ \E x \in Packets : pk'[x].pc \in OwnPCs /\ pk'[x].nt = m
      <4>1. conn'[nat[m].conn] = conn[nat[m].conn]
        BY <1>4, <2>3, <3>1, Zenon DEF EntryInv, TypeOK, NatType
      <4> QED
        BY <1>1, <1>2, <1>3, <3>1, <4>1 DEF EntryInv, OwnPCs
    <3>2. nat'[n].pol # NULL /\ nat'[n].conn # NULL /\ conn'[nat'[n].conn].live /\ conn'[nat'[n].conn].nat = n
      BY <1>5, <2>2, <2>3, <2>5, NatAssumption, Zenon
    <3> QED
      BY <2>5, <3>1, <3>2, Zenon DEF EntryInv
  <2>9. ConnInv'
    <3>1. \A x \in Packets : pk'[x].con = pk[x].con
      BY <1>2, <1>3
    <3> QED
      BY <2>1, <2>2, <2>3, <2>5, <3>1 DEF ConnInv, TypeOK, ConnType
  <2>10. PolInv'
    <3>1. OneMore(q)
      BY <1>1, <1>5, <1>6, <2>1, <2>5, EntryGain
    <3> QED
      BY <1>5, <1>8, <3>1, PolUp, Zenon
  <2>11. DroppedDrains'
    <3>1. ASSUME NEW m \in Nats, nat[m].live PROVE conn'[nat[m].conn] = conn[nat[m].conn]
      BY <1>4, <2>3, <3>1 DEF EntryInv, TypeOK, NatType
    <3> QED
      BY <1>1, <2>1, <2>5, <3>1, ZenonT(30) DEF DroppedDrains, Dropped
  <2> QED
    BY <1>7, <2>5, <2>6, <2>7, <2>8, <2>9, <2>10, <2>11
<1>9. ASSUME UNCHANGED <<pol, nat, ports>>,
             conn' = [conn EXCEPT ![c] = [FreeConn EXCEPT !.live = TRUE, !.exp = TRUE]]
      PROVE  NatInv'
  <2> DEFINE k == [FreeConn EXCEPT !.live = TRUE, !.exp = TRUE]
  <2>1. k.live /\ k.exp /\ k.nat = NULL /\ k.done = "no" /\ k \in ConnType
    BY Zenon DEF FreeConn, ConnType
  <2>2. conn'[c] = k /\ \A d \in Conns : d # c => conn'[d] = conn[d]
    BY <1>9 DEF TypeOK
  <2>3. conn' \in [Conns -> ConnType]
    BY <1>9, <2>1 DEF TypeOK
  <2> HIDE DEF k
  <2>9. UNCHANGED <<pol, nat, ports>>
    BY <1>9
  <2>4. TypeOK'
    BY <1>1, <1>3, <2>9, <2>3 DEF TypeOK, Go
  <2>5. PacketInv'
    <3>1. ASSUME NEW x \in Packets, pk[x].con # NULL PROVE conn'[pk[x].con] = conn[pk[x].con]
      BY <1>4, <2>2, <3>1, Zenon DEF TypeOK, PacketType
    <3> QED
      BY <1>1, <1>2, <1>3, <1>5, <2>9, <3>1 DEF PacketInv, PacketOK, HoldPCs, OwnPCs
  <2>6. EntryInv' /\ DroppedDrains'
    <3>1. ASSUME NEW m \in Nats, nat[m].live PROVE conn'[nat[m].conn] = conn[nat[m].conn]
      BY <1>4, <2>2, <3>1, Zenon DEF EntryInv, TypeOK, NatType
    <3>2. EntryInv'
      BY <1>1, <1>2, <1>3, <2>9, <3>1 DEF EntryInv, OwnPCs
    <3>3. DroppedDrains'
      BY <1>1, <2>9, <3>1, Zenon DEF DroppedDrains, Dropped
    <3> QED
      BY <3>2, <3>3
  <2>7. ConnInv'
    <3>1. \A x \in Packets : pk'[x].con = pk[x].con
      BY <1>2, <1>3
    <3> QED
      BY <2>9, <2>1, <2>2, <3>1 DEF ConnInv
  <2>8. PolInv' /\ PortInv'
    BY <1>1, <1>6, <2>9, NatSame, UsesSame, PolSame
  <2> QED
    BY <1>7, <2>4, <2>5, <2>6, <2>7, <2>8
<1> QED
  BY <1>8, <1>9, Zenon DEF npf_nat_share_policy

-----------------------------------------------------------------------------
(* Connections expire and are destroyed.                                   *)

\* Connections that expire, and nothing else of them.
LEMMA AgeKeeps ==
  ASSUME Core, PortInv, UNCHANGED <<nat, ports, pk>>,
         \A c \in Conns : /\ conn'[c].live = conn[c].live /\ conn'[c].nat = conn[c].nat
                          /\ conn'[c].done = conn[c].done /\ (conn[c].exp => conn'[c].exp)
                          /\ ~conn[c].live => conn'[c] = conn[c]
  PROVE  /\ PacketInv' /\ OwnerInv' /\ EntryInv' /\ ConnInv' /\ PortInv'
         /\ HoldingOf' = HoldingOf /\ EntriesOf' = EntriesOf
<1> USE DEF Core
<1>1. PacketInv' /\ OwnerInv'
  <2>1. ASSUME NEW x \in Packets, pk[x].con # NULL
        PROVE  conn'[pk[x].con].live = conn[pk[x].con].live /\ conn'[pk[x].con].nat = conn[pk[x].con].nat
    BY <2>1, Zenon DEF TypeOK, PacketType
  <2> QED
    BY <2>1 DEF PacketInv, PacketOK, OwnerInv
<1>2. EntryInv'
  <2>1. ASSUME NEW m \in Nats, nat[m].live
        PROVE  conn'[nat[m].conn].live = conn[nat[m].conn].live /\ conn'[nat[m].conn].nat = conn[nat[m].conn].nat
    BY <2>1, Zenon DEF TypeOK, NatType, EntryInv
  <2> QED
    BY <2>1, Zenon DEF EntryInv
<1>3. ConnInv'
  BY DEF ConnInv
<1>4. HoldingOf' = HoldingOf
  BY DEF HoldingOf, Holding
<1> QED
  BY <1>1, <1>2, <1>3, <1>4, NatSame, Zenon

\* A connection that is expired keeps its entry.
LEMMA ExpiredKeeps ==
  ASSUME NatInv, NEW c \in Conns, npf_conn_expired(c)
  PROVE  NatInv'
<1> USE DEF NatInv
<1> DEFINE k == [conn[c] EXCEPT !.exp = TRUE]
<1>1. /\ UNCHANGED <<pol, nat, ports, cur, ld, alg, pk, calls>> /\ conn[c].live
      /\ conn' = [conn EXCEPT ![c] = k]
  BY DEF npf_conn_expired
<1>2. k \in ConnType /\ k.live = conn[c].live /\ k.nat = conn[c].nat /\ k.done = conn[c].done /\ k.exp
  <2>1. conn[c] \in ConnType
    BY DEF Core, TypeOK
  <2> QED
    BY <2>1, Zenon DEF ConnType
<1> HIDE DEF k
<1>3. conn'[c] = k /\ \A d \in Conns : d # c => conn'[d] = conn[d]
  BY <1>1, Zenon DEF Core, TypeOK
<1>4. /\ PacketInv' /\ OwnerInv' /\ EntryInv' /\ ConnInv' /\ PortInv'
      /\ HoldingOf' = HoldingOf /\ EntriesOf' = EntriesOf
  <2>1. \A d \in Conns : /\ conn'[d].live = conn[d].live /\ conn'[d].nat = conn[d].nat
                         /\ conn'[d].done = conn[d].done /\ (conn[d].exp => conn'[d].exp)
                         /\ ~conn[d].live => conn'[d] = conn[d]
    BY <1>1, <1>2, <1>3, Zenon
  <2> QED
    BY <1>1, <2>1, AgeKeeps, Zenon
<1>5. TypeOK' /\ LoadInv'
  BY <1>1, <1>2 DEF Core, TypeOK, LoadInv
<1>6. DroppedDrains'
  BY <1>1, <1>2, <1>3 DEF Core, EntryInv, DroppedDrains, Dropped, TypeOK, NatType
<1>7. PolInv'
  BY <1>1, <1>4, UsesSame, PolSame, Zenon
<1> QED
  BY <1>4, <1>5, <1>6, <1>7 DEF Core

\* The calls of the ALG's destructor are counted by a natural number.
LEMMA CallsType ==
  ASSUME TypeOK, NEW ns, CallDestroy(ns)
  PROVE  calls' \in [Nats -> Nat]
  BY DEF TypeOK, CallDestroy

\* npf_nat_destroy by the worker.  No packet has the connection, so that no
\* other entry is one of this connection.
LEMMA ConnDestroyKeeps ==
  ASSUME NatInv, NEW c \in Conns, npf_conn_destroy(c)
  PROVE  NatInv'
<1> USE DEF NatInv, Core
<1>1. /\ conn[c].live /\ conn[c].exp /\ \A x \in Packets : pk[x].con # c
      /\ UNCHANGED <<cur, ld, alg, pk>>
  BY DEF npf_conn_destroy
<1>2. ASSUME NEW m \in Nats, nat[m].live, nat[m].conn = c PROVE conn[c].nat = m
  BY <1>1, <1>2, NatAssumption DEF EntryInv, PacketInv, PacketOK, OwnPCs
<1>3. OwnerInv' /\ LoadInv'
  BY <1>1, Zenon DEF OwnerInv, LoadInv
<1>4. HoldingOf' = HoldingOf
  BY <1>1 DEF HoldingOf, Holding
<1>5. ASSUME NEW x \in Packets, pk[x].con # NULL PROVE pk[x].con \in Conns /\ pk[x].con # c
  BY <1>1, <1>5 DEF TypeOK, PacketType
<1>6. FreeConn \in ConnType /\ ~FreeConn.live /\ FreeConn.nat = NULL /\ FreeConn.done = "no"
  BY DEF FreeConn, ConnType
<1>7. ASSUME conn[c].done = "no", conn[c].nat # NULL, nat_destroy_alg(conn[c].nat),
             conn' = [conn EXCEPT ![c].done = "alg"], UNCHANGED <<pol, nat, ports>>
      PROVE  NatInv'
  <2> DEFINE k == [conn[c] EXCEPT !.done = "alg"]
  <2>1. /\ k \in ConnType /\ k.live = conn[c].live /\ k.nat = conn[c].nat
        /\ k.done = "alg" /\ k.exp = conn[c].exp
    <3>1. conn[c] \in ConnType
      BY DEF TypeOK
    <3> QED
      BY <3>1 DEF ConnType
  <2>2. conn' = [conn EXCEPT ![c] = k] /\ UNCHANGED <<pol, nat, ports>> /\ conn[c].nat # NULL
    BY <1>7
  <2> HIDE DEF k
  <2>3. conn'[c] = k /\ \A d \in Conns : d # c => conn'[d] = conn[d]
    BY <2>2 DEF TypeOK
  <2>4. calls' \in [Nats -> Nat]
    BY <1>7, CallsType DEF nat_destroy_alg
  <2>5. TypeOK'
    BY <1>1, <2>1, <2>2, <2>4, Zenon DEF TypeOK
  <2>6. PacketInv'
    BY <1>1, <1>5, <2>2, <2>3 DEF PacketInv, PacketOK
  <2>7. EntryInv' /\ DroppedDrains'
    <3>1. ASSUME NEW m \in Nats, nat[m].live
          PROVE  /\ conn'[nat[m].conn].live = conn[nat[m].conn].live
                 /\ conn'[nat[m].conn].nat = conn[nat[m].conn].nat
                 /\ conn'[nat[m].conn].exp = conn[nat[m].conn].exp
      BY <2>1, <2>3, <3>1, Zenon DEF TypeOK, NatType, EntryInv
    <3> QED
      BY <1>1, <2>2, <3>1 DEF EntryInv, DroppedDrains, Dropped
  <2>8. ConnInv'
    <3>1. conn'[c].nat = conn[c].nat /\ conn'[c].live /\ conn'[c].exp
      BY <1>1, <2>1, <2>3, ZenonT(30)
    <3>2. nat[conn[c].nat].live /\ nat[conn[c].nat].conn = c
      BY <2>2 DEF ConnInv
    <3> QED
      BY <1>1, <2>2, <2>3, <3>1, <3>2 DEF ConnInv
  <2>9. PolInv' /\ PortInv'
    BY <1>1, <1>4, <2>2, NatSame, UsesSame, PolSame
  <2> QED
    BY <1>3, <2>5, <2>6, <2>7, <2>8, <2>9
<1>8. ASSUME conn[c].done = "alg", nat_destroy_unlink(conn[c].nat),
             conn' = [conn EXCEPT ![c] = FreeConn]
      PROVE  NatInv'
  <2> DEFINE n == conn[c].nat
             q == nat[n].pol
  <2>1. n \in Nats /\ nat[n].live /\ nat[n].conn = c /\ q \in Policies
    BY <1>8, NatAssumption DEF ConnInv, EntryInv, TypeOK, ConnType, NatType
  <2>2. pol[q].live
    <3>1. n \in EntriesOf[q]
      BY <2>1, Zenon DEF EntriesOf, Entries
    <3> QED
      BY <2>1, <3>1, UsedIsLive, Zenon
  <2>3. /\ PortInv' /\ ports' \subseteq {0, 4} \X Ports /\ nat' \in [Nats -> NatType]
        /\ calls' \in [Nats -> Nat] /\ pol' = Released(pol, q)
        /\ nat'[n] = FreeNat /\ \A m \in Nats : m # n => nat'[m] = nat[m]
    BY <1>8, <2>1, UnlinkKeeps, Zenon
  <2>4. ~FreeNat.live
    BY DEF FreeNat
  <2>5. conn'[c] = FreeConn /\ \A d \in Conns : d # c => conn'[d] = conn[d]
    BY <1>8, Zenon DEF TypeOK
  <2>6. TypeOK'
    BY <1>1, <1>6, <1>8, <2>1, <2>2, <2>3, PolTypes, ZenonT(30) DEF TypeOK
  <2>7. PacketInv'
    <3>1. ASSUME NEW x \in Packets, pk[x].nt # NULL PROVE nat'[pk[x].nt] = nat[pk[x].nt]
      BY <1>1, <2>1, <2>3, <3>1 DEF PacketInv, PacketOK, TypeOK, PacketType
    <3> QED
      BY <1>1, <1>5, <2>5, <3>1 DEF PacketInv, PacketOK
  <2>8. EntryInv' /\ DroppedDrains'
    <3>1. ASSUME NEW m \in Nats, m # n, nat[m].live PROVE conn'[nat[m].conn] = conn[nat[m].conn]
      BY <1>2, <2>5, <3>1, Zenon DEF TypeOK, NatType, EntryInv
    <3>2. EntryInv'
      BY <1>1, <2>3, <2>4, <3>1 DEF EntryInv
    <3>3. DroppedDrains'
      BY <1>1, <2>3, <2>4, <3>1, Zenon DEF DroppedDrains, Dropped
    <3> QED
      BY <3>2, <3>3
  <2>9. ConnInv'
    <3>1. ASSUME NEW d \in Conns, d # c, conn[d].nat # NULL PROVE nat'[conn[d].nat] = nat[conn[d].nat]
      BY <2>1, <2>3, <3>1 DEF ConnInv, TypeOK, ConnType
    <3> QED
      BY <1>1, <1>6, <2>5, <3>1 DEF ConnInv
  <2>10. PolInv'
    <3>1. OneLess(q)
      BY <1>1, <1>4, <2>1, <2>3, <2>4, EntryLose, Zenon
    <3> QED
      BY <2>1, <2>2, <2>3, <3>1, PolDown, Zenon
  <2> QED
    BY <1>3, <2>3, <2>6, <2>7, <2>8, <2>9, <2>10
<1>9. ASSUME conn[c].nat = NULL, conn' = [conn EXCEPT ![c] = FreeConn],
             UNCHANGED <<pol, nat, ports, calls>>
      PROVE  NatInv'
  <2>1. conn'[c] = FreeConn /\ \A d \in Conns : d # c => conn'[d] = conn[d]
    BY <1>9 DEF TypeOK
  <2>2. UNCHANGED <<pol, nat, ports, calls>>
    BY <1>9
  <2>3. TypeOK'
    BY <1>1, <1>6, <1>9, Zenon DEF TypeOK
  <2>4. PacketInv'
    BY <1>1, <1>5, <2>1, <2>2 DEF PacketInv, PacketOK
  <2>5. EntryInv' /\ DroppedDrains'
    <3>1. ASSUME NEW m \in Nats, nat[m].live PROVE conn'[nat[m].conn] = conn[nat[m].conn]
      BY <1>2, <1>9, <2>1, <3>1, NatAssumption DEF TypeOK, NatType, EntryInv
    <3>2. EntryInv'
      BY <1>1, <2>2, <3>1, Zenon DEF EntryInv
    <3>3. DroppedDrains'
      BY <1>1, <2>2, <3>1, Zenon DEF DroppedDrains, Dropped
    <3> QED
      BY <3>2, <3>3, Zenon
  <2>6. ConnInv'
    BY <1>1, <1>6, <2>1, <2>2 DEF ConnInv
  <2>7. PolInv' /\ PortInv'
    BY <1>1, <1>4, <2>2, NatSame, UsesSame, PolSame, Zenon
  <2> QED
    BY <1>3, <2>3, <2>4, <2>5, <2>6, <2>7
<1> QED
  BY <1>7, <1>8, <1>9 DEF npf_conn_destroy

-----------------------------------------------------------------------------
(* The reload.                                                             *)

\* npf_natpolicy_destroy, after the grace period, expires the connections of the
\* dropped policies' entries: no packet is between the rule and its reference.
LEMMA NatpolicyDestroyKeeps ==
  ASSUME NatInv, npf_natpolicy_destroy
  PROVE  NatInv'
<1> USE DEF NatInv
<1> DEFINE gone == UNION {Expires(q) : q \in ld.old}
<1>1. /\ ld.pc = "sync" /\ ld.wait = {} /\ UNCHANGED <<pol, nat, ports, cur, alg, pk, calls>>
      /\ conn' = [c \in Conns |-> IF c \in gone THEN [conn[c] EXCEPT !.exp = TRUE] ELSE conn[c]]
      /\ ld' = IF ld.old = {} THEN NoLoad ELSE [ld EXCEPT !.pc = "release"]
  BY DEF npf_natpolicy_destroy
<1>2. ASSUME NEW c \in gone PROVE c \in Conns /\ conn[c].live
  BY <1>2 DEF Expires, Entries, Core, EntryInv, TypeOK, NatType
<1>3. ASSUME NEW c \in Conns
      PROVE  /\ conn'[c].live = conn[c].live /\ conn'[c].nat = conn[c].nat
             /\ conn'[c].done = conn[c].done /\ (conn[c].exp => conn'[c].exp)
             /\ ~conn[c].live => conn'[c] = conn[c]
             /\ c \in gone => conn'[c].exp
             /\ conn'[c] \in ConnType
  <2>1. conn[c] \in ConnType
    BY DEF Core, TypeOK
  <2>2. conn'[c] = IF c \in gone THEN [conn[c] EXCEPT !.exp = TRUE] ELSE conn[c]
    BY <1>1
  <2> HIDE DEF gone
  <2> QED
    BY <1>2, <2>1, <2>2, Zenon DEF ConnType
<1> HIDE DEF gone
<1>4. /\ PacketInv' /\ OwnerInv' /\ EntryInv' /\ ConnInv' /\ PortInv'
      /\ HoldingOf' = HoldingOf /\ EntriesOf' = EntriesOf
  BY <1>1, <1>3, AgeKeeps
<1>5. /\ ld' \in [pc : {"idle", "sync", "release"}, old : SUBSET Policies, wait : SUBSET Packets]
      /\ ld'.old = ld.old /\ ld'.pc # "sync" /\ (ld'.pc = "idle" => ld.old = {})
  BY <1>1 DEF Core, TypeOK, NoLoad
<1>6. TypeOK'
  <2>1. conn' \in [Conns -> ConnType]
    BY <1>1, <1>3
  <2> QED
    BY <1>1, <1>5, <2>1 DEF Core, TypeOK
<1>7. LoadInv'
  BY <1>1, <1>5 DEF Core, LoadInv
<1>8. PolInv'
  BY <1>1, <1>4, <1>5, UsesSame, PolSame
<1>9. DroppedDrains'
  <2>1. ASSUME NEW n \in Nats, nat[n].live, nat[n].pol \in ld.old PROVE nat[n].conn \in gone
    <3> DEFINE q == nat[n].pol
    <3>1. q \in Policies /\ n \in EntriesOf[q] /\ n \in Entries(q)
      BY <2>1, Zenon DEF Core, TypeOK, EntriesOf, Entries
    <3>2. Cardinality(EntriesOf[q]) # 0
      BY <3>1, SetsFinite, FS_EmptySet, Zenon
    <3>3. Uses[q] = Cardinality(EntriesOf[q]) + Cardinality(HoldingOf[q]) + 1
      BY <2>1, <3>1, Zenon DEF Uses
    <3>4. pol[q].ref > 1
      BY <3>1, <3>2, <3>3, SetsFinite DEF PolInv
    <3> QED
      BY <2>1, <3>1, <3>4 DEF gone, Expires
  <2>2. ASSUME NEW n \in Nats, nat[n].live PROVE nat[n].conn \in Conns
    BY <2>2, Zenon DEF Core, EntryInv, TypeOK, NatType
  <2> QED
    BY <1>1, <1>3, <1>5, <2>1, <2>2, Zenon DEF DroppedDrains, Dropped
<1> QED
  BY <1>4, <1>6, <1>7, <1>8, <1>9 DEF Core

\* The end of npf_natpolicy_destroy drops the reference of the rule, which frees
\* the policy when no entry and no packet has one.
LEMMA ReleaseKeeps ==
  ASSUME NatInv, natpolicy_destroy_release
  PROVE  NatInv'
<1> USE DEF NatInv, Core
<1>1. PICK q \in ld.old :
        /\ pol' = Released(pol, q)
        /\ ld' = IF ld.old = {q} THEN NoLoad ELSE [ld EXCEPT !.old = @ \ {q}]
  BY ZenonT(30) DEF natpolicy_destroy_release
<1>2. ld.pc = "release" /\ UNCHANGED <<nat, conn, ports, cur, alg, pk, calls>>
  BY DEF natpolicy_destroy_release
<1>3. /\ ld' \in [pc : {"idle", "sync", "release"}, old : SUBSET Policies, wait : SUBSET Packets]
      /\ ld'.old = ld.old \ {q} /\ ld'.pc # "sync" /\ (ld'.pc = "idle" => ld'.old = {})
  BY <1>1, <1>2 DEF TypeOK, NoLoad
<1>4. q \in Policies /\ q \notin cur /\ pol[q].live
  <2>1. q \in Policies /\ q \notin cur
    BY <1>1 DEF TypeOK, LoadInv
  <2> QED
    BY <1>1, <2>1, UsedIsLive
<1>5. TypeOK'
  BY <1>1, <1>2, <1>3, <1>4, PolTypes DEF TypeOK
<1>6. PacketInv' /\ OwnerInv'
  BY <1>2, Zenon DEF PacketInv, PacketOK, OwnerInv
<1>7. EntryInv' /\ ConnInv' /\ PortInv'
  BY <1>2 DEF EntryInv, ConnInv, PortInv
<1>8. LoadInv'
  BY <1>2, <1>3, Zenon DEF LoadInv
<1>9. PolInv'
  <2>1. HoldingOf' = HoldingOf /\ EntriesOf' = EntriesOf
    BY <1>2 DEF HoldingOf, Holding, EntriesOf, Entries
  <2>2. (cur \cup ld.old)' = (cur \cup ld.old) \ {q}
    BY <1>2, <1>3, <1>4
  <2>3. Uses'[q] = Uses[q] - 1
    BY <1>1, <1>4, <2>1, <2>2, SetsFinite DEF Uses
  <2>4. \A x \in Policies : x # q => Uses'[x] = Uses[x]
    BY <2>1, <2>2 DEF Uses
  <2>5. OneLess(q)
    BY <2>3, <2>4 DEF OneLess
  <2> QED
    BY <1>1, <1>4, <2>5, PolDown
<1>10. DroppedDrains'
  BY <1>2, <1>3, Zenon DEF DroppedDrains, Dropped
<1> QED
  BY <1>5, <1>6, <1>7, <1>8, <1>9, <1>10, Zenon

\* Fresh policies become the active ones, and the old ones wait for the end of
\* the sections; what a reload and an import have in common.
LEMMA SwapKeeps ==
  ASSUME NatInv, NEW keep \in SUBSET cur, NEW F \in SUBSET SparePolicies, NEW f \in [F -> Specs],
         Swap(keep, f), ld.pc = "idle", UNCHANGED pk
  PROVE  /\ cur' \subseteq Policies /\ LoadInv' /\ Policy(f) \in [Policies -> PolicyType]
         /\ ld' \in [pc : {"idle", "sync", "release"}, old : SUBSET Policies, wait : SUBSET Packets]
         /\ ld.old = {} /\ ld'.pc = "sync" /\ (cur \cup ld.old)' = cur \cup F /\ cur \cap F = {}
         /\ F \subseteq Policies /\ F \subseteq cur'
         /\ \A x \in F : Policy(f)[x].live /\ Policy(f)[x].ref = 1 /\ Uses[x] = 0
                           /\ EntriesOf[x] = {} /\ HoldingOf[x] = {}
         /\ \A x \in Policies \ F : Policy(f)[x] = pol[x]
<1> USE DEF NatInv, Core
<1>1. DOMAIN f = F /\ F \subseteq Policies /\ \A x \in F : ~pol[x].live
  BY Zenon DEF SparePolicies
<1>2. cur' = keep \cup F /\ ld' = [pc |-> "sync", old |-> cur \ keep, wait |-> Sections]
  BY <1>1 DEF Swap, OldPolicies
<1>3. \A x \in F : Uses[x] = 0 /\ EntriesOf[x] = {} /\ HoldingOf[x] = {} /\ x \notin cur
  BY <1>1, FreeIsUnused, Zenon
<1>4. ld.old = {} /\ cur \cap F = {} /\ (cur \cup ld.old)' = cur \cup F
  BY <1>2, <1>3, Zenon DEF LoadInv
<1>5. /\ cur' \subseteq Policies /\ F \subseteq cur' /\ ld'.pc = "sync"
      /\ ld' \in [pc : {"idle", "sync", "release"}, old : SUBSET Policies, wait : SUBSET Packets]
  BY <1>1, <1>2, Zenon DEF TypeOK, Sections
<1>6. LoadInv'
  BY <1>2, <1>4, Zenon DEF LoadInv, Sections, InCrit
<1>7. \A x \in F : NewPolicy(f[x]) \in PolicyType /\ NewPolicy(f[x]).live /\ NewPolicy(f[x]).ref = 1
  BY Zenon DEF NewPolicy, PolicyType
<1>8. /\ Policy(f) \in [Policies -> PolicyType]
      /\ \A x \in F : Policy(f)[x] = NewPolicy(f[x])
      /\ \A x \in Policies \ F : Policy(f)[x] = pol[x]
  BY <1>1, <1>7, Zenon DEF Policy, TypeOK
<1> QED
  BY <1>1, <1>3, <1>4, <1>5, <1>6, <1>7, <1>8

\* npf_ruleset_reload keeps the policies that are unchanged; a fresh one has no
\* entry and no packet, so that its rule's reference is the only one.
LEMMA ReloadKeeps ==
  ASSUME NatInv, NEW want, npf_ruleset_reload(want)
  PROVE  NatInv'
<1> USE DEF NatInv, Core
<1>1. PICK keep \in SUBSET cur, F \in SUBSET SparePolicies :
        \E f \in [F -> Specs] : Swap(keep, f) /\ pol' = Policy(f)
  BY Zenon DEF npf_ruleset_reload
<1>2. PICK f \in [F -> Specs] : Swap(keep, f) /\ pol' = Policy(f)
  BY <1>1
<1>3. ld.pc = "idle" /\ UNCHANGED <<nat, conn, ports, alg, pk, calls>>
  BY Zenon DEF npf_ruleset_reload
<1>4. /\ cur' \subseteq Policies /\ LoadInv' /\ pol' \in [Policies -> PolicyType]
      /\ ld' \in [pc : {"idle", "sync", "release"}, old : SUBSET Policies, wait : SUBSET Packets]
      /\ ld.old = {} /\ ld'.pc = "sync" /\ (cur \cup ld.old)' = cur \cup F /\ cur \cap F = {}
      /\ \A x \in F : pol'[x].live /\ pol'[x].ref = 1 /\ EntriesOf[x] = {} /\ HoldingOf[x] = {}
      /\ \A x \in Policies \ F : pol'[x] = pol[x]
  <2>1. /\ cur' \subseteq Policies /\ LoadInv' /\ Policy(f) \in [Policies -> PolicyType]
        /\ ld' \in [pc : {"idle", "sync", "release"}, old : SUBSET Policies, wait : SUBSET Packets]
        /\ ld.old = {} /\ ld'.pc = "sync" /\ (cur \cup ld.old)' = cur \cup F /\ cur \cap F = {}
        /\ \A x \in F : /\ Policy(f)[x].live /\ Policy(f)[x].ref = 1
                        /\ EntriesOf[x] = {} /\ HoldingOf[x] = {}
        /\ \A x \in Policies \ F : Policy(f)[x] = pol[x]
    BY <1>2, <1>3, SwapKeeps, ZenonT(30)
  <2> QED
    BY <1>2, <2>1, Zenon
<1>5. TypeOK'
  BY <1>3, <1>4 DEF TypeOK
<1>6. PacketInv' /\ OwnerInv'
  BY <1>3, Zenon DEF PacketInv, PacketOK, OwnerInv
<1>7. EntryInv' /\ ConnInv' /\ PortInv'
  <2>1. EntryInv'
    BY <1>3, Zenon DEF EntryInv
  <2>2. ConnInv'
    BY <1>3, Zenon DEF ConnInv
  <2> QED
    BY <1>3, <2>1, <2>2, NatSame, Zenon
<1>8. PolInv'
  <2>1. HoldingOf' = HoldingOf /\ EntriesOf' = EntriesOf
    BY <1>3, Zenon DEF HoldingOf, Holding, EntriesOf, Entries
  <2>2. ASSUME NEW x \in Policies, x \in F PROVE Uses'[x] = 1
    <3>1. EntriesOf'[x] = {} /\ HoldingOf'[x] = {} /\ x \in (cur \cup ld.old)'
      BY <1>4, <2>1, <2>2, Zenon
    <3>2. Cardinality({}) = 0
      BY FS_EmptySet
    <3> QED
      BY <3>1, <3>2 DEF Uses
  <2>3. ASSUME NEW x \in Policies, x \notin F PROVE Uses'[x] = Uses[x]
    BY <1>4, <2>1, <2>3, Zenon DEF Uses
  <2> QED
    BY <1>4, <2>2, <2>3 DEF PolInv
<1>9. DroppedDrains'
  BY <1>3, <1>4, Zenon DEF DroppedDrains, Dropped
<1> QED
  BY <1>4, <1>5, <1>6, <1>7, <1>8, <1>9, Zenon

\* npf_nat_import: there is no connection, hence no entry; the policy it names
\* has the reference of its rule and that of the entry.
LEMMA ImportKeeps ==
  ASSUME NatInv, NEW want, NEW c \in SpareConns, NEW n \in SpareNats, NEW port \in Ports,
         npf_nat_import(want, c, n, port)
  PROVE  NatInv'
<1> USE DEF NatInv, Core
<1> DEFINE k == [FreeConn EXCEPT !.live = TRUE, !.nat = n]
           e(q) == [FreeNat EXCEPT !.live = TRUE, !.pol = q, !.conn = c, !.port = port]
<1>1. PICK F \in SUBSET SparePolicies : \E f \in [F -> Specs] : \E q \in F :
        Swap({}, f) /\ pol' = [Policy(f) EXCEPT ![q].ref = 2] /\ nat' = [nat EXCEPT ![n] = e(q)]
  BY ZenonT(30) DEF npf_nat_import
<1>2. PICK f \in [F -> Specs], q \in F :
        Swap({}, f) /\ pol' = [Policy(f) EXCEPT ![q].ref = 2] /\ nat' = [nat EXCEPT ![n] = e(q)]
  BY <1>1, Zenon
<1>3. /\ ld.pc = "idle" /\ (\A d \in Conns : ~conn[d].live) /\ <<0, port>> \notin ports
      /\ conn' = [conn EXCEPT ![c] = k] /\ ports' = ports \cup {<<0, port>>}
      /\ UNCHANGED <<alg, pk, calls>>
  BY DEF npf_nat_import
<1>4. c \in Conns /\ n \in Nats
  BY DEF SpareConns, SpareNats
<1>5. /\ cur' \subseteq Policies /\ LoadInv' /\ Policy(f) \in [Policies -> PolicyType]
      /\ ld' \in [pc : {"idle", "sync", "release"}, old : SUBSET Policies, wait : SUBSET Packets]
      /\ (cur \cup ld.old)' = cur \cup F /\ ld.old = {} /\ F \subseteq Policies /\ F \subseteq cur'
      /\ \A x \in F : /\ Policy(f)[x].live /\ Policy(f)[x].ref = 1 /\ Uses[x] = 0
                      /\ EntriesOf[x] = {} /\ HoldingOf[x] = {}
      /\ \A x \in Policies \ F : Policy(f)[x] = pol[x]
  <2>1. PICK keep \in SUBSET cur : Swap(keep, f)
    BY <1>2
  <2>3. ld.pc = "idle" /\ UNCHANGED pk
    BY <1>3
  <2>2. /\ cur' \subseteq Policies /\ LoadInv' /\ Policy(f) \in [Policies -> PolicyType]
        /\ ld' \in [pc : {"idle", "sync", "release"}, old : SUBSET Policies, wait : SUBSET Packets]
        /\ ld.old = {} /\ ld'.pc = "sync" /\ (cur \cup ld.old)' = cur \cup F /\ cur \cap F = {}
        /\ F \subseteq Policies /\ F \subseteq cur'
        /\ \A x \in F : Policy(f)[x].live /\ Policy(f)[x].ref = 1 /\ Uses[x] = 0
                          /\ EntriesOf[x] = {} /\ HoldingOf[x] = {}
        /\ \A x \in Policies \ F : Policy(f)[x] = pol[x]
    BY <2>1, <2>3, SwapKeeps, ZenonT(30)
  <2> QED
    BY <2>2, Zenon
<1>6. /\ k \in ConnType /\ k.live /\ k.nat = n /\ k.done = "no"
      /\ e(q) \in NatType /\ e(q).live /\ e(q).pol = q /\ e(q).conn = c /\ e(q).port = port /\ e(q).alen = 0
  BY <1>4, <1>5, Zenon DEF FreeConn, FreeNat, ConnType, NatType
<1>7. \A m \in Nats : ~nat[m].live
  BY <1>3 DEF EntryInv, TypeOK, NatType
<1>8. \A x \in Packets : pk[x].con = NULL /\ pk[x].nt = NULL
  BY <1>3, Zenon DEF PacketInv, PacketOK, TypeOK, PacketType
<1>9. /\ nat'[n] = e(q) /\ \A m \in Nats : m # n => nat'[m] = nat[m]
      /\ conn'[c] = k /\ \A d \in Conns : d # c => conn'[d] = conn[d]
  BY <1>2, <1>3, <1>4 DEF TypeOK
<1>10. nat' \in [Nats -> NatType] /\ conn' \in [Conns -> ConnType]
  BY <1>2, <1>3, <1>6, Zenon DEF TypeOK
<1> HIDE DEF k, e
<1>11. /\ pol' \in [Policies -> PolicyType] /\ pol'[q].ref = 2 /\ pol'[q].live
       /\ \A x \in Policies : x # q => pol'[x] = Policy(f)[x]
  <2>1. Policy(f)[q] \in PolicyType
    BY <1>5, Zenon
  <2>2. [Policy(f)[q] EXCEPT !.ref = 2] \in PolicyType
    BY <2>1 DEF PolicyType
  <2>3. pol' = [Policy(f) EXCEPT ![q] = [Policy(f)[q] EXCEPT !.ref = 2]]
    BY <1>2
  <2>4. [Policy(f)[q] EXCEPT !.ref = 2].ref = 2 /\ [Policy(f)[q] EXCEPT !.ref = 2].live
    BY <1>5, <2>1 DEF PolicyType
  <2>5. q \in Policies
    BY <1>5, Zenon
  <2> QED
    BY <1>5, <2>2, <2>3, <2>4, <2>5
<1>12. TypeOK'
  BY <1>3, <1>5, <1>10, <1>11 DEF TypeOK
<1>13. PacketInv' /\ OwnerInv'
  BY <1>3, <1>8, ZenonT(30) DEF PacketInv, PacketOK, OwnerInv
<1>14. EntryInv'
  <2>1. q # NULL /\ c # NULL
    BY <1>4, <1>5, NatAssumption, Zenon
  <2> QED
    BY <1>6, <1>7, <1>9, <2>1 DEF EntryInv
<1>15. ConnInv'
  <2>1. \A d \in Conns : d # c => conn[d].nat = NULL /\ conn[d].done = "no" /\ conn[d] = FreeConn
    <3>1. FreeConn.nat = NULL /\ FreeConn.done = "no"
      BY Zenon DEF FreeConn
    <3> QED
      BY <1>3, <3>1, Zenon DEF ConnInv
  <2>2. ASSUME NEW d \in Conns, d # c PROVE conn'[d].nat = NULL /\ conn'[d].done = "no" /\ conn'[d] = FreeConn
    BY <1>9, <2>1, <2>2, Zenon
  <2>3. conn'[c].nat = n /\ conn'[c].live /\ conn'[c].done = "no" /\ nat'[n].live /\ nat'[n].conn = c
    BY <1>6, <1>9, Zenon
  <2>4. "no" # "alg"
    OBVIOUS
  <2> QED
    BY <2>2, <2>3, <2>4, Zenon DEF ConnInv
<1>16. PortInv'
  <2>1. ports = {}
    BY <1>7, Zenon DEF PortInv
  <2>2. port # 0
    BY NatAssumption, Zenon
  <2> QED
    <3>1. ports' = {<<nat'[n].alen, nat'[n].port>>} /\ nat'[n].live /\ nat'[n].port # 0
      BY <1>3, <1>6, <1>9, <2>1, <2>2, Zenon
    <3>2. \A m \in Nats : nat'[m].live => m = n
      BY <1>7, <1>9, Zenon
    <3> QED
      BY <1>4, <3>1, <3>2, Zenon DEF PortInv
<1>17. PolInv'
  <2>1. HoldingOf' = HoldingOf
    BY <1>3, Zenon DEF HoldingOf, Holding
  <2>2. EntriesOf'[q] = {n} /\ \A x \in Policies : x # q => EntriesOf'[x] = EntriesOf[x]
    BY <1>4, <1>5, <1>6, <1>7, <1>9 DEF EntriesOf, Entries
  <2>3. Cardinality({n}) = 1 /\ Cardinality({}) = 0
    BY FS_Singleton, FS_EmptySet, Zenon
  <2>4. q \in Policies /\ HoldingOf[q] = {} /\ q \in (cur \cup ld.old)'
    BY <1>5
  <2>5. Uses'[q] = 2
    BY <2>1, <2>2, <2>3, <2>4 DEF Uses
  <2>6. ASSUME NEW x \in Policies, x \in F, x # q PROVE Uses'[x] = 1
    <3>1. EntriesOf'[x] = {} /\ HoldingOf'[x] = {} /\ x \in (cur \cup ld.old)'
      BY <1>5, <2>1, <2>2, <2>6, Zenon
    <3> QED
      BY <2>3, <3>1 DEF Uses
  <2>7. ASSUME NEW x \in Policies, x \notin F PROVE Uses'[x] = Uses[x]
    <3>1. EntriesOf'[x] = EntriesOf[x] /\ HoldingOf'[x] = HoldingOf[x]
      BY <2>1, <2>2, <2>7, Zenon
    <3>2. x \in (cur \cup ld.old)' <=> x \in cur \cup ld.old
      BY <1>5, <2>7, Zenon
    <3> QED
      BY <3>1, <3>2, Zenon DEF Uses
  <2> QED
    BY <1>5, <1>11, <2>5, <2>6, <2>7 DEF PolInv
<1>18. DroppedDrains'
  BY <1>5, <1>6, <1>7, <1>9 DEF DroppedDrains, Dropped
<1> QED
  BY <1>5, <1>12, <1>13, <1>14, <1>15, <1>16, <1>17, <1>18, Zenon

-----------------------------------------------------------------------------
(* The ALG.                                                                *)

\* Loading and unregistering an ALG touches no entry.
LEMMA AlgKeeps ==
  ASSUME NatInv, npf_alg_register \/ npf_alg_unregister
  PROVE  NatInv'
<1> USE DEF NatInv, Core
<1>1. UNCHANGED <<pol, nat, conn, ports, cur, ld, pk, calls>>
  BY DEF npf_alg_register, npf_alg_unregister
<1>2. alg' \in [reg : BOOLEAN, pc : {"idle", "sync"}, wait : SUBSET Packets]
  <2>1. alg \in [reg : BOOLEAN, pc : {"idle", "sync"}, wait : SUBSET Packets]
    BY DEF TypeOK
  <2>2. CASE npf_alg_register
    BY <2>1, <2>2, ZenonT(30) DEF npf_alg_register
  <2>3. CASE npf_alg_unregister
    BY <2>3 DEF npf_alg_unregister, SyncWith, Sections
  <2> QED
    BY <2>2, <2>3
<1>3. TypeOK'
  BY <1>1, <1>2, Zenon DEF TypeOK
<1>4. PacketInv' /\ OwnerInv' /\ LoadInv'
  BY <1>1, Zenon DEF PacketInv, PacketOK, OwnerInv, LoadInv
<1>5. EntryInv' /\ ConnInv' /\ DroppedDrains'
  BY <1>1, Zenon DEF EntryInv, ConnInv, DroppedDrains, Dropped
<1>6. PolInv' /\ PortInv'
  <2>1. HoldingOf' = HoldingOf
    BY <1>1, Zenon DEF HoldingOf, Holding
  <2> QED
    BY <1>1, <2>1, NatSame, UsesSame, PolSame, Zenon
<1> QED
  BY <1>3, <1>4, <1>5, <1>6, Zenon

\* npf_ruleset_freealg takes the ALG from the entries of the active policies,
\* and nothing else.
LEMMA FreealgKeeps ==
  ASSUME NatInv, npf_ruleset_freealg
  PROVE  NatInv'
<1> USE DEF NatInv, Core
<1> DEFINE mine == {n \in UNION {Entries(q) : q \in cur} : nat[n].alg}
<1>1. /\ UNCHANGED <<pol, conn, ports, cur, ld, pk>> /\ alg' = [alg EXCEPT !.pc = "idle"]
      /\ nat' = [n \in Nats |-> IF n \in mine THEN Freed(n) ELSE nat[n]] /\ CallDestroy(mine)
  BY DEF npf_ruleset_freealg
<1>2. \A n \in mine : nat[n].live
  BY DEF Entries
<1>3. ASSUME NEW m \in Nats
      PROVE  /\ nat'[m].live = nat[m].live /\ nat'[m].pol = nat[m].pol
             /\ nat'[m].conn = nat[m].conn /\ nat'[m].port = nat[m].port
             /\ nat'[m].alen = nat[m].alen /\ nat'[m].late = nat[m].late
             /\ ~nat[m].live => nat'[m] = nat[m]
             /\ nat'[m] \in NatType
  <2>1. nat[m] \in NatType
    BY DEF TypeOK
  <2>2. nat'[m] = IF m \in mine THEN Freed(m) ELSE nat[m]
    BY <1>1
  <2> HIDE DEF mine
  <2> QED
    BY <1>2, <2>1, <2>2, ZenonT(30) DEF NatType, Freed
<1>4. calls' \in [Nats -> Nat]
  BY <1>1, CallsType
<1> HIDE DEF mine
<1>5. TypeOK'
  <2>1. nat' \in [Nats -> NatType]
    BY <1>1, <1>3
  <2>2. alg' \in [reg : BOOLEAN, pc : {"idle", "sync"}, wait : SUBSET Packets]
    BY <1>1 DEF TypeOK
  <2> QED
    BY <1>1, <1>4, <2>1, <2>2 DEF TypeOK
<1>6. PacketInv' /\ OwnerInv' /\ LoadInv'
  <2>1. PacketInv'
    BY <1>1, <1>3 DEF PacketInv, PacketOK, TypeOK, PacketType
  <2> QED
    BY <1>1, <2>1 DEF OwnerInv, LoadInv
<1>7. EntryInv' /\ DroppedDrains'
  BY <1>1, <1>3 DEF EntryInv, DroppedDrains, Dropped
<1>8. ConnInv'
  BY <1>1, <1>3 DEF ConnInv, TypeOK, ConnType
<1>9. PolInv'
  <2>1. HoldingOf' = HoldingOf /\ EntriesOf' = EntriesOf
    BY <1>1, <1>3 DEF HoldingOf, Holding, EntriesOf, Entries
  <2> QED
    BY <1>1, <2>1, UsesSame, PolSame
<1>10. PortInv'
  BY <1>1, <1>3 DEF PortInv
<1> QED
  BY <1>5, <1>6, <1>7, <1>8, <1>9, <1>10

-----------------------------------------------------------------------------
(* The theorems.                                                           *)

\* The invariant holds when the instance is created.
LEMMA InitNat == Init => NatInv
<1> SUFFICES ASSUME Init PROVE NatInv
  OBVIOUS
<1>1. /\ FreePolicy \in PolicyType /\ ~FreePolicy.live /\ FreePolicy.ref = 0
      /\ FreeNat \in NatType /\ ~FreeNat.live
      /\ FreeConn \in ConnType /\ ~FreeConn.live /\ FreeConn.nat = NULL /\ FreeConn.done = "no"
      /\ NoPacket \in PacketType /\ NoPacket.pc = "idle" /\ NoPacket.con = NULL /\ NoPacket.pol = NULL
      /\ NoPacket.nt = NULL /\ ~NoPacket.own
      /\ NoLoad.pc = "idle" /\ NoLoad.old = {}
      /\ NoLoad \in [pc : {"idle", "sync", "release"}, old : SUBSET Policies, wait : SUBSET Packets]
  BY Zenon DEF FreePolicy, PolicyType, FreeNat, NatType, FreeConn, ConnType, NoPacket, PacketType, PacketPCs, NoLoad
<1>2. TypeOK
  BY <1>1, ZenonT(30) DEF Init, TypeOK
<1>3. PacketInv /\ OwnerInv /\ EntryInv /\ ConnInv /\ LoadInv
  BY <1>1, ZenonT(30) DEF Init, PacketInv, PacketOK, OwnerInv, EntryInv, ConnInv, LoadInv, HoldPCs, OwnPCs
<1>4. PolInv
  <2>1. ASSUME NEW q \in Policies PROVE Uses[q] = 0
    <3>1. EntriesOf[q] = {} /\ HoldingOf[q] = {} /\ q \notin cur \cup ld.old
      BY <1>1, Zenon DEF Init, EntriesOf, Entries, HoldingOf, Holding
    <3>2. Cardinality({}) = 0
      BY FS_EmptySet
    <3> QED
      BY <3>1, <3>2 DEF Uses
  <2> QED
    BY <1>1, <2>1 DEF PolInv, Init
<1>5. PortInv /\ DroppedDrains
  BY <1>1, Zenon DEF Init, PortInv, DroppedDrains
<1> QED
  BY <1>2, <1>3, <1>4, <1>5 DEF NatInv, Core

\* Every step of a packet in npf_do_nat keeps the invariant.
LEMMA PacketKeeps ==
  ASSUME NatInv, NEW p \in Packets, Packet(p)
  PROVE  NatInv'
<1>t. pk[p].err \in BOOLEAN /\ pk[p].own \in BOOLEAN /\ pk[p] \in PacketType
  BY Zenon DEF NatInv, Core, TypeOK, PacketType
<1>1. CASE npf_nat_inspect(p)
  BY <1>1, InspectKeeps
<1>2. CASE nat_inspect_ref(p)
  BY <1>2, InspectRefKeeps
<1>3. CASE npf_snat_translate(p)
  <2>1. [pk[p] EXCEPT !.pc = "out", !.pol = NULL]
          = [pk[p] EXCEPT !.pc = "out", !.pol = NULL, !.err = pk[p].err]
    BY <1>t, Zenon DEF PacketType
  <2>2. pk[p].pc \in HoldPCs
    BY <1>3 DEF npf_snat_translate, HoldPCs
  <2> QED
    BY <1>3, <1>t, <2>1, <2>2, GiveUpKeeps, Zenon DEF npf_snat_translate
<1>4. CASE npf_conn_establish(p)
  BY <1>4, EstablishKeeps, Zenon
<1>5. CASE npf_nat_create(p)
  BY <1>5, CreateKeeps
<1>6. ASSUME NEW takes \in BOOLEAN, npf_alg_match(p, takes) PROVE NatInv'
  <2> DEFINE r == [pk[p] EXCEPT !.pc = IF takes THEN "matched" ELSE "setnat"]
  <2>1. /\ r \in PacketType /\ r.con = pk[p].con /\ r.nt = pk[p].nt /\ r.own = pk[p].own
        /\ r.pol = pk[p].pol /\ r.pc \in OwnPCs
    BY <1>t DEF PacketType, PacketPCs, OwnPCs
  <2>2. /\ Go(p, r) /\ pk[p].pc \in OwnPCs
        /\ UNCHANGED <<pol, nat, conn, ports, cur, ld, alg, calls>>
    BY <1>6 DEF npf_alg_match, OwnPCs
  <2>3. calls' \in [Nats -> Nat]
    BY <2>2 DEF NatInv, Core, TypeOK
  <2>4. (pk[p].pc \in OwnPCs /\ r.pc \in OwnPCs) \/ (pk[p].pc = "exec" /\ r.pc = "out")
    BY <2>1, <2>2
  <2> HIDE DEF r
  <2> QED
    BY <2>1, <2>2, <2>3, <2>4, MoveKeeps
<1>7. CASE npf_nat_setalg(p)
  BY <1>7, SetalgKeeps
<1>8. ASSUME NEW duplicate \in BOOLEAN, npf_conn_setnat(p, duplicate) PROVE NatInv'
  BY <1>8, SetnatKeeps
<1>9. CASE npf_nat_destroy(p)
  <2>1. ASSUME pk[p].pc = "destroy", nat_destroy_alg(pk[p].nt), Go(p, [pk[p] EXCEPT !.pc = "unlink"]),
               UNCHANGED <<pol, nat, conn, ports, cur, ld, alg>>
        PROVE  NatInv'
    <3> DEFINE r == [pk[p] EXCEPT !.pc = "unlink"]
    <3>1. /\ r \in PacketType /\ r.con = pk[p].con /\ r.nt = pk[p].nt /\ r.own = pk[p].own
          /\ r.pol = pk[p].pol /\ r.pc \in OwnPCs
      BY <1>t DEF PacketType, PacketPCs, OwnPCs
    <3>2. calls' \in [Nats -> Nat]
      BY <2>1, CallsType DEF nat_destroy_alg, NatInv, Core
    <3>3. Go(p, r) /\ pk[p].pc \in OwnPCs /\ UNCHANGED <<pol, nat, conn, ports, cur, ld, alg>>
      BY <2>1 DEF OwnPCs
    <3>4. (pk[p].pc \in OwnPCs /\ r.pc \in OwnPCs) \/ (pk[p].pc = "exec" /\ r.pc = "out")
      BY <3>1, <3>3
    <3> HIDE DEF r
    <3> QED
      BY <3>1, <3>2, <3>3, <3>4, MoveKeeps
  <2> QED
    BY <1>9, <2>1, DestroyKeeps, ZenonT(30) DEF npf_nat_destroy
<1>10. CASE npf_dnat_translate(p)
  <2>1. PICK err \in BOOLEAN : Go(p, [pk[p] EXCEPT !.pc = "out", !.err = err /\ pk[p].own])
    BY <1>10, Zenon DEF npf_dnat_translate
  <2> DEFINE r == [pk[p] EXCEPT !.pc = "out", !.err = err /\ pk[p].own]
  <2>2. /\ r \in PacketType /\ r.con = pk[p].con /\ r.nt = pk[p].nt /\ r.own = pk[p].own
        /\ r.pol = pk[p].pol /\ r.pc = "out" /\ Go(p, r)
    BY <1>t, <2>1, Zenon DEF PacketType, PacketPCs
  <2>3. pk[p].pc = "exec" /\ UNCHANGED <<pol, nat, conn, ports, cur, ld, alg, calls>>
    BY <1>10 DEF npf_dnat_translate
  <2>4. calls' \in [Nats -> Nat]
    BY <2>3, Zenon DEF NatInv, Core, TypeOK
  <2> HIDE DEF r
  <2> QED
    BY <2>2, <2>3, <2>4, MoveKeeps, Zenon
<1>11. ASSUME NEW c \in Conns, NEW ok \in BOOLEAN, npf_nat_share_policy(p, c, ok) PROVE NatInv'
  BY <1>11, ShareKeeps
<1>12. CASE do_nat_out(p)
  BY <1>12, OutKeeps, Zenon
<1> QED
  BY <1>1, <1>2, <1>3, <1>4, <1>5, <1>6, <1>7, <1>8, <1>9, <1>10, <1>11, <1>12 DEF Packet

\* Every step keeps the invariant.
LEMMA NextKeeps ==
  ASSUME NatInv, [Next]_vars
  PROVE  NatInv'
<1>1. ASSUME NEW p \in Packets, Packet(p) PROVE NatInv'
  BY <1>1, PacketKeeps
<1>2. ASSUME NEW p \in Packets, NEW c \in Conns \cup {NULL}, NEW same \in BOOLEAN,
             npf_nat_lookup(p, c, same)
      PROVE  NatInv'
  BY <1>2, LookupKeeps
<1>3. ASSUME NEW c \in Conns, npf_conn_expired(c) \/ npf_conn_destroy(c) PROVE NatInv'
  BY <1>3, ExpiredKeeps, ConnDestroyKeeps
<1>4. ASSUME NEW want \in Wanted, npf_ruleset_reload(want) PROVE NatInv'
  BY <1>4, ReloadKeeps
<1>5. ASSUME NEW want \in Wanted, NEW c \in SpareConns, NEW n \in SpareNats, NEW port \in Ports,
             npf_nat_import(want, c, n, port)
      PROVE  NatInv'
  BY <1>5, ImportKeeps
<1>6. CASE npf_natpolicy_destroy
  BY <1>6, NatpolicyDestroyKeeps
<1>7. CASE natpolicy_destroy_release
  BY <1>7, ReleaseKeeps
<1>8. CASE npf_alg_register \/ npf_alg_unregister
  BY <1>8, AlgKeeps
<1>9. CASE npf_ruleset_freealg
  BY <1>9, FreealgKeeps
<1>10. CASE UNCHANGED vars
  <2>1. UNCHANGED <<pol, nat, conn, ports, cur, ld, alg, pk, calls>>
    BY <1>10 DEF vars
  <2>2. TypeOK' /\ PacketInv' /\ OwnerInv' /\ EntryInv' /\ ConnInv' /\ LoadInv'
    <3>1. TypeOK'
      BY <2>1, Zenon DEF NatInv, Core, TypeOK
    <3>2. PacketInv' /\ OwnerInv'
      BY <2>1, Zenon DEF NatInv, Core, PacketInv, PacketOK, OwnerInv
    <3>3. EntryInv' /\ ConnInv'
      BY <2>1, Zenon DEF NatInv, Core, EntryInv, ConnInv
    <3>4. LoadInv'
      BY <2>1, Zenon DEF NatInv, Core, LoadInv
    <3> QED
      BY <3>1, <3>2, <3>3, <3>4, Zenon
  <2>3. HoldingOf' = HoldingOf /\ EntriesOf' = EntriesOf
    BY <2>1, Zenon DEF HoldingOf, Holding, EntriesOf, Entries
  <2>4. PolInv' /\ PortInv' /\ DroppedDrains'
    BY <2>1, <2>3, NatSame, UsesSame, PolSame, DrainsSame, Zenon DEF NatInv
  <2> QED
    BY <2>2, <2>4 DEF NatInv, Core
<1> QED
  BY <1>1, <1>2, <1>3, <1>4, <1>5, <1>6, <1>7, <1>8, <1>9, <1>10 DEF Next

\* The inductive invariant.
THEOREM NatInvariant == Spec => []NatInv
  BY InitNat, NextKeeps, PTL DEF Spec

\* n_refcnt is what npf_natpolicy_release needs it to be, for every number of
\* policies, entries, connections and packets: the rule of a policy, the
\* entries made from it and the packets that hold it are all counted, the
\* policy is freed with the last one, and nobody is left with freed memory.
THEOREM PoliciesCounted == Spec => []PolicyRefs
<1>1. NatInv => PolicyRefs
  <2> SUFFICES ASSUME NatInv PROVE PolicyRefs
    OBVIOUS
  <2> USE DEF NatInv, Core
  <2>1. ASSUME NEW q \in Policies, pol[q].live
        PROVE  pol[q].ref = Cardinality(Entries(q)) + Cardinality(Holding(q))
                              + (IF q \in cur \cup ld.old THEN 1 ELSE 0)
    BY <2>1, Zenon DEF PolInv, Uses, EntriesOf, HoldingOf
  <2>2. \A q \in cur \cup ld.old : pol[q].live
    BY UsedIsLive, Zenon DEF TypeOK
  <2>3. ASSUME NEW n \in Nats, nat[n].live PROVE pol[nat[n].pol].live /\ conn[nat[n].conn].live
    <3>1. nat[n].pol \in Policies
      BY <2>3, Zenon DEF EntryInv, TypeOK, NatType
    <3>2. n \in EntriesOf[nat[n].pol]
      BY <2>3, <3>1 DEF EntriesOf, Entries
    <3> QED
      BY <2>3, <3>1, <3>2, UsedIsLive, Zenon DEF EntryInv
  <2>4. ASSUME NEW p \in Packets, pk[p].pol # NULL PROVE pol[pk[p].pol].live
    <3>1. pk[p].pol \in Policies
      BY <2>4, Zenon DEF TypeOK, PacketType
    <3>2. CASE pk[p].nt # NULL
      <4>1. pk[p].nt \in Nats /\ nat[pk[p].nt].live /\ nat[pk[p].nt].pol = pk[p].pol
        BY <3>2, Zenon DEF PacketInv, PacketOK, TypeOK, PacketType
      <4> QED
        BY <2>3, <4>1, Zenon
    <3>3. CASE pk[p].pc \in HoldPCs
      <4>1. p \in HoldingOf[pk[p].pol]
        BY <3>1, <3>3, Zenon DEF HoldingOf, Holding, HoldPCs
      <4> QED
        BY <3>1, <4>1, UsedIsLive, ZenonT(30)
    <3>4. CASE pk[p].pc = "getnat"
      BY <2>2, <3>4, Zenon DEF LoadInv
    <3>5. pk[p].nt # NULL \/ pk[p].pc \in HoldPCs \/ pk[p].pc = "getnat"
      BY <2>4, ZenonT(30) DEF PacketInv, PacketOK, TypeOK, PacketType, PacketPCs, HoldPCs, OwnPCs
    <3> QED
      BY <3>2, <3>3, <3>4, <3>5, Zenon
  <2> QED
    BY <2>1, <2>2, <2>3, <2>4, Zenon DEF PolicyRefs
<1> QED
  BY <1>1, NatInvariant, PTL

\* Whatever fails on the way of a translation, a port of the port map is taken
\* exactly as long as one entry has it: none leaks and none is given twice.
THEOREM PortsHaveOwners == Spec => []PortsOwned
<1>1. NatInv => PortsOwned
  <2> SUFFICES ASSUME NatInv PROVE PortsOwned
    OBVIOUS
  <2> DEFINE Having == {n \in Nats : nat[n].live /\ nat[n].port # 0}
             f == [n \in Having |-> <<nat[n].alen, nat[n].port>>]
  <2>1. ports = {<<nat[n].alen, nat[n].port>> : n \in Having}
    <3>1. \A x \in ports : \E n \in Having : x = <<nat[n].alen, nat[n].port>>
      BY Zenon DEF NatInv, PortInv
    <3>2. \A n \in Having : <<nat[n].alen, nat[n].port>> \in ports
      BY Zenon DEF NatInv, PortInv
    <3> QED
      BY <3>1, <3>2
  <2>2. IsFiniteSet(Having)
    BY NatAssumption, FS_Subset, Zenon
  <2>3. ASSUME NEW m \in Having, NEW n \in Having, f[m] = f[n] PROVE m = n
    BY <2>3, Zenon DEF NatInv, PortInv
  <2>4. f \in Bijection(Having, ports)
    <3>1. f \in [Having -> ports]
      BY <2>1
    <3>2. \A y \in ports : \E x \in Having : f[x] = y
      BY <2>1, Zenon
    <3> QED
      BY <2>3, <3>1, <3>2, Zenon DEF Bijection, Injection, IsInjective, Surjection
  <2>5. ExistsBijection(Having, ports)
    BY <2>4, Zenon DEF ExistsBijection
  <2>6. Cardinality(ports) = Cardinality(Having)
    BY <2>2, <2>5, FS_Bijection, Zenon
  <2> QED
    BY <2>1, <2>6 DEF PortsOwned
<1> QED
  BY <1>1, NatInvariant, PTL

\* What is left of a policy that a reload has dropped drains away.
THEOREM DroppedPoliciesDrain == Spec => []DroppedDrains
<1>1. NatInv => DroppedDrains
  BY DEF NatInv
<1> QED
  BY <1>1, NatInvariant, PTL

-----------------------------------------------------------------------------
(* The destructor of the ALG.                                              *)

\* The entries the destruction of which has begun.
Dying == {n \in Nats : \/ \E c \in Conns : conn[c].done = "alg" /\ conn[c].nat = n
                       \/ \E p \in Packets : pk[p].pc = "unlink" /\ pk[p].nt = n}

\* The destructor has been called for an entry that still has its ALG only
\* while the entry goes; an ALG function that runs holds back the unloading.
AlgInv ==
  /\ \A n \in Nats : /\ calls[n] \in {0, 1}
                     /\ calls[n] = 1 /\ nat[n].alg => n \in Dying
                     /\ ~nat[n].live => calls[n] = 0
  /\ \A p \in Packets : pk[p].pc \in {"match", "matched"} =>
       ~nat[pk[p].nt].alg /\ calls[pk[p].nt] = 0
  /\ ~alg.reg => \A p \in Packets : pk[p].pc = "matched" => alg.pc = "sync" /\ p \in alg.wait
  /\ ~alg.reg /\ alg.pc = "idle" => \A n \in Nats : nat[n].alg => nat[n].pol \notin cur

\* A step that touches neither the entries nor the ALG.
LEMMA AlgFrame ==
  ASSUME AlgInv, UNCHANGED <<nat, calls, cur>>, alg'.reg = alg.reg, alg'.pc = alg.pc,
         \A c \in Conns : conn[c].done = "alg" => conn'[c].done = "alg" /\ conn'[c].nat = conn[c].nat,
         \A p \in Packets : pk[p].pc = "unlink" => pk'[p].pc = "unlink" /\ pk'[p].nt = pk[p].nt,
         \A p \in Packets : pk'[p].pc \in {"match", "matched"} =>
           /\ pk'[p].pc = pk[p].pc /\ pk'[p].nt = pk[p].nt
           /\ p \in alg.wait => p \in alg'.wait
  PROVE  AlgInv'
<1>1. Dying \subseteq Dying'
  BY Zenon DEF Dying
<1> QED
  BY <1>1, Zenon DEF AlgInv

\* A step of a packet that is not matched, not about to destroy its entry, and
\* does neither.
LEMMA AlgPacket ==
  ASSUME TypeOK, AlgInv, NEW p \in Packets, UNCHANGED <<nat, calls, cur>>,
         \A x \in Packets : x # p => pk'[x] = pk[x],
         pk[p].pc # "unlink", pk'[p].pc \notin {"match", "matched"},
         alg' = alg \/ alg' = [alg EXCEPT !.wait = @ \ {p}],
         \A c \in Conns : conn[c].done = "alg" => conn'[c].done = "alg" /\ conn'[c].nat = conn[c].nat
  PROVE  AlgInv'
<1>1. alg'.reg = alg.reg /\ alg'.pc = alg.pc /\ \A x \in Packets : x # p /\ x \in alg.wait => x \in alg'.wait
  BY DEF TypeOK
<1> QED
  BY <1>1, AlgFrame

\* The destructor is called for an entry that goes.
LEMMA AlgCalled ==
  ASSUME TypeOK, AlgInv, NEW n \in Nats, nat[n].live, n \notin Dying, n \in Dying',
         nat_destroy_alg(n), UNCHANGED <<nat, cur, alg>>,
         \A c \in Conns : conn[c].done = "alg" => conn'[c].done = "alg" /\ conn'[c].nat = conn[c].nat,
         \A p \in Packets : pk[p].pc = "unlink" => pk'[p].pc = "unlink" /\ pk'[p].nt = pk[p].nt,
         \A p \in Packets : pk'[p].pc \in {"match", "matched"} =>
           pk'[p].pc = pk[p].pc /\ pk'[p].nt = pk[p].nt /\ pk[p].nt \in Nats /\ pk[p].nt # n
  PROVE  AlgInv'
<1>1. Dying \subseteq Dying'
  BY Zenon DEF Dying
<1>2. \A m \in Nats : m # n => calls'[m] = calls[m]
  BY Zenon DEF nat_destroy_alg, CallDestroy
<1>3. calls'[n] \in {0, 1}
  <2>1. CASE nat[n].alg
    <3>1. calls[n] = 0
      BY <2>1, Zenon DEF AlgInv
    <3>2. calls'[n] = calls[n] + 1 \/ calls'[n] = calls[n]
      BY Zenon DEF nat_destroy_alg, CallDestroy
    <3> QED
      BY <3>1, <3>2
  <2>2. CASE ~nat[n].alg
    BY <2>2, Zenon DEF AlgInv, nat_destroy_alg, CallDestroy
  <2> QED
    BY <2>1, <2>2, Zenon
<1>4. \A m \in Nats : /\ calls'[m] \in {0, 1}
                      /\ calls'[m] = 1 /\ nat'[m].alg => m \in Dying'
                      /\ ~nat'[m].live => calls'[m] = 0
  BY <1>1, <1>2, <1>3 DEF AlgInv
<1>5. \A p \in Packets : pk'[p].pc \in {"match", "matched"} =>
        ~nat'[pk'[p].nt].alg /\ calls'[pk'[p].nt] = 0
  BY <1>2 DEF AlgInv
<1> QED
  BY <1>4, <1>5, Zenon DEF AlgInv

\* An entry is made: it has no ALG, and the destructor was not called for it.
LEMMA AlgCreated ==
  ASSUME TypeOK, AlgInv, NEW n \in Nats, ~nat[n].live, ~nat'[n].alg, nat'[n].live,
         \A m \in Nats : m # n => nat'[m] = nat[m], UNCHANGED <<calls, cur, alg>>,
         \A c \in Conns : conn[c].done = "alg" => conn'[c].done = "alg" /\ conn'[c].nat = conn[c].nat,
         \A p \in Packets : pk[p].pc = "unlink" => pk'[p].pc = "unlink" /\ pk'[p].nt = pk[p].nt,
         \A p \in Packets : pk'[p].pc = "matched" => pk[p].pc = "matched" /\ pk'[p].nt = pk[p].nt /\ pk[p].nt \in Nats,
         \A p \in Packets : pk'[p].pc = "match" =>
           pk'[p].nt = n \/ (pk[p].pc = "match" /\ pk'[p].nt = pk[p].nt /\ pk[p].nt \in Nats)
  PROVE  AlgInv'
<1>1. Dying \subseteq Dying'
  BY DEF Dying
<1>2. \A m \in Nats : /\ calls'[m] \in {0, 1}
                      /\ calls'[m] = 1 /\ nat'[m].alg => m \in Dying'
                      /\ ~nat'[m].live => calls'[m] = 0
  BY <1>1, Zenon DEF AlgInv
<1>3. \A p \in Packets : pk'[p].pc \in {"match", "matched"} =>
        ~nat'[pk'[p].nt].alg /\ calls'[pk'[p].nt] = 0
  BY DEF AlgInv
<1> QED
  BY <1>2, <1>3, Zenon DEF AlgInv

\* An entry is unlinked, by the packet or by the worker.
LEMMA AlgUnlinked ==
  ASSUME TypeOK, AlgInv, NEW n \in Nats, nat_destroy_unlink(n), UNCHANGED <<cur, alg>>,
         \A c \in Conns : conn[c].done = "alg" /\ conn[c].nat # n =>
           conn'[c].done = "alg" /\ conn'[c].nat = conn[c].nat,
         \A p \in Packets : pk[p].pc = "unlink" /\ pk[p].nt # n =>
           pk'[p].pc = "unlink" /\ pk'[p].nt = pk[p].nt,
         \A p \in Packets : pk'[p].pc \in {"match", "matched"} =>
           pk'[p].pc = pk[p].pc /\ pk'[p].nt = pk[p].nt /\ pk[p].nt \in Nats /\ pk[p].nt # n
  PROVE  AlgInv'
<1>1. /\ nat' = [nat EXCEPT ![n] = FreeNat] /\ calls' = [calls EXCEPT ![n] = 0]
      /\ ~FreeNat.alg
  BY ZenonT(30) DEF nat_destroy_unlink, FreeNat
<1>2. \A m \in Nats : m # n /\ m \in Dying => m \in Dying'
  BY DEF Dying
<1>3. /\ nat'[n] = FreeNat /\ calls'[n] = 0
      /\ \A m \in Nats : m # n => nat'[m] = nat[m] /\ calls'[m] = calls[m]
  BY <1>1, Zenon DEF TypeOK
<1>4. \A m \in Nats : /\ calls'[m] \in {0, 1}
                      /\ calls'[m] = 1 /\ nat'[m].alg => m \in Dying'
                      /\ ~nat'[m].live => calls'[m] = 0
  BY <1>2, <1>3 DEF AlgInv
<1>5. \A p \in Packets : pk'[p].pc \in {"match", "matched"} =>
        ~nat'[pk'[p].nt].alg /\ calls'[pk'[p].nt] = 0
  BY <1>3 DEF AlgInv
<1>6. ~alg.reg /\ alg.pc = "idle" => \A m \in Nats : nat'[m].alg => nat'[m].pol \notin cur
  BY <1>1, <1>3 DEF AlgInv
<1> QED
  BY <1>4, <1>5, <1>6, Zenon DEF AlgInv

\* The steps of a packet keep AlgInv: until npf_conn_setnat publishes it, an
\* entry belongs to one packet, and only this packet gives it to the ALG.
LEMMA PacketAlg ==
  ASSUME NatInv, AlgInv, NEW p \in Packets, Packet(p)
  PROVE  AlgInv'
<1> USE DEF NatInv, Core
<1>t. pk[p] \in PacketType
  BY DEF TypeOK
<1>g. \A r : Go(p, r) => pk'[p] = r /\ \A x \in Packets : x # p => pk'[x] = pk[x]
  BY Zenon DEF TypeOK, Go
<1>o. ASSUME NEW y \in Packets, pk[y].pc \in OwnPCs
      PROVE  /\ pk[y].nt \in Nats /\ nat[pk[y].nt].live /\ \A c \in Conns : conn[c].nat # pk[y].nt
             /\ \A x \in Packets : x # y /\ pk[x].pc \in OwnPCs => pk[x].nt # pk[y].nt
  <2>1. pk[y].nt \in Nats /\ nat[pk[y].nt].live /\ pk[y].nt # NULL
    BY <1>o, NatAssumption, ZenonT(30) DEF PacketInv, PacketOK, TypeOK, PacketType, OwnPCs
  <2>2. \A c \in Conns : conn[c].nat # pk[y].nt
    BY <1>o, <2>1 DEF PacketInv, PacketOK, ConnInv
  <2> QED
    BY <1>o, <2>1, <2>2, Zenon DEF OwnerInv
<1>s. \A c \in SpareConns : conn[c].done = "no"
  <2>1. FreeConn.done = "no"
    BY Zenon DEF FreeConn
  <2> QED
    BY <2>1, Zenon DEF SpareConns, ConnInv
<1>1. CASE npf_nat_inspect(p)
  <2>0. PICK r : /\ Go(p, r)
                 /\ \/ r = [pk[p] EXCEPT !.pc = "out"]
                    \/ \E q \in cur : r = [pk[p] EXCEPT !.pc = "getnat", !.pol = q]
    BY <1>1, ZenonT(30) DEF npf_nat_inspect
  <2>2. r.pc \in {"out", "getnat"}
    BY <1>t, <2>0, ZenonT(30) DEF PacketType
  <2>1. pk'[p].pc \in {"out", "getnat"} /\ \A x \in Packets : x # p => pk'[x] = pk[x]
    BY <1>g, <2>0, <2>2, Zenon
  <2> QED
    BY <1>1, <2>1, AlgPacket, ZenonT(30) DEF npf_nat_inspect
<1>2. CASE nat_inspect_ref(p)
  <2>1. pk'[p].pc \in {"snat", "establish", "create"} /\ \A x \in Packets : x # p => pk'[x] = pk[x]
    BY <1>2, <1>g, <1>t DEF nat_inspect_ref, PacketType
  <2> QED
    BY <1>2, <2>1, AlgPacket DEF nat_inspect_ref, Exit
<1>3. CASE npf_snat_translate(p)
  <2>1. pk'[p].pc = "out" /\ \A x \in Packets : x # p => pk'[x] = pk[x]
    BY <1>3, <1>t DEF npf_snat_translate, PacketType, Go, TypeOK
  <2> QED
    BY <1>3, <2>1, AlgPacket DEF npf_snat_translate
<1>4. CASE npf_conn_establish(p)
  <2>1. pk'[p].pc \in {"create", "out"} /\ \A x \in Packets : x # p => pk'[x] = pk[x]
    <3>1. PICK r : /\ Go(p, r)
                   /\ \/ r = [pk[p] EXCEPT !.pc = "out", !.pol = NULL, !.err = TRUE]
                      \/ \E c \in SpareConns : r = [pk[p] EXCEPT !.pc = "create", !.con = c, !.own = TRUE]
      BY <1>4, ZenonT(30) DEF npf_conn_establish
    <3>2. r.pc \in {"create", "out"}
      BY <1>t, <3>1, ZenonT(30) DEF PacketType
    <3> QED
      BY <1>g, <3>1, <3>2, ZenonT(30)
  <2>2. \A c \in Conns : conn[c].done = "alg" => conn'[c] = conn[c]
    BY <1>4, <1>s, ZenonT(30) DEF npf_conn_establish, TypeOK
  <2> QED
    BY <1>4, <2>1, <2>2, AlgPacket, ZenonT(30) DEF npf_conn_establish
<1>5. CASE npf_nat_create(p)
  <2>1. ASSUME NEW n \in SpareNats, NEW port \in PortmapGet(pol[pk[p].pol].spec),
               Created(n, pk[p].pol, pk[p].con, port, 4),
               Go(p, [pk[p] EXCEPT !.pc = "match", !.nt = n])
        PROVE  AlgInv'
    <3>1. n \in Nats /\ ~nat[n].live
      BY Zenon DEF SpareNats
    <3>2. pk'[p].nt = n /\ pk'[p].pc = "match" /\ \A x \in Packets : x # p => pk'[x] = pk[x]
      BY <1>t, <2>1 DEF PacketType, Go, TypeOK
    <3>3. pk[p].pol \in Policies /\ pk[p].con \in Conns /\ pk[p].pc = "create" /\ UNCHANGED <<conn, cur, alg, calls>>
      BY <1>5, <1>t, Zenon DEF npf_nat_create, PacketInv, PacketOK, PacketType, HoldPCs
    <3>4. nat'[n].live /\ ~nat'[n].alg /\ \A m \in Nats : m # n => nat'[m] = nat[m]
      BY <2>1, <3>1, <3>3, CreatedKeeps
    <3>5. \A x \in Packets : pk[x].pc \in {"match", "matched"} => pk[x].nt \in Nats
      BY <1>o, Zenon DEF OwnPCs
    <3>6. \A x \in Packets : pk[x].pc = "unlink" => pk'[x].pc = "unlink" /\ pk'[x].nt = pk[x].nt
      BY <3>2, <3>3
    <3>7. \A x \in Packets : pk'[x].pc = "matched" =>
            pk[x].pc = "matched" /\ pk'[x].nt = pk[x].nt /\ pk[x].nt \in Nats
      BY <3>2, <3>5
    <3>8. \A x \in Packets : pk'[x].pc = "match" =>
            pk'[x].nt = n \/ (pk[x].pc = "match" /\ pk'[x].nt = pk[x].nt /\ pk[x].nt \in Nats)
      BY <3>2, <3>5
    <3> QED
      BY <3>1, <3>3, <3>4, <3>6, <3>7, <3>8, AlgCreated, Zenon
  <2>2. ASSUME UNCHANGED nat, Go(p, [pk[p] EXCEPT !.pc = "out", !.pol = NULL, !.err = TRUE])
        PROVE  AlgInv'
    <3>1. pk'[p].pc = "out" /\ \A x \in Packets : x # p => pk'[x] = pk[x]
      BY <1>t, <2>2 DEF PacketType, Go, TypeOK
    <3> QED
      BY <1>5, <2>2, <3>1, AlgPacket, Zenon DEF npf_nat_create
  <2> QED
    BY <1>5, <2>1, <2>2, ZenonT(30) DEF npf_nat_create
<1>6. ASSUME NEW takes \in BOOLEAN, npf_alg_match(p, takes) PROVE AlgInv'
  <2>1. /\ pk'[p].pc = (IF takes THEN "matched" ELSE "setnat") /\ pk'[p].nt = pk[p].nt
        /\ \A x \in Packets : x # p => pk'[x] = pk[x]
    BY <1>6, <1>g, <1>t DEF npf_alg_match, PacketType
  <2>2. pk[p].pc = "match" /\ (takes => alg.reg) /\ UNCHANGED <<nat, conn, cur, alg, calls>>
    BY <1>6 DEF npf_alg_match
  <2>3. Dying \subseteq Dying'
    BY <2>1, <2>2, Zenon DEF Dying
  <2> QED
    BY <2>1, <2>2, <2>3, Zenon DEF AlgInv
<1>7. CASE npf_nat_setalg(p)
  <2> DEFINE n == pk[p].nt
  <2>1. pk'[p].pc = "setnat" /\ \A x \in Packets : x # p => pk'[x] = pk[x]
    BY <1>7, <1>g, <1>t DEF npf_nat_setalg, PacketType
  <2>2. /\ pk[p].pc = "matched" /\ UNCHANGED <<conn, cur, calls>> /\ nat' = [nat EXCEPT ![n].alg = TRUE]
        /\ alg' = [alg EXCEPT !.wait = @ \ {p}]
    BY <1>7 DEF npf_nat_setalg, Exit
  <2>3. /\ n \in Nats /\ nat[n].live
        /\ \A x \in Packets : x # p /\ pk[x].pc \in {"match", "matched"} => pk[x].nt \in Nats /\ pk[x].nt # n
    BY <1>o, <2>2 DEF OwnPCs
  <2>4. /\ \A m \in Nats : m # n => nat'[m] = nat[m]
        /\ nat'[n].live
    BY <2>2, <2>3 DEF TypeOK, NatType
  <2>5. alg'.reg = alg.reg /\ alg'.pc = alg.pc /\ alg'.wait = alg.wait \ {p}
    BY <2>2 DEF TypeOK
  <2>6. Dying \subseteq Dying'
    BY <2>1, <2>2 DEF Dying
  <2>7. calls[n] = 0 /\ ~(~alg.reg /\ alg.pc = "idle")
    BY <2>2 DEF AlgInv
  <2>8. \A m \in Nats : /\ calls'[m] \in {0, 1}
                        /\ calls'[m] = 1 /\ nat'[m].alg => m \in Dying'
                        /\ ~nat'[m].live => calls'[m] = 0
    BY <2>2, <2>4, <2>6, <2>7 DEF AlgInv
  <2>9. \A x \in Packets : pk'[x].pc \in {"match", "matched"} =>
          ~nat'[pk'[x].nt].alg /\ calls'[pk'[x].nt] = 0
    BY <2>1, <2>2, <2>3, <2>4 DEF AlgInv
  <2> QED
    BY <2>1, <2>5, <2>7, <2>8, <2>9, ZenonT(30) DEF AlgInv
<1>8. ASSUME NEW duplicate \in BOOLEAN, npf_conn_setnat(p, duplicate) PROVE AlgInv'
  <2>1. /\ pk'[p].pc \in {"exec", "destroy"} /\ pk[p].pc = "setnat"
        /\ \A x \in Packets : x # p => pk'[x] = pk[x]
    <3>1. PICK r : /\ Go(p, r)
                   /\ \/ r = [pk[p] EXCEPT !.pc = "exec"]
                      \/ r = [pk[p] EXCEPT !.pc = "destroy", !.err = TRUE]
      BY <1>8, Zenon DEF npf_conn_setnat
    <3>2. r.pc \in {"exec", "destroy"}
      BY <1>t, <3>1, Zenon DEF PacketType
    <3> QED
      BY <1>8, <1>g, <3>1, <3>2, Zenon DEF npf_conn_setnat
  <2>2. pk[p].con \in Conns /\ conn[pk[p].con].done # "alg"
    BY <1>t, <2>1, ZenonT(30) DEF PacketInv, PacketOK, PacketType, OwnPCs, ConnInv
  <2>3. \A c \in Conns : conn[c].done = "alg" => conn'[c] = conn[c]
    BY <1>8, <2>2 DEF npf_conn_setnat, TypeOK
  <2> QED
    BY <1>8, <2>1, <2>3, AlgPacket, Zenon DEF npf_conn_setnat
<1>9. CASE npf_nat_destroy(p)
  <2> DEFINE n == pk[p].nt
  <2>1. ASSUME pk[p].pc = "destroy", nat_destroy_alg(n), Go(p, [pk[p] EXCEPT !.pc = "unlink"]),
               UNCHANGED <<nat, conn, cur, alg>>
        PROVE  AlgInv'
    <3>1. pk'[p].pc = "unlink" /\ pk'[p].nt = n /\ \A x \in Packets : x # p => pk'[x] = pk[x]
      BY <1>g, <1>t, <2>1 DEF PacketType
    <3>2. /\ n \in Nats /\ nat[n].live /\ \A c \in Conns : conn[c].nat # n
          /\ \A x \in Packets : x # p /\ pk[x].pc \in OwnPCs => pk[x].nt # n
      BY <1>o, <2>1, Zenon DEF OwnPCs
    <3>3. \A x \in Packets : x # p /\ pk[x].pc \in {"match", "matched"} => pk[x].nt \in Nats /\ pk[x].nt # n
      BY <1>o, <3>2, Zenon DEF OwnPCs
    <3>4. n \notin Dying /\ n \in Dying'
      BY <2>1, <3>1, <3>2, Zenon DEF Dying, OwnPCs
    <3> QED
      BY <2>1, <3>1, <3>2, <3>3, <3>4, AlgCalled, Zenon
  <2>2. ASSUME pk[p].pc = "unlink", nat_destroy_unlink(n),
               Go(p, [pk[p] EXCEPT !.pc = "out", !.nt = NULL, !.pol = NULL]), UNCHANGED <<conn, cur, alg>>
        PROVE  AlgInv'
    <3>1. pk'[p].pc = "out" /\ \A x \in Packets : x # p => pk'[x] = pk[x]
      BY <1>t, <2>2 DEF PacketType, Go, TypeOK
    <3>2. n \in Nats /\ \A x \in Packets : x # p /\ pk[x].pc \in OwnPCs => pk[x].nt \in Nats /\ pk[x].nt # n
      BY <1>o, <2>2 DEF OwnPCs
    <3>3. \A x \in Packets : pk'[x].pc \in {"match", "matched"} =>
            pk'[x].pc = pk[x].pc /\ pk'[x].nt = pk[x].nt /\ pk[x].nt \in Nats /\ pk[x].nt # n
      BY <3>1, <3>2, Zenon DEF OwnPCs
    <3> QED
      BY <2>2, <3>1, <3>2, <3>3, AlgUnlinked
  <2> QED
    BY <1>9, <2>1, <2>2 DEF npf_nat_destroy
<1>10. CASE npf_dnat_translate(p)
  <2>1. pk'[p].pc = "out" /\ \A x \in Packets : x # p => pk'[x] = pk[x]
    BY <1>10, <1>t DEF npf_dnat_translate, PacketType, Go, TypeOK
  <2> QED
    BY <1>10, <2>1, AlgPacket DEF npf_dnat_translate
<1>11. ASSUME NEW c \in Conns, NEW ok \in BOOLEAN, npf_nat_share_policy(p, c, ok) PROVE AlgInv'
  <2>1. pk'[p].pc = "out" /\ \A x \in Packets : x # p => pk'[x] = pk[x]
    BY <1>11, <1>g, <1>t DEF npf_nat_share_policy, PacketType
  <2>2. \A d \in Conns : conn[d].done = "alg" => conn'[d] = conn[d]
    BY <1>11, <1>s, Zenon DEF npf_nat_share_policy, TypeOK
  <2>3. pk[p].pc = "exec" /\ UNCHANGED <<cur, ld, alg, calls>>
    BY <1>11 DEF npf_nat_share_policy
  <2>4. CASE ~ok
    BY <1>11, <2>1, <2>2, <2>3, <2>4, AlgPacket, Zenon DEF npf_nat_share_policy
  <2>5. CASE ok
    <3>1. PICK n \in SpareNats, port \in PortmapGet(pol[pk[p].pol].spec) : Created(n, pk[p].pol, c, port, 4)
      BY <1>11, <2>5, Zenon DEF npf_nat_share_policy
    <3>2. n \in Nats /\ ~nat[n].live
      BY Zenon DEF SpareNats
    <3>3. pk[p].pol \in Policies
      BY <1>t, <2>3 DEF PacketInv, PacketOK, EntryInv, PacketType, TypeOK, NatType
    <3>4. nat'[n].live /\ ~nat'[n].alg /\ \A m \in Nats : m # n => nat'[m] = nat[m]
      BY <3>1, <3>2, <3>3, CreatedKeeps, Zenon
    <3>5. \A x \in Packets : pk[x].pc \in {"match", "matched"} => pk[x].nt \in Nats
      BY <1>o DEF OwnPCs
    <3> QED
      BY <2>1, <2>2, <2>3, <3>2, <3>4, <3>5, AlgCreated
  <2> QED
    BY <2>4, <2>5
<1>12. CASE do_nat_out(p)
  <2>1. pk'[p].pc = "idle" /\ \A x \in Packets : x # p => pk'[x] = pk[x]
    BY <1>12, <1>g DEF do_nat_out, NoPacket
  <2>2. \A c \in Conns : conn[c].done = "alg" => conn'[c].done = "alg" /\ conn'[c].nat = conn[c].nat
    BY <1>12 DEF do_nat_out, TypeOK, ConnType
  <2> QED
    BY <1>12, <2>1, <2>2, AlgPacket, Zenon DEF do_nat_out
<1> QED
  BY <1>1, <1>2, <1>3, <1>4, <1>5, <1>6, <1>7, <1>8, <1>9, <1>10, <1>11, <1>12 DEF Packet

\* Every step keeps AlgInv: npf_ruleset_freealg waits for those that are
\* matching the ALG, and while no entry is being destroyed none of the entries
\* it finds has been through the destructor.
LEMMA NextAlg ==
  ASSUME Quiet, NatInv, AlgInv, [Next]_vars
  PROVE  AlgInv'
<1> USE DEF NatInv, Core
<1>o. \A x \in Packets : pk[x].pc \in {"match", "matched"} => pk[x].nt \in Nats /\ nat[pk[x].nt].live
  BY NatAssumption, Zenon DEF PacketInv, PacketOK, TypeOK, PacketType, OwnPCs
<1>1. ASSUME NEW p \in Packets, Packet(p) PROVE AlgInv'
  BY <1>1, PacketAlg
<1>2. ASSUME NEW p \in Packets, NEW c \in Conns \cup {NULL}, NEW same \in BOOLEAN,
             npf_nat_lookup(p, c, same)
      PROVE  AlgInv'
  <2>1. pk'[p].pc \in {"inspect", "exec"} /\ \A x \in Packets : x # p => pk'[x] = pk[x]
    BY <1>2 DEF npf_nat_lookup, Go, TypeOK, NoPacket
  <2> QED
    BY <1>2, <2>1, AlgPacket DEF npf_nat_lookup
<1>3. ASSUME NEW c \in Conns, npf_conn_expired(c) PROVE AlgInv'
  <2>1. \A d \in Conns : conn'[d].done = conn[d].done /\ conn'[d].nat = conn[d].nat
    BY <1>3 DEF npf_conn_expired, TypeOK, ConnType
  <2>2. UNCHANGED <<nat, cur, alg, pk, calls>>
    BY <1>3 DEF npf_conn_expired
  <2> QED
    BY <2>1, <2>2, AlgFrame, Zenon
<1>4. ASSUME NEW c \in Conns, npf_conn_destroy(c) PROVE AlgInv'
  <2> DEFINE n == conn[c].nat
  <2>1. (\A x \in Packets : pk[x].con # c) /\ UNCHANGED <<cur, alg, pk>>
    BY <1>4 DEF npf_conn_destroy
  <2>2. ASSUME n # NULL
        PROVE  /\ n \in Nats /\ nat[n].live /\ nat[n].conn = c
               /\ \A d \in Conns : d # c => conn[d].nat # n
               /\ \A x \in Packets : pk[x].nt # n
    <3>1. n \in Nats /\ nat[n].live /\ nat[n].conn = c
      BY <2>2, Zenon DEF ConnInv, TypeOK, ConnType
    <3> QED
      BY <2>1, <2>2, <3>1 DEF ConnInv, PacketInv, PacketOK
  <2>3. ASSUME conn[c].done = "no", n # NULL, nat_destroy_alg(n),
               conn' = [conn EXCEPT ![c].done = "alg"], UNCHANGED <<nat, pol, ports>>
        PROVE  AlgInv'
    <3>1. conn'[c].done = "alg" /\ conn'[c].nat = n /\ \A d \in Conns : d # c => conn'[d] = conn[d]
      BY <2>3, Zenon DEF TypeOK, ConnType
    <3>2. n \notin Dying /\ n \in Dying'
      BY <2>1, <2>2, <2>3, <3>1 DEF Dying
    <3>3. \A d \in Conns : conn[d].done = "alg" => conn'[d].done = "alg" /\ conn'[d].nat = conn[d].nat
      BY <3>1, Zenon
    <3> QED
      BY <1>o, <2>1, <2>2, <2>3, <3>2, <3>3, AlgCalled
  <2>4. ASSUME conn[c].done = "alg", nat_destroy_unlink(n), conn' = [conn EXCEPT ![c] = FreeConn]
        PROVE  AlgInv'
    <3>1. n # NULL
      BY <2>4 DEF ConnInv
    <3>2. \A d \in Conns : d # c => conn'[d] = conn[d]
      BY <2>4, Zenon DEF TypeOK
    <3> QED
      BY <1>o, <2>1, <2>2, <2>4, <3>1, <3>2, AlgUnlinked, ZenonT(30)
  <2>5. ASSUME n = NULL, conn' = [conn EXCEPT ![c] = FreeConn], UNCHANGED <<pol, nat, ports, calls>>
        PROVE  AlgInv'
    <3>1. conn[c].done # "alg" /\ \A d \in Conns : d # c => conn'[d] = conn[d]
      BY <2>5, Zenon DEF TypeOK, ConnInv
    <3> QED
      BY <2>1, <2>5, <3>1, AlgFrame, Zenon
  <2> QED
    BY <1>4, <2>3, <2>4, <2>5, Zenon DEF npf_conn_destroy
<1>5. ASSUME NEW want \in Wanted, npf_ruleset_reload(want) PROVE AlgInv'
  <2>1. PICK keep \in SUBSET cur, F \in SUBSET SparePolicies : cur' = keep \cup F
    BY <1>5, ZenonT(30) DEF npf_ruleset_reload, Swap
  <2>2. UNCHANGED <<nat, conn, alg, pk, calls>>
    BY <1>5, Zenon DEF npf_ruleset_reload
  <2>3. \A n \in Nats : nat[n].live => nat[n].pol \notin F
    <3>1. \A q \in F : q \in Policies /\ EntriesOf[q] = {}
      BY FreeIsUnused DEF SparePolicies
    <3> QED
      BY <3>1, Zenon DEF EntriesOf, Entries
  <2>4. \A n \in Nats : nat[n].alg => nat[n].live
    BY DEF EntryInv, FreeNat
  <2>5. Dying' = Dying
    BY <2>2, Zenon DEF Dying
  <2> QED
    BY <2>1, <2>2, <2>3, <2>4, <2>5, Zenon DEF AlgInv
<1>6. ASSUME NEW want \in Wanted, NEW c \in SpareConns, NEW n \in SpareNats, NEW port \in Ports,
             npf_nat_import(want, c, n, port)
      PROVE  AlgInv'
  <2>1. /\ UNCHANGED <<alg, pk, calls>> /\ n \in Nats /\ \A d \in Conns : ~conn[d].live
    BY <1>6 DEF npf_nat_import, SpareNats
  <2>2. \A m \in Nats : ~nat[m].live /\ ~nat[m].alg /\ calls[m] = 0
    <3>1. ~FreeNat.alg /\ FreeNat.conn = NULL
      BY Zenon DEF FreeNat
    <3>2. \A m \in Nats : ~nat[m].live
      BY <2>1, Fields DEF EntryInv
    <3>3. \A m \in Nats : ~nat[m].alg
      BY <3>1, <3>2, Zenon DEF EntryInv
    <3> QED
      BY <3>2, <3>3, Zenon DEF AlgInv
  <2>3. PICK q : nat' = [nat EXCEPT ![n] = [FreeNat EXCEPT !.live = TRUE, !.pol = q, !.conn = c, !.port = port]]
    BY <1>6, Zenon DEF npf_nat_import
  <2>4. \A m \in Nats : ~nat'[m].alg
    BY <2>2, <2>3 DEF TypeOK, FreeNat
  <2>5. \A x \in Packets : pk[x].pc \notin {"match", "matched"}
    BY <1>o, <2>2, Zenon
  <2> QED
    BY <2>1, <2>2, <2>4, <2>5, Zenon DEF AlgInv
<1>7. CASE npf_natpolicy_destroy
  <2>1. UNCHANGED <<nat, cur, alg, pk, calls>>
    BY <1>7 DEF npf_natpolicy_destroy
  <2>2. \A d \in Conns : conn'[d] = conn[d] \/ conn'[d] = [conn[d] EXCEPT !.exp = TRUE]
    BY <1>7 DEF npf_natpolicy_destroy
  <2>3. \A d \in Conns : conn'[d].done = conn[d].done /\ conn'[d].nat = conn[d].nat
    BY <2>2, Fields, Zenon DEF ConnType
  <2> QED
    BY <2>1, <2>3, AlgFrame, Zenon
<1>8. CASE natpolicy_destroy_release
  BY <1>8, AlgFrame DEF natpolicy_destroy_release
<1>9. CASE npf_alg_register
  <2>1. UNCHANGED <<nat, conn, cur, pk, calls>> /\ alg'.reg
    BY <1>9 DEF npf_alg_register, TypeOK
  <2>2. Dying' = Dying
    BY <2>1, Zenon DEF Dying
  <2> QED
    BY <2>1, <2>2, Zenon DEF AlgInv
<1>10. CASE npf_alg_unregister
  <2>1. /\ UNCHANGED <<nat, conn, cur, pk, calls>> /\ ~alg'.reg /\ alg'.pc = "sync"
        /\ \A x \in Packets : pk[x].pc = "matched" => x \in alg'.wait
    BY <1>10, Zenon DEF npf_alg_unregister, SyncWith, Sections, InCrit
  <2>2. Dying' = Dying
    BY <2>1, Zenon DEF Dying
  <2> QED
    BY <2>1, <2>2, Zenon DEF AlgInv
<1>11. CASE npf_ruleset_freealg
  <2> DEFINE mine == {n \in UNION {Entries(q) : q \in cur} : nat[n].alg}
  <2>1. /\ UNCHANGED <<conn, cur, pk>> /\ alg' = [alg EXCEPT !.pc = "idle"] /\ alg.wait = {}
        /\ nat' = [n \in Nats |-> IF n \in mine THEN Freed(n) ELSE nat[n]]
        /\ ~BeingDestroyed
        /\ calls' = [n \in Nats |-> IF n \in mine /\ (alg.reg \/ alg.pc # "idle")
                                    THEN calls[n] + 1 ELSE calls[n]]
    BY <1>11 DEF npf_ruleset_freealg, CallDestroy
  <2>2. Dying = {}
    BY <2>1 DEF Dying, BeingDestroyed
  <2>3. \A n \in mine : nat[n].live /\ nat[n].alg
    BY Zenon DEF Entries
  <2>4. \A n \in Nats : nat[n].alg /\ nat[n].pol \in cur => n \in mine
    <3>1. \A n \in Nats : nat[n].alg => nat[n].live
      BY DEF EntryInv, FreeNat
    <3> QED
      BY <3>1 DEF Entries
  <2> HIDE DEF mine
  <2>5. \A n \in Nats : IF n \in mine THEN nat'[n].live /\ ~nat'[n].alg ELSE nat'[n] = nat[n]
    <3>1. ASSUME NEW n \in Nats, n \in mine PROVE nat'[n].live /\ ~nat'[n].alg
      <4>1. nat'[n] = [nat[n] EXCEPT !.alg = FALSE] /\ nat[n] \in NatType /\ nat[n].live
        BY <2>1, <2>3, <3>1, Zenon DEF Freed, TypeOK
      <4> QED
        BY <4>1, Zenon DEF NatType
    <3> QED
      BY <2>1, <3>1
  <2>6. \A n \in Nats : n \in mine => calls[n] = 0
    BY <2>2, <2>3, Zenon DEF AlgInv
  <2>7. \A n \in Nats : IF n \in mine THEN calls'[n] \in {0, 1} ELSE calls'[n] = calls[n]
    BY <2>1, <2>6
  <2>8. \A n \in Nats : /\ calls'[n] \in {0, 1}
                        /\ calls'[n] = 1 /\ nat'[n].alg => n \in Dying'
                        /\ ~nat'[n].live => calls'[n] = 0
    BY <2>2, <2>5, <2>7, Zenon DEF AlgInv
  <2>9. \A x \in Packets : pk'[x].pc \in {"match", "matched"} =>
          ~nat'[pk'[x].nt].alg /\ calls'[pk'[x].nt] = 0
    BY <1>o, <2>1, <2>3, <2>5, <2>7, Zenon DEF AlgInv
  <2>10. alg'.reg = alg.reg
    BY <2>1 DEF TypeOK
  <2>11. ~alg'.reg => \A x \in Packets : pk'[x].pc # "matched"
    BY <2>1, <2>10 DEF AlgInv
  <2>12. \A n \in Nats : nat'[n].alg => nat'[n].pol \notin cur'
    BY <2>1, <2>4, <2>5
  <2> QED
    BY <2>8, <2>9, <2>11, <2>12, Zenon DEF AlgInv
<1>12. CASE UNCHANGED vars
  <2>1. UNCHANGED <<nat, conn, cur, alg, pk, calls>>
    BY <1>12, Zenon DEF vars
  <2> QED
    BY <2>1, AlgFrame, Zenon
<1> QED
  BY <1>1, <1>2, <1>3, <1>4, <1>5, <1>6, <1>7, <1>8, <1>9, <1>10, <1>11, <1>12 DEF Next

\* An ALG that is unloaded while no entry is being destroyed calls its
\* destructor at most once for an entry, and no entry of an active policy is
\* left with it.
THEOREM AlgIsDetached == Quiet => (Spec => []AlgDetached)
<1> SUFFICES ASSUME Quiet PROVE Spec => []AlgDetached
  OBVIOUS
<1>1. Init => AlgInv
  BY DEF Init, AlgInv, FreeNat, NoPacket
<1>2. NatInv /\ AlgInv /\ [Next]_vars => AlgInv'
  BY NextAlg
<1>3. AlgInv => AlgDetached
  <2>1. \A x \in {0, 1} : x <= 1
    OBVIOUS
  <2> QED
    BY <2>1, Zenon DEF AlgInv, AlgDetached
<1> QED
  BY <1>1, <1>2, <1>3, NatInvariant, PTL DEF Spec
====
