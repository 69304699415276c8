----------------------------- MODULE NpfRewrite ------------------------------
(***************************************************************************)
(* What NPF does to a packet that it translates: npf_inet.c (checksums,    *)
(* masks, rewriting, NPTv6), the translation of npf_nat.c, the connection  *)
(* keys of npf_connkey.c, the ICMP ALG of npf_alg_icmp.c and the           *)
(* normalisation of npf_ext_normalize.c, for the policies that npf_build.c *)
(* makes of a "map" statement.                                             *)
(*                                                                         *)
(* A flow begins with one packet.  The peer answers what it has received,  *)
(* or a router reports an error about it; the answer is looked up and      *)
(* translated back.                                                        *)
(*                                                                         *)
(* A byte has B bits.  A 16-bit word is two of them, the first one low (a  *)
(* little-endian machine); an address is 4 or 16 bytes.  The layout of     *)
(* a key has its real widths.                                              *)
(***************************************************************************)
EXTENDS Integers, Sequences, FiniteSets, SequencesExt, Bitwise

CONSTANTS
  B,          \* bits of a byte
  Maps,       \* the "map" statements
  Packets,    \* the packets that begin a flow, with their directions
  Routers,    \* the addresses that report errors
  NatPorts,   \* the ports of the port map
  Confs,      \* parameters, rules and procedures in force
  RandomIds,  \* what ip_randomid() may return
  IfId,       \* the interface
  MaxFlows,   \* bound: packets that begin a flow
  MaxSteps    \* bound: packets handled

TCP == 6
UDP == 17
ICMP == 1
ICMPV6 == 58
PFIL_IN == 1
PFIL_OUT == 2
PFIL_ALL == 3
NPF_SRC == 1
NPF_DST == 2
NO_NETMASK == 255
NPF_FLOW_FORW == 1
NPF_FLOW_BACK == 2

BYTE == 2^B
WORD == BYTE * BYTE
Words(bytes) == [i \in 1 .. Len(bytes) \div 2 |-> bytes[2 * i - 1] + (bytes[2 * i] * BYTE)]
Bytes(words) == [i \in 1 .. 2 * Len(words) |->
                   LET w == words[(i + 1) \div 2] IN IF i % 2 = 1 THEN w % BYTE ELSE w \div BYTE]

-----------------------------------------------------------------------------
(* npf_inet.c: checksums.                                                  *)

Compl(x) == WORD - 1 - x

\* The folding that ends both of the functions below.
Folded(sum) ==
  LET s == (sum \div WORD) + (sum % WORD) IN Compl((s + (s \div WORD)) % WORD)

npf_fixup16_cksum(cksum, odatum, ndatum) == Folded(Compl(cksum) + Compl(odatum) + ndatum)

npf_fixup32_cksum(cksum, o, n) ==
  Folded(Compl(cksum) + Compl(o[1]) + n[1] + Compl(o[2]) + n[2])

npf_addr_cksum(cksum, oaddr, naddr) ==
  LET o == Words(oaddr)
      n == Words(naddr)
  IN  FoldLeft(LAMBDA c, i : npf_fixup32_cksum(c, <<o[2*i - 1], o[2*i]>>, <<n[2*i - 1], n[2*i]>>),
               cksum, [i \in 1 .. Len(o) \div 2 |-> i])

-----------------------------------------------------------------------------
(* npf_inet.c: addresses.                                                  *)

\* How many bits of a byte the mask covers.
MaskBits(mask, i) == LET n == mask - B * (i - 1) IN IF n < 0 THEN 0 ELSE IF n > B THEN B ELSE n
HostPart(byte, n) == byte % 2^(B - n)

npf_addr_mask(addr, mask) ==
  [i \in DOMAIN addr |-> addr[i] - HostPart(addr[i], MaskBits(mask, i))]

npf_addr_bitor(addr, mask, out) ==
  [i \in DOMAIN addr |-> out[i] | HostPart(addr[i], MaskBits(mask, i))]

\* The exclusive or of the 32-bit words, here byte by byte.
npf_addr_mix(a1, a2) ==
  LET mix(i) == FoldLeft(LAMBDA x, a : x ^^ a[i], 0,
                         FlattenSeq([w \in 1 .. Len(a1) \div 4 |->
                           <<SubSeq(a1, 4*w - 3, 4*w), SubSeq(a2, 4*w - 3, 4*w)>>]))
  IN  FoldLeft(LAMBDA n, i : n * BYTE + mix(i), 0, <<4, 3, 2, 1>>)

npf_addr_cmp(addr1, addr2, mask) ==
  IF mask = NO_NETMASK THEN addr1 = addr2 ELSE npf_addr_mask(addr1, mask) = npf_addr_mask(addr2, mask)

npf_netmask_check(alen, mask) == mask <= alen * B \/ mask = NO_NETMASK

-----------------------------------------------------------------------------
(* NPTv6: the adjustment that npfctl computes, in 32-bit arithmetic, and   *)
(* its use.                                                                *)

RECURSIVE Fold16(_)
Fold16(sum) == IF sum < WORD THEN sum ELSE Fold16((sum \div WORD) + (sum % WORD))

PrefixSum(len, addr) ==
  LET w == Words(addr)
      preflen == len \div (2 * B)
      bits == IF len % (2 * B) = 0 THEN 0 ELSE w[preflen + 1] % 2^(len % (2 * B))
  IN  Fold16(FoldLeft(+, bits, SubSeq(w, 1, preflen)))

npfctl_npt66_calcadj(len, pref_in, pref_out) ==
  Fold16((PrefixSum(len, pref_in) + (WORD * WORD - 1 - PrefixSum(len, pref_out))) % (WORD * WORD))

\* The word to adjust; 0 if the address is not translated.
npt66_word(addr, len) ==
  LET w == Words(addr)
      host == Range(SubSeq(addr, 9, 16))
  IN  CASE len <= 6 * B -> IF w[4] = WORD - 1 THEN 0 ELSE 4
        [] len > 6 * B /\ host \in {{0}, {BYTE - 1}} -> 0
        [] OTHER -> CHOOSE i \in 5..8 : w[i] # WORD - 1 /\ \A j \in 5 .. i - 1 : w[j] = WORD - 1

\* The new address.
npf_npt66_rwr(addr, pref, len, adj) ==
  LET w == Words(addr)
      p == Words(pref)
      preflen == len \div (2 * B)
      remnant == len % (2 * B)
      new == [i \in 1..8 |->
                CASE i <= preflen -> p[i]
                  [] i = preflen + 1 /\ remnant # 0 -> (p[i] % 2^remnant) + (w[i] - (w[i] % 2^remnant))
                  [] OTHER -> w[i]]
      word == npt66_word(addr, len)
      sum == Fold16(new[word] + adj)
  IN  Bytes([new EXCEPT ![word] = IF sum = WORD - 1 THEN 0 ELSE sum])

-----------------------------------------------------------------------------
(* Packets: addresses and ports are indexed by NPF_SRC and NPF_DST; an     *)
(* ICMP query has its identifier in both places.  An error carries the     *)
(* packet it is about, of which "short" leaves 8 bytes after the header.   *)

HasPorts(p) == p.proto \in {TCP, UDP}
IsIcmp(p) == p.proto \in {ICMP, ICMPV6}
Swap(pair) == <<pair[2], pair[1]>>
AddrWords(p) == Words(p.ips[1]) \o Words(p.ips[2])
IpWords(p) == IF p.alen = 4 THEN AddrWords(p) \o <<p.ttl, p.id, p.off>> ELSE AddrWords(p)
L4Words(p) == p.ids \o Words(p.opts)

\* What the L4 checksum covers; the embedded packet as it stands.
Covered(p) ==
  (IF HasPorts(p) \/ p.proto = ICMPV6 THEN AddrWords(p) ELSE <<>>)
  \o (IF p.emb = <<>> THEN L4Words(p)
      ELSE LET e == p.emb[1] IN IpWords(e) \o L4Words(e) \o <<e.ipsum, e.sum>>)
Sums(words, cksum) == Fold16(FoldLeft(+, cksum, words)) = WORD - 1
GoodIp(p) == p.alen = 16 \/ Sums(IpWords(p), p.ipsum)
GoodL4(p) == (p.proto = UDP /\ p.sum = 0) \/ Sums(Covered(p), p.sum)

\* A packet as its sender makes it.
Sealed(p) ==
  [p EXCEPT !.ipsum = Compl(Fold16(FoldLeft(+, 0, IpWords(p)))),
            !.sum = Compl(Fold16(FoldLeft(+, 0, Covered(p))))]

-----------------------------------------------------------------------------
(* npf_inet.c: rewriting.                                                  *)

npf_rwrcksum(p, which, addr, port) ==
  LET l4 == HasPorts(p) /\ ~(p.proto = UDP /\ p.sum = 0)
      withport(sum) == IF port = 0 THEN sum ELSE npf_fixup16_cksum(sum, p.ids[which], port)
  IN  [p EXCEPT !.ipsum = IF p.alen = 4 THEN npf_addr_cksum(@, p.ips[which], addr) ELSE @,
                !.sum = IF l4 THEN withport(npf_addr_cksum(@, p.ips[which], addr)) ELSE @]

npf_rwrip(p, which, addr) == [p EXCEPT !.ips[which] = addr]

npf_rwrport(p, which, port) == [p EXCEPT !.ids[which] = port]

npf_napt_rwr(p, which, addr, port) ==
  LET rwrport(q) == IF port # 0 /\ HasPorts(p) THEN npf_rwrport(q, which, port) ELSE q
  IN  rwrport(npf_rwrip(npf_rwrcksum(p, which, addr, port), which, addr))

(* TCP options: a sequence of bytes.                                       *)
EOL == 0
NOP == 1
MAXSEG == 2

\* Where the scan finds well-formed options, from offset i on.
RECURSIVE OptionsFrom(_, _)
OptionsFrom(opts, i) ==
  IF i > Len(opts) \/ opts[i] = EOL THEN <<>>
  ELSE IF opts[i] = NOP THEN OptionsFrom(opts, i + 1)
  ELSE IF i = Len(opts) \/ opts[i + 1] < 2 \/ i + opts[i + 1] - 1 > Len(opts) THEN <<>>
  ELSE <<i>> \o OptionsFrom(opts, i + opts[i + 1])

MssOptions(opts) ==
  SelectSeq(OptionsFrom(opts, 1), LAMBDA i : opts[i] = MAXSEG /\ opts[i + 1] = 4)

\* The MSS as it is in memory; 0 if there is none.
npf_fetch_tcpopts(p) ==
  LET mss == MssOptions(p.opts)
  IN  IF mss = <<>> THEN 0 ELSE p.opts[Last(mss) + 2] + (p.opts[Last(mss) + 3] * BYTE)

WordAt(opts, i) == opts[i] + (opts[i + 1] * BYTE)

npf_set_mss(p, mss) ==
  LET set(opts, i) == [opts EXCEPT ![i + 2] = mss % BYTE, ![i + 3] = mss \div BYTE]
      pair(opts, at) == IF (at + 1) % 2 = 0 THEN <<>>
                        ELSE <<WordAt(opts, at + 1), WordAt(opts, at + 3)>>
      result(opts, at) == [pkt |-> [p EXCEPT !.opts = opts],
                           old |-> pair(p.opts, at), new |-> pair(opts, at)]
  IN  result(FoldLeft(set, p.opts, MssOptions(p.opts)), Last(MssOptions(p.opts)))

-----------------------------------------------------------------------------
(* npf_ext_normalize.c.  A little-endian host swaps the bytes of a word    *)
(* that it takes from the packet as a number.                              *)

htons(x) == ((x % BYTE) * BYTE) + (x \div BYTE)
ntohs(x) == htons(x)
IP_DF == 4

npf_normalize_ip4(p, np, nid) ==
  LET id == IF np.random_id THEN nid ELSE p.id
      off == IF np.no_df THEN p.off - (p.off & IP_DF) ELSE p.off
      ttl == IF np.minttl # 0 /\ p.ttl < np.minttl THEN np.minttl ELSE p.ttl
      fix(c, o, n) == IF o = n THEN c ELSE npf_fixup16_cksum(c, o, n)
      c1 == IF np.random_id THEN npf_fixup16_cksum(p.ipsum, p.id, id) ELSE p.ipsum
  IN  [p EXCEPT !.id = id, !.off = off, !.ttl = ttl,
                !.ipsum = fix(fix(c1, p.off, off), p.ttl, ttl)]

\* Mutant: the MSS is compared in network byte order.
ClampMss_order(p, np) ==
  LET clamp(mss, maxmss) ==
        IF mss <= np.maxmss THEN p
        ELSE [npf_set_mss(p, maxmss).pkt EXCEPT !.sum = npf_fixup16_cksum(@, mss, maxmss)]
  IN  clamp(npf_fetch_tcpopts(p), htons(np.maxmss))

ClampMss(p, np) ==
  LET fixed(r, mss, maxmss) ==
        [r.pkt EXCEPT !.sum =
           IF r.old = <<>> THEN npf_fixup16_cksum(@, mss, maxmss)
           ELSE npf_fixup16_cksum(npf_fixup16_cksum(@, r.old[1], r.new[1]), r.old[2], r.new[2])]
      clamp(mss, maxmss) ==
        IF ntohs(mss) <= np.maxmss THEN p ELSE fixed(npf_set_mss(p, maxmss), mss, maxmss)
  IN  clamp(npf_fetch_tcpopts(p), htons(np.maxmss))

npf_normalize(p, np, nid) ==
  LET tcp(q) == IF np.maxmss = 0 \/ p.proto # TCP \/ ~p.syn THEN q ELSE ClampMss(q, np)
  IN  tcp(IF p.alen = 4 /\ (np.random_id \/ np.minttl # 0) THEN npf_normalize_ip4(p, np, nid) ELSE p)

-----------------------------------------------------------------------------
(* npf_connkey.c: the two words of a key, then the addresses.  The fields  *)
(* of a word do not overlap.                                               *)

npf_connkey_setkey(alen, proto, ips, ids, flow) ==
  LET isrc == IF flow = NPF_FLOW_FORW THEN NPF_SRC ELSE NPF_DST
      idst == IF flow = NPF_FLOW_FORW THEN NPF_DST ELSE NPF_SRC
  IN  <<((alen \div 4) * 2^28) + (proto * 2^20), (ids[isrc] * 2^16) + ids[idst], ips[isrc], ips[idst]>>

npf_connkey_setckey(key, ifid, di) == [key EXCEPT ![1] = @ + ifid + (di * 2^18)]

npf_connkey_getkey(key) ==
  [alen |-> (key[1] \div 2^28) * 4, proto |-> (key[1] \div 2^16) % 2^8,
   ids |-> <<key[2] \div 2^16, key[2] % 2^16>>, ips |-> <<key[3], key[4]>>]

npf_connkey_getckey(key) == [ifid |-> key[1] % 2^20, di |-> (key[1] \div 2^18) % 4]

npf_conn_adjkey(key, naddr, id, which) ==
  LET ids == CASE id = 0 -> key[2]
               [] id # 0 /\ which = NPF_SRC -> (id * 2^16) + (key[2] % 2^16)
               [] id # 0 /\ which = NPF_DST -> id + (key[2] - (key[2] % 2^16))
  IN  [key EXCEPT ![2] = ids, ![2 + which] = naddr]

\* The key of a packet; <<>> if there is none.  The identifier of an ICMP
\* query is used when the ICMP ALG has found it.
npf_conn_conkey(p, conf, qid, di, flow) ==
  IF HasPorts(p) \/ (IsIcmp(p) /\ qid)
  THEN npf_connkey_setckey(npf_connkey_setkey(p.alen, p.proto, p.ips, p.ids, flow),
                           IF conf.ifkey THEN IfId ELSE 0, IF conf.dikey THEN di ELSE 0)
  ELSE <<>>

\* An export names the interface; a name that the import does not know is
\* registered and gets the next ID.
npf_connkey_export(key) ==
  LET k == npf_connkey_getkey(key)
      c == npf_connkey_getckey(key)
  IN  [proto |-> k.proto, ids |-> k.ids, ips |-> k.ips, di |-> c.di,
       ifname |-> CASE c.ifid = 0 -> "none" [] c.ifid = IfId -> "known" [] OTHER -> "unknown"]

npf_connkey_import(nv) ==
  LET ifid == CASE nv.ifname = "none" -> 0 [] nv.ifname = "known" -> IfId [] OTHER -> IfId + 1
  IN  npf_connkey_setckey(npf_connkey_setkey(Len(nv.ips[1]), nv.proto, nv.ips, nv.ids, NPF_FLOW_FORW),
                          ifid, nv.di)

-----------------------------------------------------------------------------
(* npf_build.c: the policies of a "map" statement.  A segment has the      *)
(* addresses "net" (of a pool, or the one address of a network or a host), *)
(* a mask and a port; no address is any address.                           *)

npfctl_get_singleport(ap) == ap.port
npfctl_get_singlefam(ap) == ap.net[1]

npfctl_dnat_check(ap, algo) ==
  \/ algo = "netmap" /\ ~ap.pool
  \/ algo \in {"ip-hash", "round-robin", "none"} /\ (ap.pool \/ ap.mask = NO_NETMASK)

\* The segments of the given type.
Segments(m) == {<<t, ap>> \in {<<PFIL_IN, m.ap1>>, <<PFIL_OUT, m.ap2>>} : m.type \in {t, PFIL_ALL}}

snat_check(m) ==
  /\ \A s \in Segments(m) : ~s[2].pool
  /\ \/ m.algo = "npt66" /\ m.type = PFIL_ALL /\ m.ap1.mask = m.ap2.mask
     \/ m.algo = "netmap" /\ (m.type = PFIL_ALL => m.ap1.mask = m.ap2.mask)
     \/ m.algo = "none" /\ \A s \in Segments(m) : s[2].mask = NO_NETMASK

natseg_check(m) ==
  /\ \A s \in Segments(m) : s[2].net # <<>>
  /\ IF m.static THEN snat_check(m) ELSE \A s \in Segments(m) : npfctl_dnat_check(s[2], m.algo)

AnySegment == [net |-> <<>>, mask |-> NO_NETMASK, port |-> 0, pool |-> FALSE]

\* The filter that the statement gives, or else the one implied by a segment.
Filter(m, from, to) == IF m.fopts = <<>> THEN [from |-> from, to |-> to] ELSE m.fopts[1]

\* libnpf: the rule as the setters of a NAT policy fill it in.
nl_nat(type, flags, ap, code, algo, adj) ==
  [type |-> type, static |-> "static" \in flags, ports |-> "ports" \in flags,
   portmap |-> "portmap" \in flags, from |-> code.from, to |-> code.to,
   pool |-> IF ap.pool THEN ap.net ELSE <<>>, alen |-> Len(ap.net[1]),
   taddr |-> npfctl_get_singlefam(ap), tmask |-> ap.mask,
   tport |-> npfctl_get_singleport(ap), algo |-> algo, adj |-> adj]

npfctl_build_nat(type, ap, fopts, m, adj) ==
  LET base == CASE m.static -> {"static"}
                [] ~m.static /\ m.type # PFIL_ALL /\ ~m.noports -> {"ports", "portmap"}
                [] OTHER -> {}
      flags == IF ap.port # 0 THEN (base \ {"portmap"}) \cup {"ports"} ELSE base
  IN  nl_nat(type, flags, ap, fopts, m.algo, adj)

npfctl_build_natseg(m) ==
  LET adj == IF m.algo = "npt66"
             THEN npfctl_npt66_calcadj(m.ap1.mask, m.ap1.net[1], m.ap2.net[1]) ELSE 0
      nt1 == npfctl_build_nat(PFIL_IN, m.ap1, Filter(m, AnySegment, m.ap2), m, Compl(adj))
      nt2 == npfctl_build_nat(PFIL_OUT, m.ap2, Filter(m, m.ap1, AnySegment), m, adj)
  IN  (IF m.type # PFIL_OUT THEN <<nt1>> ELSE <<>>) \o (IF m.type # PFIL_IN THEN <<nt2>> ELSE <<>>)

\* What the kernel accepts.
npf_natpolicy_create(np) ==
  /\ np.pool # <<>> => ~np.static
  /\ np.pool = <<>> => npf_netmask_check(np.alen, np.tmask)
  /\ np.algo \notin {"npt66", "netmap"} => np.tmask = NO_NETMASK

\* The filter of a policy, which includes the family of its address.
InSegment(addr, port, p, ap) ==
  /\ ap.net = <<>> \/ \E i \in DOMAIN ap.net :
       Len(ap.net[i]) = p.alen /\ npf_addr_cmp(addr, ap.net[i], ap.mask)
  /\ ap.port = 0 \/ (HasPorts(p) /\ port = ap.port)
Applies(np, p, di) ==
  /\ np.type = di
  /\ np.pool = <<>> => np.alen = p.alen
  /\ InSegment(p.ips[NPF_SRC], p.ids[NPF_SRC], p, np.from)
  /\ InSegment(p.ips[NPF_DST], p.ids[NPF_DST], p, np.to)

-----------------------------------------------------------------------------
(* npf_nat.c: translation.                                                 *)

\* Mutant: the direction of the flow is ignored.
npf_nat_which_flow(type, flow) == IF type = PFIL_OUT THEN NPF_SRC ELSE NPF_DST

npf_nat_which(type, flow) ==
  IF type = PFIL_OUT THEN flow ELSE IF flow = NPF_FLOW_FORW THEN NPF_DST ELSE NPF_SRC

npf_nat_algo_netmap(np, addr) ==
  npf_addr_bitor(addr, np.tmask, npf_addr_mask(np.taddr, np.tmask))

\* The addresses of the pool that have the family of the packet; <<>> if none.
npf_table_getsome(np, alen, idx) ==
  LET t == SelectSeq(np.pool, LAMBDA a : Len(a) = alen)
  IN  IF t = <<>> THEN <<>> ELSE t[(idx % Len(t)) + 1]

npf_nat_getaddr(np, p, rr) ==
  npf_table_getsome(np, p.alen, IF np.algo = "round-robin" THEN rr + 1
                                ELSE npf_addr_mix(p.ips[NPF_SRC], p.ips[NPF_DST]))

TranslationAddress(np, p, rr) ==
  CASE np.pool # <<>> -> npf_nat_getaddr(np, p, rr)
    [] np.pool = <<>> /\ np.algo = "netmap" ->
         npf_nat_algo_netmap(np, p.ips[npf_nat_which(np.type, NPF_FLOW_FORW)])
    [] OTHER -> np.taddr

\* "port" is what the port map gives.
npf_nat_create(np, p, taddr, port) ==
  LET which == npf_nat_which(np.type, NPF_FLOW_FORW)
      ports == np.ports /\ HasPorts(p)
  IN  [type |-> np.type, taddr |-> taddr, oaddr |-> p.ips[which],
       oport |-> IF ports THEN p.ids[which] ELSE 0,
       tport |-> CASE ~ports -> 0 [] ports /\ np.portmap -> port [] OTHER -> np.tport]

\* <<>> if the address is not translated.
npf_snat_translate(p, np) ==
  LET which == npf_nat_which(np.type, NPF_FLOW_FORW)
      addr == p.ips[which]
  IN  CASE np.algo = "npt66" ->
             IF p.alen # 16 \/ npt66_word(addr, np.tmask) = 0 THEN <<>>
             ELSE <<npf_rwrip(p, which, npf_npt66_rwr(addr, np.taddr, np.tmask, np.adj))>>
        [] np.algo = "netmap" -> <<npf_napt_rwr(p, which, npf_nat_algo_netmap(np, addr), np.tport)>>
        [] OTHER -> <<npf_napt_rwr(p, which, np.taddr, np.tport)>>

-----------------------------------------------------------------------------
(* npf_alg_icmp.c.                                                         *)

\* "query", "error" with a packet that can be parsed, or "none".
npfa_icmp_inspect(p) ==
  CASE ~(p.alen = 4 /\ p.proto = ICMP) /\ ~(p.alen = 16 /\ p.proto = ICMPV6) -> "none"
    [] p.emb # <<>> -> IF p.short /\ p.emb[1].proto = TCP THEN "none" ELSE "error"
    [] OTHER -> p.kind

\* The cache of the embedded packet.  For IPv6, npf_cache_ip takes the
\* header at the beginning of the buffer, which is the outer one.
Embedded(p) == IF p.alen = 16 THEN [p.emb[1] EXCEPT !.ips = p.ips] ELSE p.emb[1]

npf_nat_getorig(nt) == [addr |-> nt.oaddr, port |-> nt.oport]

FixIf(cond, c, odatum, ndatum) == IF cond THEN npf_fixup16_cksum(c, odatum, ndatum) ELSE c

\* Mutant: the change of the embedded IPv4 checksum is left out.
npfa_icmp_nat_noip(p, nt, flow) ==
  LET back(e, q, o) ==
        [p EXCEPT !.emb = <<q>>,
                  !.sum = FixIf(HasPorts(e),
                            FixIf(o.port # 0, npf_addr_cksum(@, e.ips[NPF_SRC], o.addr),
                                  e.ids[NPF_SRC], o.port), e.sum, q.sum)]
      rwr(e, o) == back(e, npf_napt_rwr(e, NPF_SRC, o.addr, o.port), o)
  IN  IF flow = NPF_FLOW_FORW \/ npfa_icmp_inspect(p) # "error" THEN p
      ELSE rwr(Embedded(p), npf_nat_getorig(nt))

npfa_icmp_nat(p, nt, flow) ==
  LET sum(e, q, o) ==
        FixIf(e.proto = TCP \/ (e.proto = UDP /\ e.sum # 0),
          FixIf(p.alen = 4,
            FixIf(o.port # 0, npf_addr_cksum(p.sum, e.ips[NPF_SRC], o.addr), e.ids[NPF_SRC], o.port),
            e.ipsum, q.ipsum), e.sum, q.sum)
      back(e, q, o) ==
        [p EXCEPT !.ips = IF p.alen = 16 THEN q.ips ELSE @,
                  !.emb = IF p.alen = 16 THEN <<[q EXCEPT !.ips = p.emb[1].ips]>> ELSE <<q>>,
                  !.sum = sum(e, q, o)]
      rwr(e, o) == back(e, npf_napt_rwr(e, NPF_SRC, o.addr, o.port), o)
  IN  IF flow = NPF_FLOW_FORW \/ npfa_icmp_inspect(p) # "error" THEN p
      ELSE rwr(Embedded(p), npf_nat_getorig(nt))

\* The translators of the ALGs that are loaded; which ALG the entry was
\* matched with does not matter.
npf_alg_exec(p, nt, alg, flow) == IF alg THEN npfa_icmp_nat(p, nt, flow) ELSE p

npf_dnat_translate(p, nt, alg, flow) ==
  LET to == IF flow = NPF_FLOW_FORW THEN [addr |-> nt.taddr, port |-> nt.tport] ELSE npf_nat_getorig(nt)
  IN  npf_napt_rwr(npf_alg_exec(p, nt, alg, flow), npf_nat_which(nt.type, flow), to.addr, to.port)

-----------------------------------------------------------------------------
VARIABLES
  map,     \* the "map" statement
  conf,    \* the rest of the configuration
  conns,   \* connections: keys, direction, interface, translation; "dead" once removed
  rr,      \* the round robin index of the policy
  log      \* the packets: what came in, where it was headed, what went out

vars == <<map, conf, conns, rr, log>>

Policies == npfctl_build_natseg(map)
Live == {c \in DOMAIN conns : ~conns[c].dead}

\* The keys in the database.
Keys(cs) == UNION {{cs[c].fw, cs[c].bk} : c \in {d \in DOMAIN cs : ~cs[d].dead}}

\* npf_conndb_lookup and npf_conn_check.  0 if there is no connection.
npf_conn_lookup(key, di) ==
  LET flow(c) == IF key = conns[c].fw THEN NPF_FLOW_FORW ELSE NPF_FLOW_BACK
      pflow(c) == IF conns[c].di = di THEN NPF_FLOW_FORW ELSE NPF_FLOW_BACK
      check(c) == IF conns[c].ifid # 0 /\ (flow(c) # pflow(c) \/ conns[c].ifid # IfId) THEN 0 ELSE c
      found == {c \in Live : key \in {conns[c].fw, conns[c].bk}}
  IN  IF key = <<>> \/ found = {} THEN 0 ELSE check(CHOOSE c \in found : TRUE)

\* The ALG's lookup for the embedded packet, inverted.
npfa_icmp_conn(p, di) ==
  LET e == Embedded(p)
      inv == [e EXCEPT !.ips = Swap(@), !.ids = IF HasPorts(e) THEN Swap(@) ELSE @]
  IN  IF npfa_icmp_inspect(p) = "error" /\ (IsIcmp(e) => e.kind = "query" /\ e.emb = <<>>)
      THEN npf_conn_lookup(npf_conn_conkey(inv, conf, TRUE, di, NPF_FLOW_FORW), di) ELSE 0

Qid(p) == conf.alg /\ npfa_icmp_inspect(p) = "query"

npf_alg_conn(p, di) == IF conf.alg THEN npfa_icmp_conn(p, di) ELSE 0

npf_conn_inspect(p, di) ==
  LET alg(c) == IF c # 0 THEN c
                ELSE npf_conn_lookup(npf_conn_conkey(p, conf, Qid(p), di, NPF_FLOW_FORW), di)
  IN  alg(npf_alg_conn(p, di))

\* A new connection; <<>> if the packet has no key or one of the keys is taken.
npf_conn_establish(p, di, global) ==
  LET new(fw, bk) ==
        IF fw = <<>> \/ {fw, bk} \cap Keys(conns) # {} \/ fw = bk THEN <<>>
        ELSE <<[fw |-> fw, bk |-> bk, di |-> di, ifid |-> IF global THEN IfId ELSE 0,
                nat |-> <<>>, dead |-> FALSE]>>
  IN  new(npf_conn_conkey(p, conf, Qid(p), di, NPF_FLOW_FORW),
          npf_conn_conkey(p, conf, Qid(p), PFIL_ALL - di, NPF_FLOW_BACK))

Init ==
  /\ map \in {m \in Maps : natseg_check(m) /\ \A i \in DOMAIN npfctl_build_natseg(m) :
                             npf_natpolicy_create(npfctl_build_natseg(m)[i])}
  /\ conf \in Confs
  /\ conns = <<>>
  /\ rr = [t \in {PFIL_IN, PFIL_OUT} |-> 0]
  /\ log = <<>>

\* The rule procedure runs on what the translation leaves.
Passed(x, q, nat, con) ==
  \E nid \in (IF conf.norm # <<>> /\ conf.norm[1].random_id THEN RandomIds ELSE {0}) :
    log' = Append(log, [kind |-> x.kind, of |-> x.of, di |-> x.di, in |-> x.pkt, nat |-> nat, con |-> con,
                        out |-> <<IF conf.norm = <<>> THEN q ELSE npf_normalize(q, conf.norm[1], nid)>>])

Dropped(x) ==
  log' = Append(log, [kind |-> x.kind, of |-> x.of, di |-> x.di, in |-> x.pkt, nat |-> "none",
                      con |-> 0, out |-> <<>>])

\* The first policy that applies; <<>> if none does.
npf_nat_inspect(x) == SelectSeq(Policies, LAMBDA np : Applies(np, x.pkt, x.di))

\* npf_do_nat: the packet of a connection with a translation.
HasNat(con) == con \in DOMAIN conns /\ conns[con].nat # <<>>
nat_existing(x, con) ==
  /\ HasNat(con)
  /\ LET nt == conns[con].nat[1]
         flow == IF nt.type = x.di THEN NPF_FLOW_FORW ELSE NPF_FLOW_BACK
     IN  Passed(x, npf_dnat_translate(x.pkt, nt, conf.alg, flow), "dynamic", con)
  /\ UNCHANGED <<map, conf, conns, rr>>

\* npf_do_nat: no policy.
nat_none(x, est, con) ==
  /\ Passed(x, x.pkt, "none", con)
  /\ conns' = conns \o est
  /\ UNCHANGED <<map, conf, rr>>

\* npf_do_nat: static translation.
nat_static(x, est, np) ==
  /\ np.static
  /\ \E q \in {npf_snat_translate(x.pkt, np)} :
       IF q = <<>> THEN Dropped(x) ELSE Passed(x, q[1], "static", 0)
  /\ conns' = conns \o est
  /\ UNCHANGED <<map, conf, rr>>

\* npf_portmap_get: a port that no entry with the address has; 0 if none.
npf_portmap_get(taddr) ==
  LET used == {conns[c].nat[1].tport : c \in {d \in Live : conns[d].nat # <<>> /\ conns[d].nat[1].taddr = taddr}}
  IN  IF NatPorts \subseteq used THEN {0} ELSE NatPorts \ used

\* Mutant: the key is replaced whether or not another connection has it.
npf_conn_setnat_any(cs, c, nt) ==
  LET bk == npf_conn_adjkey(cs[c].bk, nt.taddr, nt.tport, IF nt.type = PFIL_OUT THEN NPF_DST ELSE NPF_SRC)
  IN  [cs EXCEPT ![c].bk = bk, ![c].nat = <<nt>>]

\* npf_conn_setnat: the connections, with the backwards key adjusted; the
\* connection is removed if another one has that key.
npf_conn_setnat(cs, c, nt) ==
  LET bk == npf_conn_adjkey(cs[c].bk, nt.taddr, nt.tport, IF nt.type = PFIL_OUT THEN NPF_DST ELSE NPF_SRC)
      others == Keys([cs EXCEPT ![c].dead = TRUE]) \cup {cs[c].fw}
  IN  IF bk \in others THEN [cs EXCEPT ![c].dead = TRUE]
      ELSE [cs EXCEPT ![c].bk = bk, ![c].nat = <<nt>>]

\* npf_do_nat: a new translation, for the connection of the packet or for
\* one made for it.
nat_dynamic(x, est, prior, np) ==
  /\ ~np.static
  /\ \E made \in {IF prior = 0 THEN npf_conn_establish(x.pkt, x.di, TRUE) ELSE <<>>} :
     \E taddr \in {TranslationAddress(np, x.pkt, rr[np.type])} :
       LET cs == conns \o est \o made
           con == IF made # <<>> THEN Len(cs) ELSE prior
       IN  /\ rr' = IF con # 0 /\ np.pool # <<>> /\ np.algo = "round-robin"
                    THEN [rr EXCEPT ![np.type] = @ + 1] ELSE rr
           /\ \/ con = 0 /\ Dropped(x) /\ conns' = cs
              \/ con # 0 /\ taddr = <<>> /\ Dropped(x)
                 /\ conns' = IF made # <<>> THEN [cs EXCEPT ![con].dead = TRUE] ELSE cs
              \/ /\ con # 0 /\ taddr # <<>>
                 /\ \E port \in IF np.portmap THEN npf_portmap_get(taddr) ELSE {0} :
                    \E nt \in {npf_nat_create(np, x.pkt, taddr, port)} :
                      /\ conns' = npf_conn_setnat(cs, con, nt)
                      /\ IF conns'[con].dead THEN Dropped(x)
                         ELSE Passed(x, npf_dnat_translate(x.pkt, nt, conf.alg, NPF_FLOW_FORW),
                                     "dynamic", con)
  /\ UNCHANGED <<map, conf>>

\* npfk_packet_handler: the connection of the packet, after a stateful rule
\* has made one if need be, and npf_do_nat.
Established(x, found) ==
  IF found # 0 \/ conf.state = "none" THEN <<>>
  ELSE npf_conn_establish(x.pkt, x.di, conf.state = "interface")
Handled(x) ==
  \E found \in {npf_conn_inspect(x.pkt, x.di)} :
  \E est \in {Established(x, found)} :
    LET con == IF est # <<>> THEN Len(conns) + 1 ELSE found
    IN  \/ nat_existing(x, con)
        \/ /\ ~HasNat(con)
           /\ \E nps \in {npf_nat_inspect(x)} :
                \/ nps = <<>> /\ nat_none(x, est, con)
                \/ nps # <<>> /\ nat_static(x, est, nps[1])
                \/ nps # <<>> /\ nat_dynamic(x, est, con, nps[1])

-----------------------------------------------------------------------------
(* The traffic.                                                            *)

\* A packet of the family of the statement: no policy applies to another one.
First(p, di) ==
  /\ p.alen = Len(map.ap2.net[1])
  /\ Cardinality({i \in DOMAIN log : log[i].kind = "first"}) < MaxFlows
  /\ Handled([kind |-> "first", of |-> 0, di |-> di, pkt |-> p])

Mirror(p) == Sealed([p EXCEPT !.ips = Swap(@), !.ids = Swap(@), !.opts = <<>>, !.syn = FALSE])

\* What a packet i that has been forwarded may be answered with.
Answerable(i) == log[i].kind = "first" /\ log[i].out # <<>>

Reply(i) ==
  /\ Answerable(i)
  /\ Handled([kind |-> "reply", of |-> i, di |-> PFIL_ALL - log[i].di, pkt |-> Mirror(log[i].out[1])])

IcmpError(router, p, short) ==
  Sealed([p EXCEPT !.proto = IF p.alen = 4 THEN ICMP ELSE ICMPV6, !.ips = <<router, p.ips[NPF_SRC]>>,
                   !.ids = <<0, 0>>, !.opts = <<>>, !.syn = FALSE, !.kind = "error",
                   !.emb = <<p>>, !.short = short])

Error(i, router, short) ==
  /\ Answerable(i)
  /\ Len(router) = log[i].in.alen
  /\ Handled([kind |-> "error", of |-> i, di |-> PFIL_ALL - log[i].di,
              pkt |-> IcmpError(router, log[i].out[1], short)])

\* The worker removes an idle connection; its port goes back.
Expire(c) ==
  /\ c \in Live
  /\ conns' = [conns EXCEPT ![c].dead = TRUE]
  /\ UNCHANGED <<map, conf, rr, log>>

Next ==
  /\ Len(log) < MaxSteps
  /\ \/ \E x \in Packets : First(x.pkt, x.di)
     \/ \E i \in DOMAIN log : Reply(i)
     \/ \E i \in DOMAIN log, r \in Routers, short \in BOOLEAN : Error(i, r, short)
     \/ \E c \in DOMAIN conns : Expire(c)

Spec == Init /\ [][Next]_vars

-----------------------------------------------------------------------------
(* Properties.                                                             *)

Tuple(p) == <<p.ips, p.ids>>

\* Where the code is known not to keep a checksum: ICMPv6 covers the
\* addresses and npf_rwrcksum leaves it; the adjustment of NPTv6 is one too
\* small when the sum of the inner prefix is the larger one.
ChecksumKnownBad(e) ==
  \/ e.in.proto = ICMPV6 /\ e.out[1].ips # e.in.ips
  \/ map.algo = "npt66" /\ PrefixSum(map.ap1.mask, map.ap1.net[1]) > PrefixSum(map.ap1.mask, map.ap2.net[1])

\* Every packet that came with valid checksums leaves with valid ones: the
\* incremental updates of npf_rwrcksum, npfa_icmp_nat, npf_normalize_ip4,
\* the MSS clamping and the neutral adjustment of NPTv6 agree with the sum
\* over the whole packet.
ValidOut ==
  \A i \in DOMAIN log : LET e == log[i] IN
    e.out # <<>> /\ ~ChecksumKnownBad(e) => GoodIp(e.out[1]) /\ GoodL4(e.out[1])

\* Packet i belongs to a translation that is still there, or to a pair of
\* static policies.
Returnable(e) ==
  \/ e.nat = "dynamic" /\ e.con \in Live /\ conns[e.con].nat[1].type = e.di
  \/ e.nat = "static" /\ map.type = PFIL_ALL

AnswerReturns(e) ==
  e.kind = "reply" /\ Returnable(log[e.of])
    => e.out # <<>> /\ Tuple(e.out[1]) = <<Swap(log[e.of].in.ips), Swap(log[e.of].in.ids)>>

\* An error with 8 bytes of a TCP header is not recognised.
ErrorReturns(e) ==
  /\ e.kind = "error" /\ log[e.of].nat = "dynamic" /\ Returnable(log[e.of]) /\ conf.alg
  /\ log[e.of].di = PFIL_OUT /\ e.in.alen = 4 /\ ~(e.in.short /\ e.in.emb[1].proto = TCP)
  => /\ e.out # <<>> /\ e.out[1].ips[NPF_DST] = log[e.of].in.ips[NPF_SRC]
     /\ LET emb == e.out[1].emb[1]
        IN  Tuple(emb) = Tuple(log[e.of].in) /\ GoodIp(emb) /\ GoodL4(emb)

\* The answer to a translated packet is found through the backwards key of
\* the connection (or the other policy of a static pair) and is translated
\* back: it leaves from the address and the port the first packet was sent
\* to, for the ones it was sent from.  An error that a router reports about a
\* translated outbound IPv4 packet reaches the sender, and the packet it
\* carries is the one that was sent.
ReplyReturns == \A i \in DOMAIN log : AnswerReturns(log[i]) /\ ErrorReturns(log[i])

\* While their translations live, two packets that leave through them have
\* the same addresses and ports outside exactly when they have the same ones
\* inside: npf_conn_setnat refuses a second connection with the same
\* backwards key, and a repeated packet finds the first one.
FlowKept ==
  \A i, j \in DOMAIN log :
    /\ \A e \in {log[i], log[j]} : e.kind = "first" /\ e.nat = "dynamic" /\ Returnable(e)
    /\ log[i].in.proto = log[j].in.proto
    => (Tuple(log[i].in) = Tuple(log[j].in)) <=> (Tuple(log[i].out[1]) = Tuple(log[j].out[1]))

\* A packet that leaves through a normalisation procedure has what the
\* procedure asks for.  npf_normalize runs the IPv4 part only if random-id or
\* min-ttl is given, so that "no-df" alone is not in the property.
Normalised ==
  \A i \in DOMAIN log : LET e == log[i] IN
    e.out # <<>> /\ conf.norm # <<>> =>
      LET np == conf.norm[1]
          q == e.out[1]
      IN  /\ q.alen = 4 /\ (np.random_id \/ np.minttl # 0) =>
               (np.no_df => q.off & IP_DF = 0) /\ q.ttl >= np.minttl
          /\ q.proto = TCP /\ q.syn /\ np.maxmss # 0 => ntohs(npf_fetch_tcpopts(q)) <= np.maxmss

\* The key layout at the head of npf_connkey.c: a key that is exported and
\* imported again is the same key.
KeysImported ==
  \A c \in Live : \A key \in {conns[c].fw, conns[c].bk} : npf_connkey_import(npf_connkey_export(key)) = key
====
