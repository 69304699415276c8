---------------------------- MODULE MCNpfRewrite -----------------------------
(***************************************************************************)
(* Bytes of 3 bits.  The addresses and ports have bytes of all zeros and   *)
(* of all ones, so that the sums carry and wrap.                           *)
(***************************************************************************)
EXTENDS NpfRewrite

\* 192.168-like inside, the translation addresses, the peers.
In1 == <<1, 0, 7, 1>>
In2 == <<1, 0, 7, 6>>
Pub == <<7, 7, 3, 0>>
Pub2 == <<2, 7, 7, 7>>
Peer == <<5, 7, 0, 7>>
In6 == <<1, 2, 3, 4, 0, 0, 0, 5, 0, 7, 0, 0, 0, 0, 0, 1>>
In6b == <<1, 2, 3, 4, 0, 0, 0, 6, 7, 7, 3, 0, 0, 0, 0, 2>>
Pub6 == <<7, 6, 5, 4, 3, 2, 0, 1, 0, 0, 0, 0, 0, 0, 0, 1>>
Peer6 == <<5, 0, 0, 0, 7, 7, 0, 0, 0, 0, 0, 0, 0, 0, 0, 3>>
MCRouters == {<<6, 0, 0, 6>>, <<6, 0, 0, 0, 0, 0, 0, 0, 0, 0, 0, 0, 0, 0, 0, 6>>}

Host(a) == [net |-> <<a>>, mask |-> NO_NETMASK, port |-> 0, pool |-> FALSE]
Port(a, p) == [Host(a) EXCEPT !.port = p]
Net(a, m) == [Host(a) EXCEPT !.mask = m]
Pool(s) == [Host(s[1]) EXCEPT !.net = s, !.pool = TRUE]
Map(type, static, ap1, ap2, algo) ==
  [type |-> type, static |-> static, noports |-> FALSE, ap1 |-> ap1, ap2 |-> ap2, fopts |-> <<>>, algo |-> algo]

MCMaps ==
  {Map(PFIL_OUT, FALSE, Net(In1, 3 * B), Host(Pub), "none"),
   [Map(PFIL_OUT, FALSE, Net(In1, 3 * B), Host(Pub), "none") EXCEPT !.noports = TRUE],
   Map(PFIL_OUT, FALSE, Net(In1, 3 * B), Pool(<<Pub, Pub2>>), "round-robin"),
   Map(PFIL_OUT, FALSE, AnySegment, Pool(<<Pub, Pub2>>), "ip-hash"),
   Map(PFIL_OUT, FALSE, Net(In1, 3 * B), Net(Pub2, 3 * B - 1), "netmap"),
   Map(PFIL_IN, FALSE, Port(In1, 9), Port(Pub, 11), "none"),
   Map(PFIL_ALL, FALSE, Host(In1), Host(Pub), "none"),
   Map(PFIL_ALL, TRUE, Host(In1), Host(Pub), "none"),
   Map(PFIL_ALL, TRUE, Net(In1, 3 * B), Net(Pub2, 3 * B), "netmap"),
   Map(PFIL_OUT, TRUE, Net(In1, 3 * B), Net(Pub2, 3 * B), "netmap"),
   Map(PFIL_ALL, TRUE, Net(In6, 6 * B), Net(Pub6, 6 * B), "npt66"),
   Map(PFIL_ALL, TRUE, Net(In6, 7 * B), Net(Pub6, 7 * B), "npt66"),
   Map(PFIL_ALL, TRUE, Net(Pub6, 8 * B), Net(In6, 8 * B), "npt66"),
   Map(PFIL_OUT, FALSE, Net(In6, 4 * B), Host(Pub6), "none"),
   Map(PFIL_ALL, FALSE, Host(In1), Net(Pub, 3 * B), "none"),
   [Map(PFIL_OUT, FALSE, Net(In1, 3 * B), Host(Pub), "none") EXCEPT
      !.fopts = <<[from |-> AnySegment, to |-> Port(Peer, 9)]>>]}

Norm(r, d, t, m) == <<[random_id |-> r, no_df |-> d, minttl |-> t, maxmss |-> m]>>
Conf(state, alg, ifkey, dikey, norm) ==
  [state |-> state, alg |-> alg, ifkey |-> ifkey, dikey |-> dikey, norm |-> norm]
MCConfs ==
  {Conf("none", TRUE, TRUE, TRUE, <<>>),
   Conf("interface", TRUE, FALSE, FALSE, Norm(TRUE, TRUE, 0, 20)),
   Conf("global", TRUE, FALSE, TRUE, Norm(FALSE, TRUE, 5, 9)),
   Conf("interface", FALSE, TRUE, FALSE, <<>>)}

Packet(src, dst, proto, ids, opts) ==
  Sealed([alen |-> Len(src), proto |-> proto, ips |-> <<src, dst>>, ids |-> ids, opts |-> opts,
          syn |-> opts # <<>>, ttl |-> 3, id |-> 62, off |-> 4, ipsum |-> 0, sum |-> 0,
          kind |-> IF proto \in {ICMP, ICMPV6} THEN "query" ELSE "none", emb |-> <<>>, short |-> FALSE])
NoSum(p) == [p EXCEPT !.sum = 0]

MCPackets ==
  {[di |-> PFIL_OUT, pkt |-> p] : p \in
     {Packet(In1, Peer, TCP, <<9, 9>>, <<2, 4, 3, 7, 1, 3, 3, 6>>),
      Packet(In1, Peer, TCP, <<10, 9>>, <<1, 2, 4, 7, 0, 3, 3, 0>>),
      Packet(In2, Peer, TCP, <<9, 9>>, <<>>),
      Packet(In1, Peer, UDP, <<9, 63>>, <<7, 7>>),
      NoSum(Packet(In2, Peer, UDP, <<9, 63>>, <<>>)),
      Packet(In1, Peer, ICMP, <<7, 7>>, <<>>),
      Packet(In2, Peer, ICMP, <<7, 7>>, <<>>),
      Packet(In6, Peer6, TCP, <<9, 9>>, <<2, 4, 0, 7>>),
      Packet(In6b, Peer6, UDP, <<9, 9>>, <<>>),
      Packet(In6, Peer6, ICMPV6, <<7, 7>>, <<>>)}}
  \cup {[di |-> PFIL_IN, pkt |-> p] : p \in
     {Packet(Peer, Pub, TCP, <<9, 11>>, <<>>), Packet(Peer, Pub2, UDP, <<9, 11>>, <<>>)}}
=============================================================================
