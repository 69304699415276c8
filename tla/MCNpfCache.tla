------------------------------ MODULE MCNpfCache ------------------------------
EXTENDS NpfCache

Ip4(len, frag) == [t |-> "ip4", len |-> len, frag |-> frag]
Ip6 == [t |-> "ip6", len |-> Ip6Len]
Opt == [t |-> "opt", len |-> ExtLen]
Frag(more) == [t |-> "frag", len |-> ExtLen, frag |-> more]
Tcp(len) == [t |-> "tcp", len |-> len]
Udp == [t |-> "udp", len |-> 1]
Icmp(t) == [t |-> t, len |-> 1]
Data == [t |-> "data", len |-> 1]

MCFrames ==
  {<<Ip4(2, FALSE), l4, Data>> : l4 \in {Tcp(1), Tcp(2), Tcp(3), Udp, Icmp("icmpq"), Icmp("icmperr"), Data}}
  \cup {<<Ip4(1, FALSE), Udp>>, <<Ip4(3, FALSE), Tcp(3)>>, <<Ip4(2, TRUE), Tcp(3)>>}
  \cup {<<Ip6>> \o e \o <<l4>> : e \in {<<>>, <<Opt>>, <<Frag(FALSE)>>, <<Frag(TRUE)>>,
                                        <<Opt, Frag(FALSE), Frag(FALSE)>>}, l4 \in {Tcp(3), Udp, Data}}
  \cup {<<Ip4(2, FALSE), Icmp("icmperr"), ip>> \o l4 :
          ip \in {Ip4(2, FALSE), Ip4(3, FALSE), Ip4(2, TRUE)},
          l4 \in {<<Udp>>, <<Icmp("icmpq"), Data>>, <<Icmp("icmperr"), Ip4(2, FALSE)>>, <<Data>>}}
  \cup {<<Ip6, Icmp("icmperr"), Ip6, Udp>>}
====
