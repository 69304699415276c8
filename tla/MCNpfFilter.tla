------------------------------ MODULE MCNpfFilter ------------------------------
(***************************************************************************)
(* What decides about a packet: the filter of one rule (NpfBpf, on words   *)
(* of two bits, one or two words per address), the nesting of the rules    *)
(* (NpfRuleset) or the state of its connection (NpfStateTcp).  The three   *)
(* share no state; a behaviour is one of them, and only that one is        *)
(* scheduled.                                                              *)
(***************************************************************************)
EXTENDS NpfBpf, NpfRuleset, MCNpfStateTcp

MCTable == [t \in {1} |-> {<<1>>, <<2>>, <<1, 2>>}]

Fam(af, addr, mask) == [t |-> "fam", af |-> af, addr |-> addr, mask |-> mask, ifindex |-> FALSE]
Elems == {Fam(AF_INET, <<2>>, NO_NETMASK), Fam(AF_INET, <<2>>, 1), Fam(AF_INET, <<3>>, 1),
          Fam(AF_INET, <<0>>, 0), Fam(AF_INET, <<1>>, 0),
          [Fam(AF_INET, <<1>>, NO_NETMASK) EXCEPT !.ifindex = TRUE],
          Fam(AF_INET6, <<1, 2>>, NO_NETMASK), Fam(AF_INET6, <<1, 2>>, 3), Fam(AF_INET6, <<1, 0>>, 2),
          Fam(AF_INET6, <<2, 0>>, 1),
          [t |-> "table", tid |-> 1]}
Ports(lo, hi) == [t |-> "ports", lo |-> lo, hi |-> hi]
PortElems == {Ports(1, 1), Ports(2, 3), Ports(2, 2)}
Proto(pr, opts) == [proto |-> pr, opts |-> opts]

Lists(S, n) == UNION {[1..k -> S] : k \in 0..n}
ProtoLists == {<<>>, <<Proto(TCP, <<>>)>>, <<Proto(TCP, <<SYN, SYN + ACK>>)>>,
               <<Proto(TCP, <<SYN, SYN>>)>>, <<Proto(UDP, <<>>)>>, <<Proto(ICMP, <<1, -1>>)>>,
               <<Proto(ICMP, <<1, 2>>)>>, <<Proto(TCP, <<>>), Proto(UDP, <<>>)>>,
               <<Proto(TCP, <<>>), Proto(ICMP, <<1, 2>>)>>, <<Proto(UDP, <<>>), Proto(ICMP, <<>>)>>}
AnyFilter == [af |-> AF_UNSPEC, protos |-> <<>>, stateful |-> FALSE,
              from |-> <<>>, finvert |-> FALSE, to |-> <<>>, tinvert |-> FALSE,
              sports |-> <<>>, dports |-> <<>>]

\* Lists of addresses on both sides; ports and protocols around them.
Filters ==
  {[AnyFilter EXCEPT !.af = a, !.from = l, !.finvert = i, !.to = d, !.dports = p] :
     a \in {AF_UNSPEC, AF_INET}, l \in Lists(Elems, 2), i \in BOOLEAN,
     d \in {<<>>, <<Fam(AF_INET, <<2>>, NO_NETMASK)>>}, p \in {<<>>, <<Ports(1, 1)>>}}
  \cup
  {[AnyFilter EXCEPT !.protos = o, !.stateful = s, !.to = l, !.tinvert = l # <<>> /\ i,
                     !.sports = p, !.dports = q] :
     o \in ProtoLists, s \in BOOLEAN, l \in Lists({Fam(AF_INET, <<2>>, 1), [t |-> "table", tid |-> 1]}, 1),
     i \in BOOLEAN, p \in Lists(PortElems, 1), q \in Lists(PortElems, 2)}

Packet(v, s, d, pr, l4) ==
  [ver |-> v, proto |-> pr, src |-> s, dst |-> d, cells |-> <<v>> \o s \o d \o l4]
Packets ==
  {[ver |-> 0, proto |-> 0, src |-> <<>>, dst |-> <<>>, cells |-> <<0>>],
   Packet(AF_INET, <<1>>, <<2>>, UDP, <<1, 3>>), Packet(AF_INET, <<3>>, <<1>>, ICMP, <<1, 2>>),
   Packet(AF_INET, <<2>>, <<1>>, ICMP, <<1, 3>>), Packet(AF_INET, <<2>>, <<2>>, 4, <<>>),
   Packet(AF_INET6, <<1, 2>>, <<1, 2>>, TCP, <<2, 1, SYN>>),
   Packet(AF_INET6, <<1, 1>>, <<2, 2>>, UDP, <<2, 2>>), Packet(AF_INET6, <<3, 2>>, <<0, 0>>, ICMP, <<2, 2>>)}
  \cup {Packet(AF_INET, <<s>>, <<d>>, TCP, <<1, d, fl>>) : s \in 0..3, d \in {1, 2}, fl \in {SYN, SYN + ACK}}

MkHead(ifid, di, code) == [ifid |-> ifid, di |-> di, code |-> code]
MCHeads == {MkHead(0, {"in", "out"}, TRUE), MkHead(2, {"in"}, TRUE)}
MCSubsets == {<<[head |-> h, final |-> FALSE]>> : h \in MCHeads}

VARIABLE part

NoFilter ==
  /\ filter = AnyFilter /\ pkt = (CHOOSE p \in Packets : p.ver = 0)
  /\ prog = <<>> /\ vm = [pc |-> 1, A |-> 0, X |-> 0, ret |-> -1]
NoFlow == TcpInit /\ proto = "GRE" /\ iss = CHOOSE i \in Isses : TRUE

FilterInit ==
  \/ /\ part = "filter" /\ Init /\ NoFlow
     /\ \E f \in {g \in Filters : npfctl_build_code(g).err = ""} : \E p \in Packets : BpfStart(f, p)
  \/ part = "ruleset" /\ Init /\ NoFilter /\ NoFlow
  \/ part = "flow" /\ Init /\ NoFilter /\ TcpInit

FilterNext ==
  \/ part = "filter" /\ BpfNext /\ UNCHANGED <<part, vars, tcpVars>>
  \/ part = "ruleset" /\ Next /\ UNCHANGED <<part, bpfVars, tcpVars>>
  \/ part = "flow" /\ TcpNext /\ UNCHANGED <<part, vars, bpfVars>>

FilterSpec ==
  /\ FilterInit /\ [][FilterNext]_<<part, vars, bpfVars, tcpVars>>
  /\ \A f \in Flows : /\ WF_tcpVars(part = "flow" /\ Retransmit(f))
                       /\ WF_tcpVars(part = "flow" /\ Acknowledge(f))

\* "npfctl show" prints what is run: the filter of a rule (ShownIsRun of
\* NpfBpf) and the nesting of the rules (ShownNesting of NpfRuleset).
ShownAsRun == ShownIsRun /\ ShownNesting
====
