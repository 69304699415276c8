------------------------------- MODULE NpfBpf --------------------------------
(***************************************************************************)
(* The filter of a rule: npfctl compiles it into a BPF program             *)
(* (npf_build.c, npf_bpf_comp.c), the kernel validates the program and     *)
(* runs it on a packet (npf_bpf.c, bpf_filter.c).                          *)
(*                                                                         *)
(* A packet is a sequence of cells, one per header field that a filter can *)
(* test; offsets count cells.  An address has Words words of Bits bits if  *)
(* it is an IPv6 address, one word if it is an IPv4 address.               *)
(***************************************************************************)
EXTENDS Integers, Sequences, SequencesExt, Bitwise

CONSTANTS
  Bits, Words,      \* size of a word, words of an IPv6 address
  JUMP_MAGIC,       \* the longest offset of a conditional jump: not patched yet
  Table             \* per table ID, the addresses in it

AF_UNSPEC == 0
AF_INET == 4
AF_INET6 == 6
TCP == 1
UDP == 2
ICMP == 3
SYN == 1
ACK == 2
NO_NETMASK == Bits * Words + 1

-----------------------------------------------------------------------------
(* npf_bpf_comp.c: the context, and what appends to it.                    *)

Stmt(op, k) == [op |-> op, k |-> k, jt |-> 0, jf |-> 0]
Jump(op, k, jt, jf) == [op |-> op, k |-> k, jt |-> jt, jf |-> jf]

npfctl_bpf_create ==
  [insns |-> <<>>, nblocks |-> 0, af |-> AF_UNSPEC, flags |-> {}, err |-> "",
   ingroup |-> FALSE, invert |-> FALSE, goff |-> 0, gblock |-> 0, invflags |-> {}, marks |-> <<>>]

add_insns(ctx, insns) == [ctx EXCEPT !.insns = @ \o insns]

\* The marks tell "npfctl show" what the program tests.
BM(mark, src) == [m |-> mark, src |-> src]
add_bmarks(ctx, bm, value) == [ctx EXCEPT !.marks = Append(@, <<bm, value>>)]
done_block(ctx, bm, value) == [add_bmarks(ctx, bm, value) EXCEPT !.nblocks = @ + 1]

\* A jump of the value JUMP_MAGIC is made to go behind the last of the
\* instructions; inside a group, the two jumps are exchanged.
FixedJump(insn, fail_off, swap) ==
  IF insn.op = "ja"
  THEN IF insn.k = JUMP_MAGIC THEN [insn EXCEPT !.k = IF swap THEN 0 ELSE fail_off] ELSE insn
  ELSE LET byte == fail_off % (JUMP_MAGIC + 1)
           jt == IF insn.jt = JUMP_MAGIC THEN byte ELSE insn.jt
           jf == IF insn.jf = JUMP_MAGIC THEN byte ELSE insn.jf
           seen_magic == JUMP_MAGIC \in {insn.jt, insn.jf}
       IN  IF swap /\ seen_magic THEN [insn EXCEPT !.jt = jf, !.jf = jt]
           ELSE [insn EXCEPT !.jt = jt, !.jf = jf]

\* Mutant: one too far.
JumpsFixed_far(insns, start, end, swap) ==
  [i \in DOMAIN insns |->
     IF i \in start + 1 .. end /\ insns[i].op \in {"ja", "jeq", "jgt", "jge"}
     THEN FixedJump(insns[i], end - (i - 1) + 1, swap) ELSE insns[i]]

\* Patches the instructions start + 1 .. end.
JumpsFixed(insns, start, end, swap) ==
  [i \in DOMAIN insns |->
     IF i \in start + 1 .. end /\ insns[i].op \in {"ja", "jeq", "jgt", "jge"}
     THEN FixedJump(insns[i], end - (i - 1), swap) ELSE insns[i]]

fixup_jumps(ctx, start, end, swap) ==
  [ctx EXCEPT !.err = IF end - start >= JUMP_MAGIC THEN "limit" ELSE @,
              !.insns = JumpsFixed(ctx.insns, start, end, swap)]

npfctl_bpf_complete(ctx) ==
  IF ctx.insns = <<>> THEN ctx
  ELSE fixup_jumps(add_insns(ctx, <<Stmt("ret", 1), Stmt("ret", 0)>>), 0, Len(ctx.insns), FALSE)

npfctl_bpf_group_enter(ctx, invert) ==
  [ctx EXCEPT !.goff = Len(ctx.insns), !.gblock = ctx.nblocks, !.invert = invert, !.ingroup = TRUE]

\* Mutant: a group of two elements is taken for a single one.
npfctl_bpf_group_exit_two(ctx) ==
  LET out == [ctx EXCEPT !.ingroup = FALSE, !.goff = 0, !.gblock = 0]
      skip == IF ctx.invert THEN <<Stmt("ja", 1)>> ELSE <<>>
  IN  IF ~ctx.invert /\ ctx.nblocks - ctx.gblock <= 2 THEN out
      ELSE fixup_jumps(add_insns(out, skip \o <<Stmt("ret", 0)>>), ctx.goff, Len(ctx.insns), TRUE)

npfctl_bpf_group_exit(ctx) ==
  LET out == [ctx EXCEPT !.ingroup = FALSE, !.goff = 0, !.gblock = 0]
      skip == IF ctx.invert THEN <<Stmt("ja", 1)>> ELSE <<>>
  IN  IF ~ctx.invert /\ ctx.nblocks - ctx.gblock <= 1 THEN out
      ELSE fixup_jumps(add_insns(out, skip \o <<Stmt("ret", 0)>>), ctx.goff, Len(ctx.insns), TRUE)

\* The check of the IP version, before the group if one was begun; X gets the
\* offset of the layer 4 header if wanted.
MarkVersion(ctx, af) == IF af # AF_UNSPEC THEN add_bmarks(ctx, BM("ipver", FALSE), af) ELSE ctx
TestVersion(ctx, af) ==
  LET jt == IF af # AF_UNSPEC THEN 0 ELSE JUMP_MAGIC
      jf == IF af # AF_UNSPEC THEN JUMP_MAGIC ELSE 0
  IN  MarkVersion([add_insns(ctx, <<Stmt("ld_mem", "ver"), Jump("jeq", af, jt, jf)>>) EXCEPT
                     !.flags = @ \cup {"FETCHED_L3"}, !.af = af], af)
FetchVersion(ctx, af) ==
  IF ~ctx.ingroup THEN TestVersion(ctx, af)
  ELSE [npfctl_bpf_group_enter(TestVersion(npfctl_bpf_group_exit(ctx), af), ctx.invert) EXCEPT
          !.err = IF ctx.nblocks # ctx.gblock THEN "assert" ELSE @]
FetchL4Off(ctx, l4off) ==
  IF l4off /\ "X_EQ_L4OFF" \notin ctx.flags
  THEN [add_insns(ctx, <<Stmt("ldx_mem", "l4off")>>) EXCEPT !.flags = @ \cup {"X_EQ_L4OFF"}]
  ELSE ctx
fetch_l3(ctx, af, l4off) ==
  FetchL4Off(CASE "FETCHED_L3" \notin ctx.flags \/ (af # AF_UNSPEC /\ ctx.af = AF_UNSPEC) ->
                    FetchVersion(ctx, af)
               [] "FETCHED_L3" \in ctx.flags /\ af # AF_UNSPEC /\ ctx.af \notin {AF_UNSPEC, af} ->
                    [ctx EXCEPT !.err = "family"]
               [] OTHER -> ctx, l4off)

\* An inverted side is marked once.
bm_invert_checkpoint(ctx, src) ==
  IF ctx.ingroup /\ ctx.invert /\ src \notin ctx.invflags
  THEN [add_bmarks(ctx, BM("neg", src), 0) EXCEPT !.invflags = @ \cup {src}]
  ELSE ctx

npfctl_bpf_proto(ctx, proto) ==
  done_block([add_insns(ctx, <<Stmt("ld_mem", "proto"), Jump("jeq", proto, 0, JUMP_MAGIC)>>)
                EXCEPT !.flags = @ \cup {"CHECKED_L4_PROTO"}], BM("proto", FALSE), proto)

\* Where the addresses and the layer 4 header are in a packet.
AddrLen(af) == IF af = AF_INET THEN 1 ELSE Words
AddrOff(af, src) == IF src THEN 1 ELSE 1 + AddrLen(af)
HdrLen(af) == 1 + 2 * AddrLen(af)

\* The tests of the words of a prefix.
WordMask(length) == 2^Bits - 2^(Bits - length)

CidrWord(off, word, length) ==
  CASE length >= Bits -> <<Stmt("ld_abs", off), Jump("jeq", word, 0, JUMP_MAGIC)>>
    [] length > 0 /\ length < Bits ->
         <<Stmt("ld_abs", off), Stmt("and", WordMask(length)), Jump("jeq", word, 0, JUMP_MAGIC)>>
    [] OTHER -> <<>>

npfctl_bpf_cidr(ctx, src, e) ==
  LET length == IF e.mask = NO_NETMASK THEN Bits * AddrLen(e.af) ELSE e.mask
      word(i) == CidrWord(AddrOff(e.af, src) + i - 1, e.addr[i], length - Bits * (i - 1))
      code == add_insns(fetch_l3(ctx, e.af, FALSE),
                        FlattenSeq([i \in 1..AddrLen(e.af) |-> word(i)]))
  IN  done_block(bm_invert_checkpoint(code, src), BM("cidr", src), e)

npfctl_bpf_ports(ctx, src, e) ==
  LET tests == IF e.lo = e.hi THEN <<Jump("jeq", e.lo, 0, JUMP_MAGIC)>>
               ELSE <<Jump("jge", e.lo, 0, 1), Jump("jgt", e.hi, 0, 1), Stmt("ja", JUMP_MAGIC)>>
  IN  done_block(add_insns(fetch_l3(ctx, AF_UNSPEC, TRUE),
                           <<Stmt("ld_ind", IF src THEN 0 ELSE 1)>> \o tests),
                 BM("ports", src), e)

\* Only if the protocol was not checked before, other protocols pass.
npfctl_bpf_tcpfl(ctx, tf, mask) ==
  LET usingmask == mask # tf
      proto == IF "CHECKED_L4_PROTO" \in ctx.flags THEN <<>>
               ELSE <<Stmt("ld_mem", "proto"), Jump("jeq", TCP, 0, IF usingmask THEN 3 ELSE 2)>>
      load == <<Stmt("ld_ind", 2)>> \o (IF usingmask THEN <<Stmt("and", mask)>> ELSE <<>>)
  IN  done_block(add_insns(fetch_l3(ctx, AF_UNSPEC, TRUE),
                           proto \o load \o <<Jump("jeq", tf, 0, JUMP_MAGIC)>>),
                 BM("tcpfl", FALSE), <<tf, mask>>)

npfctl_bpf_icmp(ctx, type, code) ==
  LET test(c, off, v) == IF v = -1 THEN c
        ELSE done_block(add_insns(c, <<Stmt("ld_ind", off), Jump("jeq", v, 0, JUMP_MAGIC)>>),
                        BM(IF off = 0 THEN "icmp_type" ELSE "icmp_code", FALSE), v)
  IN  test(test(fetch_l3(ctx, AF_UNSPEC, TRUE), 0, type), 1, code)

npfctl_bpf_table(ctx, src, tid) ==
  LET code == add_insns(ctx, <<Stmt("ld_imm", <<src, tid>>), Stmt("cop", "table"),
                               Jump("jeq", 0, JUMP_MAGIC, 0)>>)
  IN  done_block(bm_invert_checkpoint(code, src), BM("table", src), tid)

-----------------------------------------------------------------------------
(* npf_build.c: npfctl_build_code.  A filter is                            *)
(*   [af, protos, stateful, from, finvert, to, tinvert, sports, dports]    *)

Refuse(ctx, why) == [ctx EXCEPT !.err = why]

\* The address of an interface that is not of the family is skipped.
Skipped(family, e) == e.t = "fam" /\ family # AF_UNSPEC /\ family # e.af

npfctl_build_fam(ctx, family, src, e) ==
  CASE Skipped(family, e) -> IF e.ifindex THEN ctx ELSE Refuse(ctx, "family")
    [] ~Skipped(family, e) /\ e.mask = 0 -> IF \A i \in DOMAIN e.addr : e.addr[i] = 0 THEN ctx ELSE Refuse(ctx, "never")
    [] OTHER -> npfctl_bpf_cidr(ctx, src, e)

npfctl_build_var(ctx, family, src, e) ==
  CASE e.t = "fam" -> npfctl_build_fam(ctx, family, src, e)
    [] e.t = "ports" -> npfctl_bpf_ports(ctx, src, e)
    [] e.t = "table" -> npfctl_bpf_table(ctx, src, e.tid)
npfctl_build_vars(ctx, family, vars, src, invert) ==
  npfctl_bpf_group_exit(FoldLeft(LAMBDA c, e : npfctl_build_var(c, family, src, e),
                                 npfctl_bpf_group_enter(ctx, invert), vars))

npfctl_build_proto_opts(ctx, op) ==
  CASE op.opts = <<>> -> ctx
    [] op.proto = TCP /\ op.opts # <<>> -> npfctl_bpf_tcpfl(ctx, op.opts[1], op.opts[2])
    [] op.proto = ICMP /\ op.opts # <<>> -> npfctl_bpf_icmp(ctx, op.opts[1], op.opts[2])
npfctl_build_proto_block(ctx, op) == npfctl_build_proto_opts(npfctl_bpf_proto(ctx, op.proto), op)

npfctl_build_proto(ctx, protos) ==
  CASE Len(protos) = 1 -> npfctl_build_proto_block(ctx, protos[1])
    [] \E i \in DOMAIN protos : Len(protos) > 1 /\ protos[i].opts # <<>> -> Refuse(ctx, "options")
    [] OTHER -> npfctl_bpf_group_exit(FoldLeft(npfctl_build_proto_block,
                                               npfctl_bpf_group_enter(ctx, FALSE), protos))

\* npfctl_check_proto: what the last TCP element says.
tcp_with_nofl(f) == \E i \in DOMAIN f.protos : f.protos[i].proto = TCP /\ f.protos[i].opts = <<>>
non_tcpudp(f) == \E i \in DOMAIN f.protos : f.protos[i].proto \notin {TCP, UDP}

any_ports(f) == f.sports # <<>> \/ f.dports # <<>>

\* The steps of npfctl_build_code, in the order of the program.
CheckedPorts(f) ==
  IF any_ports(f) /\ non_tcpudp(f) THEN Refuse(npfctl_bpf_create, "ports") ELSE npfctl_bpf_create
WithFamily(ctx, f) == IF f.af # AF_UNSPEC THEN fetch_l3(ctx, f.af, FALSE) ELSE ctx
WithProtos(ctx, f) == IF f.protos # <<>> THEN npfctl_build_proto(ctx, f.protos) ELSE ctx
WithStateful(ctx, f) ==
  IF f.stateful /\ (f.protos = <<>> \/ tcp_with_nofl(f)) THEN npfctl_bpf_tcpfl(ctx, SYN, SYN + ACK)
  ELSE ctx
WithAddrs(ctx, f) ==
  npfctl_build_vars(npfctl_build_vars(ctx, f.af, f.from, TRUE, f.finvert), f.af, f.to, FALSE, f.tinvert)
WithPortProtos(ctx, f) ==
  IF any_ports(f) /\ f.protos = <<>>
  THEN npfctl_bpf_group_exit(npfctl_bpf_proto(
         npfctl_bpf_proto(npfctl_bpf_group_enter(ctx, FALSE), TCP), UDP))
  ELSE ctx
WithPorts(ctx, f) ==
  npfctl_build_vars(npfctl_build_vars(ctx, f.af, f.sports, TRUE, FALSE), f.af, f.dports, FALSE, FALSE)

npfctl_build_code(f) ==
  npfctl_bpf_complete(
    WithPorts(WithPortProtos(WithAddrs(WithStateful(WithProtos(WithFamily(
      CheckedPorts(f), f), f), f), f), f), f))

-----------------------------------------------------------------------------
(* bpf_validate_ext: what npf_mk_singlerule accepts.                       *)

bpf_validate(prog) ==
  LET len == Len(prog) IN
  /\ len >= 1 /\ prog[len].op = "ret"
  /\ \A i \in 1..len : LET p == prog[i] IN
       CASE p.op \in {"ld_mem", "ldx_mem"} -> p.k \in {"ver", "l4off", "proto"}
         [] p.op = "ja" -> i + p.k < len
         [] p.op \in {"jeq", "jgt", "jge"} -> i + p.jt < len /\ i + p.jf < len
         [] p.op = "cop" -> p.k \in {"l3", "table"}
         [] OTHER -> p.op \in {"ld_abs", "ld_ind", "ld_imm", "and", "ret"}

-----------------------------------------------------------------------------
(* npf_bpf_prepare, bpf_filter_ext: one step per instruction.              *)

VARIABLES
  filter,   \* the filter of the rule
  pkt,      \* the packet: [ver, proto, cells, src, dst]
  prog,     \* the program, <<>> if there is none
  vm        \* [pc, A, X, ret]

bpfVars == <<filter, pkt, prog, vm>>

npf_bpf_prepare(p) ==
  [ver |-> p.ver, l4off |-> IF p.ver = 0 THEN 0 ELSE HdrLen(p.ver), proto |-> p.proto]

npf_cop_table(p, arg) ==
  IF p.ver # 0 /\ (IF arg[1] THEN p.src ELSE p.dst) \in Table[arg[2]] THEN 1 ELSE 0

Running == vm.ret = -1
insn == prog[vm.pc]
Continue(A, X) == vm' = [vm EXCEPT !.pc = @ + 1, !.A = A, !.X = X]
Return(v) == vm' = [vm EXCEPT !.ret = v]

\* Beyond the end of the packet, the filter does not match.
Cell(k) == IF k + 1 \in DOMAIN pkt.cells THEN Continue(pkt.cells[k + 1], vm.X) ELSE Return(0)

bpf_ld_abs ==
  /\ Running /\ insn.op = "ld_abs"
  /\ Cell(insn.k)
  /\ UNCHANGED <<filter, pkt, prog>>

bpf_ld_ind ==
  /\ Running /\ insn.op = "ld_ind"
  /\ Cell(insn.k + vm.X)
  /\ UNCHANGED <<filter, pkt, prog>>

bpf_ld_mem ==
  /\ Running
  /\ \/ insn.op = "ld_mem" /\ Continue(npf_bpf_prepare(pkt)[insn.k], vm.X)
     \/ insn.op = "ldx_mem" /\ Continue(vm.A, npf_bpf_prepare(pkt)[insn.k])
     \/ insn.op = "ld_imm" /\ Continue(insn.k, vm.X)
  /\ UNCHANGED <<filter, pkt, prog>>

bpf_alu ==
  /\ Running
  /\ \/ insn.op = "and" /\ Continue(vm.A & insn.k, vm.X)
     \/ insn.op = "cop" /\ Continue(npf_cop_table(pkt, vm.A), vm.X)
  /\ UNCHANGED <<filter, pkt, prog>>

bpf_jump ==
  /\ Running /\ insn.op \in {"ja", "jeq", "jgt", "jge"}
  /\ LET off == CASE insn.op = "ja" -> insn.k
                  [] insn.op = "jeq" -> IF vm.A = insn.k THEN insn.jt ELSE insn.jf
                  [] insn.op = "jgt" -> IF vm.A > insn.k THEN insn.jt ELSE insn.jf
                  [] insn.op = "jge" -> IF vm.A >= insn.k THEN insn.jt ELSE insn.jf
     IN  vm' = [vm EXCEPT !.pc = @ + 1 + off]
  /\ UNCHANGED <<filter, pkt, prog>>

bpf_ret ==
  /\ Running /\ insn.op = "ret"
  /\ Return(insn.k)
  /\ UNCHANGED <<filter, pkt, prog>>

\* A rule without a program matches (npf_rule_inspect).
BpfStart(f, p) ==
  \E ctx \in {npfctl_build_code(f)} :
    /\ ctx.err = ""
    /\ filter = f /\ pkt = p /\ prog = ctx.insns
    /\ vm = [pc |-> 1, A |-> 0, X |-> 0, ret |-> IF ctx.insns = <<>> THEN 1 ELSE -1]

BpfNext == bpf_ld_abs \/ bpf_ld_ind \/ bpf_ld_mem \/ bpf_alu \/ bpf_jump \/ bpf_ret

-----------------------------------------------------------------------------
(* npf_show.c: npfctl_print_filter, the filter as it is printed.           *)

mark_keyword_map ==
  <<BM("ipver", FALSE), BM("proto", FALSE), BM("tcpfl", FALSE),
    BM("icmp_type", FALSE), BM("icmp_code", FALSE)>> \o
  FlattenSeq([i \in 1..2 |-> [k \in 1..4 |-> BM(<<"neg", "cidr", "table", "ports">>[k], i = 1)]])

\* The values of one mark, in the order of the program.
scan_marks(marks, bm) ==
  LET found == SelectSeq(marks, LAMBDA x : x[1] = bm) IN [i \in DOMAIN found |-> found[i][2]]

\* What stays of the marks seen: every scan that finds its mark overwrites it.
seen_marks(marks) ==
  SelectLastInSeq(mark_keyword_map, LAMBDA bm : scan_marks(marks, bm) # <<>>)

\* Mutant: the flags are never printed.
print_tcpflags_never(marks) == <<>>

\* Flags without a protocol are those that "stateful" implies: not printed.
print_tcpflags(marks) ==
  IF scan_marks(marks, BM("proto", FALSE)) = <<>> THEN <<>> ELSE scan_marks(marks, BM("tcpfl", FALSE))

npfctl_print_filter(marks, stateful) ==
  LET of(m, src) == scan_marks(marks, BM(m, src))
      one(m) == IF of(m, FALSE) = <<>> THEN -1 ELSE of(m, FALSE)[1]
      icmp == <<one("icmp_type"), one("icmp_code")>>
      opts == CASE print_tcpflags(marks) # <<>> -> print_tcpflags(marks)[1]
                [] print_tcpflags(marks) = <<>> /\ icmp # <<-1, -1>> -> icmp
                [] OTHER -> <<>>
      neg(src) == LET n == seen_marks(marks) IN n # 0 /\ mark_keyword_map[n] = BM("neg", src)
      fams(src) == of("cidr", src)
      tids(src) == LET t == of("table", src) IN [i \in DOMAIN t |-> [t |-> "table", tid |-> t[i]]]
      protos == of("proto", FALSE)
  IN  [af |-> IF one("ipver") = -1 THEN AF_UNSPEC ELSE one("ipver"),
       protos |-> [i \in DOMAIN protos |-> [proto |-> protos[i], opts |-> opts]],
       stateful |-> stateful,
       from |-> fams(TRUE) \o tids(TRUE), finvert |-> neg(TRUE),
       to |-> fams(FALSE) \o tids(FALSE), tinvert |-> neg(FALSE),
       sports |-> of("ports", TRUE), dports |-> of("ports", FALSE)]

-----------------------------------------------------------------------------
(* What a filter means.                                                    *)

\* The leading bits of one word.
WordLen(e, i) == LET l == e.mask - Bits * (i - 1) IN IF l > Bits THEN Bits ELSE IF l < 0 THEN 0 ELSE l
Leading(word, e, i) == word \div 2^(Bits - WordLen(e, i))

AddrMatch(p, addr, e) ==
  CASE e.t = "table" -> p.ver # 0 /\ addr \in Table[e.tid]
    [] e.t = "fam" -> \/ e.mask = 0
                      \/ /\ p.ver = e.af
                         /\ \A i \in DOMAIN addr : Leading(addr[i], e, i) = Leading(e.addr[i], e, i)

\* The addresses in the filter fix the IP version.
Family(f, v) ==
  /\ f.af # AF_UNSPEC => v = f.af
  /\ \A e \in Range(f.from) \cup Range(f.to) :
       e.t = "fam" /\ ~Skipped(f.af, e) /\ e.mask # 0 => v = e.af

L4(p, i) == p.cells[HdrLen(p.ver) + i]

\* Flags without a mask, which is the same as a mask equal to them: all count.
AllFlags == 2^Bits - 1
ProtoMatch(p, op) ==
  /\ p.proto = op.proto
  /\ op.opts # <<>> =>
       IF op.proto = TCP
       THEN L4(p, 3) & (IF op.opts[1] = op.opts[2] THEN AllFlags ELSE op.opts[2]) = op.opts[1]
       ELSE \A i \in 1..2 : op.opts[i] = -1 \/ L4(p, i) = op.opts[i]

FilterMatch(f, p) ==
  LET ports == f.sports # <<>> \/ f.dports # <<>>
      flags == f.stateful /\ (f.protos = <<>> \/ tcp_with_nofl(f))
      side(vars, addr, invert) ==
        LET elems == {e \in Range(vars) : ~Skipped(f.af, e)}
        IN  elems = {} \/ (\E e \in elems : AddrMatch(p, addr, e)) # invert
      port(vars, v) == vars = <<>> \/ \E e \in Range(vars) : v \in e.lo..e.hi
  IN  /\ Family(f, p.ver)
      /\ f.protos = <<>> \/ \E op \in Range(f.protos) : ProtoMatch(p, op)
      /\ flags \/ ports => p.ver # 0
      /\ flags => (p.proto = TCP => L4(p, 3) & (SYN + ACK) = SYN)
      /\ side(f.from, p.src, f.finvert) /\ side(f.to, p.dst, f.tinvert)
      /\ ports => /\ p.proto \in {TCP, UDP}
                  /\ port(f.sports, L4(p, 1)) /\ port(f.dports, L4(p, 2))

\* Filters that are not translated to what they mean: an element of a list
\* that takes more than one test or is optimised away; an address with bits
\* behind its mask; flags among several protocols.
Several(vars, invert) == Len(vars) > 1 \/ invert
HostBits(e) == e.t = "fam" /\ \E i \in DOMAIN e.addr : e.addr[i] % 2^(Bits - WordLen(e, i)) # 0
Mistranslated(f) ==
  \/ \E side \in {<<f.from, f.finvert>>, <<f.to, f.tinvert>>} : \E e \in Range(side[1]) :
       \/ HostBits(e)
       \/ /\ e.t = "fam" /\ Several(side[1], side[2])
          /\ e.mask = 0 \/ (e.af = AF_INET6 /\ e.mask > Bits)
  \/ \E ports \in {f.sports, f.dports} :
       Len(ports) > 1 /\ \E e \in Range(ports) : e.lo # e.hi
  \/ f.stateful /\ Len(f.protos) > 1 /\ tcp_with_nofl(f)

\* The program says what the filter means, on every packet: the jumps of the
\* fragments are patched and exchanged right, whatever fragments surround
\* them, and the masks, the offsets and the implied tests are right.
FilterSound == ~Running /\ ~Mistranslated(filter) => (vm.ret = 1) = FilterMatch(filter, pkt)

\* Whatever npfctl generates, the validator of the kernel accepts: a
\* configuration that npfctl builds is not refused when it is loaded.
ProgramValid == prog # <<>> => bpf_validate(prog)

\* Not shown as it is run: an inversion, and the flags that "stateful" implies
\* next to the protocols that ports imply.
Misshown(f) ==
  \/ f.finvert \/ f.tinvert
  \/ f.stateful /\ f.protos = <<>> /\ f.sports \o f.dports # <<>>

\* What "npfctl show" prints for the rule is what the kernel runs.
ShownIsRun ==
  ~Running /\ ~Mistranslated(filter) /\ ~Misshown(filter) =>
    (vm.ret = 1) = FilterMatch(npfctl_print_filter(npfctl_build_code(filter).marks, filter.stateful), pkt)
====
