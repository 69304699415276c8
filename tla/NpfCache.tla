------------------------------- MODULE NpfCache -------------------------------
(***************************************************************************)
(* The packet buffer and the header cache: npf_mbuf.c, npf_cache_ip() to   *)
(* npf_recache() in npf_inet.c, npf_reassembly() in npf_handler.c, and the *)
(* operations that move in the buffer while a packet is handled: the TCP   *)
(* options, the MSS clamping and the inspection of ICMP errors.            *)
(*                                                                         *)
(* A packet is a row of headers; lengths count units of the shortest       *)
(* header.  It lies in a chain of blocks (mbufs), each with an identity,   *)
(* and a cached pointer is a block and an offset in it: rearranging the    *)
(* chain moves the data to another block and leaves the old pointers       *)
(* dangling.                                                               *)
(***************************************************************************)
EXTENDS Integers, Sequences, FiniteSets, SequencesExt

CONSTANTS
  Frames,     \* the packets received: rows of headers
  Cuts,       \* how many units may be missing at the end of a packet
  MaxBlocks,  \* the longest chain received
  MaxUses    \* bound: operations on one packet

VARIABLES
  frame,      \* [hdrs, plen]: the packet and its length
  params,     \* the parameters ip4/ip6 drop_options and reassembly
  nbuf,       \* [chain, m, off, reset, next]: nbuf_t over the chain
  npc,        \* npf_cache_t of the packet
  stage,      \* where npfk_packet_handler is
  embedded,   \* what the last use of the cache of an embedded packet saw
  misread,    \* the last npf_cache_all() restarted on something else than IP
  kept,       \* the last npf_recache() found the layers it had before
  steps

cvars == <<frame, params, nbuf, npc, stage, embedded, misread, kept, steps>>

NULL == <<>>
Ip4Len == 2
Ip6Len == 3
ExtLen == 1
TcpLen == 2
L4Len == [tcp |-> TcpLen, udp |-> 1, icmpq |-> 1, icmperr |-> 1]

\* NBUF_ENSURE_ROUNDUP, with an alignment of four units.
NBUF_ENSURE_ALIGN == 4
NBUF_ENSURE_ROUNDUP(x) == NBUF_ENSURE_ALIGN * ((x \div NBUF_ENSURE_ALIGN) + 1)

-----------------------------------------------------------------------------
(* The chain of blocks.                                                     *)

m_length(chain) == FoldLeft(LAMBDA n, b : n + b.len, 0, chain)
Index(nb, id) == CHOOSE i \in DOMAIN nb.chain : nb.chain[i].id = id
Before(chain, i) == m_length(SubSeq(chain, 1, i - 1))

\* Where in the packet a pointer points to; -1 if its block is no more there.
Resolve(nb, p) ==
  IF p = NULL \/ ~\E i \in DOMAIN nb.chain : nb.chain[i].id = p[1] THEN -1
  ELSE Before(nb.chain, Index(nb, p[1])) + p[2]

\* The length that is contiguous at a pointer.
Contiguous(nb, p) == nb.chain[Index(nb, p[1])].len - p[2]

\* m_ensure_contig, the operation of the host system.  It fails, extends the
\* first block, puts a new one in front or copies everything into one block.
Drop(chain, n) ==
  FoldLeft(LAMBDA a, b : IF a.n >= b.len THEN [a EXCEPT !.n = @ - b.len]
                         ELSE [n |-> 0, s |-> Append(a.s, [b EXCEPT !.len = @ - a.n])],
           [n |-> n, s |-> <<>>], chain).s
m_ensure_contig(nb, target, how) ==
  CASE how = "fail" \/ target > m_length(nb.chain) -> nb
    [] how = "whole" /\ target <= m_length(nb.chain) ->
         [nb EXCEPT !.chain = <<[id |-> nb.next, len |-> m_length(@)]>>, !.next = @ + 1]
    [] OTHER ->
         [nb EXCEPT !.chain = <<[id |-> IF how = "grow" THEN @[1].id ELSE nb.next, len |-> target]>>
                                \o Drop(@, target),
                    !.next = IF how = "grow" THEN @ ELSE @ + 1]
Hows == {"fail", "grow", "new", "whole"}

nbuf_reset(nb) == [nb EXCEPT !.m = nb.chain[1].id, !.off = 0]
nbuf_init(chain, next) ==
  nbuf_reset([chain |-> chain, m |-> 0, off |-> 0, reset |-> FALSE, next |-> next])
nbuf_dataptr(nb) == <<nb.m, nb.off>>
nbuf_offset(nb) == Resolve(nb, nbuf_dataptr(nb))

\* Results carry the buffer and the pointer; NULL when it cannot be done.
EnsureTarget(nb, want) ==
  IF NBUF_ENSURE_ROUNDUP(want) > m_length(nb.chain) THEN want ELSE NBUF_ENSURE_ROUNDUP(want)
Rearranged(nb, moved, foff, reset) ==
  IF moved = nb THEN [nb |-> nb, p |-> NULL]
  ELSE [nb |-> [moved EXCEPT !.m = moved.chain[1].id, !.off = foff, !.reset = reset],
        p |-> <<moved.chain[1].id, foff>>]
EnsureFrom(nb, foff, len, how, reset) ==
  Rearranged(nb, m_ensure_contig(nb, EnsureTarget(nb, foff + len), how), foff, reset)

\* Mutant: NBUF_DATAREF_RESET is not set.
nbuf_ensure_contig_noflag(nb, len, how) ==
  IF Contiguous(nb, nbuf_dataptr(nb)) >= len THEN [nb |-> nb, p |-> nbuf_dataptr(nb)]
  ELSE EnsureFrom(nb, nbuf_offset(nb), len, how, nb.reset)
nbuf_ensure_contig(nb, len, how) ==
  IF Contiguous(nb, nbuf_dataptr(nb)) >= len THEN [nb |-> nb, p |-> nbuf_dataptr(nb)]
  ELSE EnsureFrom(nb, nbuf_offset(nb), len, how, TRUE)

\* Moves on by len; a position at the very end of the chain is invalid too.
Positions(nb, pos) ==
  {[nb EXCEPT !.m = nb.chain[j].id, !.off = pos - Before(nb.chain, j)] :
     j \in {i \in Index(nb, nb.m)..Len(nb.chain) :
              Before(nb.chain, i) <= pos /\ pos < Before(nb.chain, i + 1)}}
EnsureAt(new, ensure, how) ==
  IF ensure = 0 THEN [nb |-> new, p |-> nbuf_dataptr(new)] ELSE nbuf_ensure_contig(new, ensure, how)
AdvanceTo(nb, to, ensure, how) ==
  IF to = {} THEN [nb |-> nb, p |-> NULL] ELSE EnsureAt(CHOOSE new \in to : TRUE, ensure, how)
nbuf_advance(nb, len, ensure, how) ==
  AdvanceTo(nb, Positions(nb, nbuf_offset(nb) + len), ensure, how)

-----------------------------------------------------------------------------
(* What the packet holds.                                                   *)

Offset(i) == FoldLeft(LAMBDA n, h : n + h.len, 0, SubSeq(frame.hdrs, 1, i - 1))
NoHeader == [t |-> "data", len |-> 0]
Header(i) == IF i \in DOMAIN frame.hdrs THEN frame.hdrs[i] ELSE NoHeader
\* The number of the header that starts where the buffer is; 0 if none does.
FirstOf(at) == IF at = {} THEN 0 ELSE CHOOSE i \in at : TRUE
Here(nb) == LET off == nbuf_offset(nb) IN FirstOf({i \in DOMAIN frame.hdrs : Offset(i) = off})

Flags4 == {"IP4", "IP6"}
NoCache == [ip |-> NULL, l4 |-> NULL, hlen |-> 0, proto |-> "data", info |-> {}]
Fails(nb, c) == [nb |-> nb, npc |-> c, flags |-> {"FMTERR"}]

-----------------------------------------------------------------------------
(* npf_cache_ip.                                                            *)

Ip4Cached(a, c, i) ==
  IF a.p = NULL THEN Fails(a.nb, c)
  ELSE [nb |-> a.nb,
        npc |-> [c EXCEPT !.ip = a.p, !.hlen = Header(i).len, !.proto = Header(i + 1).t],
        flags |-> {"IP4"} \cup (IF Header(i).frag THEN {"IPFRAG"} ELSE {})]
Ip4First(f, c, i, how) ==
  IF f.p = NULL \/ Header(i).len < Ip4Len \/ (Header(i).len # Ip4Len /\ params.drop_options)
  THEN Fails(f.nb, c)
  ELSE Ip4Cached(nbuf_ensure_contig(f.nb, Header(i).len, how), c, i)
cache_ip4(nb, c, how) == Ip4First(nbuf_ensure_contig(nb, Ip4Len, how), c, Here(nb), how)

\* The chain of IPv6 extension headers, from the one of length hlen before
\* the protocol npc_proto.
RECURSIVE cache_ext(_, _, _, _, _)
ExtHeader(b, c, i, seen, how) ==
  CASE \/ c.proto = "opt" /\ params.drop_options
       \/ c.proto = "frag" /\ seen -> Fails(b, c)
    [] c.proto = "frag" /\ ~seen /\ Header(i).frag -> [nb |-> b, npc |-> c, flags |-> {"IPFRAG"}]
    [] c.proto \notin {"opt", "frag"} -> [nb |-> b, npc |-> c, flags |-> {}]
    [] OTHER -> cache_ext(b, [c EXCEPT !.hlen = @ + Header(i).len, !.proto = Header(i + 1).t],
                          Header(i).len, seen \/ c.proto = "frag", how)
ExtAt(e, c, seen, how) ==
  IF e.p = NULL THEN Fails(e.nb, c) ELSE ExtHeader(e.nb, c, Here(e.nb), seen, how)
cache_ext(nb, c, hlen, seen, how) == ExtAt(nbuf_advance(nb, hlen, ExtLen, how), c, seen, how)

\* The pointer is taken after a reset, at the start of the whole packet, and
\* the offset restored only then.
Ip6Pointer(r, head, off, how) ==
  IF "FMTERR" \in r.flags THEN r
  ELSE [nb |-> IF off = 0 THEN head ELSE nbuf_advance(head, off, 0, how).nb,
        npc |-> [r.npc EXCEPT !.ip = nbuf_dataptr(head)],
        flags |-> r.flags \cup {"IP6"}]
Ip6Cached(r, off, how) == Ip6Pointer(r, nbuf_reset(r.nb), off, how)
Ip6First(f, c, i, how) ==
  IF f.p = NULL THEN Fails(f.nb, c)
  ELSE Ip6Cached(cache_ext(f.nb, [c EXCEPT !.hlen = Ip6Len, !.proto = Header(i + 1).t],
                           Ip6Len, FALSE, how),
                 nbuf_offset(f.nb), how)
cache_ip6(nb, c, how) == Ip6First(nbuf_ensure_contig(nb, Ip6Len, how), c, Here(nb), how)

\* Any other bytes pass for what their first four bits say.
Junk == {"neither", "malformed", "IPv4"}
cache_junk(nb, c, junk) ==
  CASE junk = "neither" -> [nb |-> nb, npc |-> c, flags |-> {}]
    [] junk = "malformed" -> Fails(nb, c)
    [] junk = "IPv4" -> [nb |-> nb, npc |-> [c EXCEPT !.ip = nbuf_dataptr(nb), !.hlen = Ip4Len,
                                                      !.proto = "data"],
                         flags |-> {"IP4"}]

IpVersion(nb) == Header(Here(nb)).t
CacheVersion(ver, nb, c, how, junk) ==
  CASE ver = "ip4" -> cache_ip4(nb, c, how)
    [] ver = "ip6" -> cache_ip6(nb, c, how)
    [] OTHER -> cache_junk(nb, c, junk)
npf_cache_ip(nb, c, how, junk) == CacheVersion(IpVersion(nb), nb, c, how, junk)

\* The layer 4 header; npf_cache_tcp and the other cases of npf_cache_all.
L4At(a, c) ==
  IF c.proto = "tcp" /\ (a.p = NULL \/ Header(Here(a.nb)).len < TcpLen) THEN Fails(a.nb, c)
  ELSE [nb |-> a.nb, npc |-> [c EXCEPT !.l4 = a.p], flags |-> {"LAYER4", c.proto}]
cache_l4(nb, c, how) ==
  IF c.proto \notin DOMAIN L4Len THEN [nb |-> nb, npc |-> c, flags |-> {}]
  ELSE L4At(nbuf_advance(nb, c.hlen, L4Len[c.proto], how), c)

\* npf_cache_all.  When the chain was rearranged it starts again, from where
\* the buffer is by then.
RECURSIVE npf_cache_all(_, _, _, _)
Info(x, flags, mis) ==
  [nb |-> [x.nb EXCEPT !.reset = FALSE], npc |-> [x.npc EXCEPT !.info = @ \cup flags],
   flags |-> flags, misread |-> mis]
Layer4(l4, flags, mis, how, junk) ==
  CASE l4.flags # {} /\ l4.npc.l4 = NULL -> Info(l4, {"FMTERR"}, mis)
    [] (l4.flags = {} \/ l4.npc.l4 # NULL) /\ l4.nb.reset -> npf_cache_all(l4.nb, l4.npc, how, junk)
    [] OTHER -> Info(l4, flags \cup l4.flags, mis)
Layer3(r, mis, how, junk) ==
  IF r.flags \cap Flags4 = {} \/ r.flags \cap {"IPFRAG", "FMTERR"} # {} THEN Info(r, r.flags, mis)
  ELSE Layer4(cache_l4(r.nb, r.npc, how), r.flags, mis, how, junk)
npf_cache_all(nb, c, how, junk) ==
  Layer3(npf_cache_ip([nb EXCEPT !.reset = FALSE], c, how, junk),
         IpVersion(nb) \notin {"ip4", "ip6"}, how, junk)

Again(r, info) ==
  [nb |-> r.nb, npc |-> r.npc, misread |-> r.misread,
   kept |-> info \cap (Flags4 \cup {"LAYER4"}) \subseteq r.flags]
npf_recache(nb, c, how, junk) ==
  Again(npf_cache_all(nbuf_reset(nb), [c EXCEPT !.info = {}], how, junk), c.info)

Recached(r) ==
  /\ nbuf' = r.nb /\ npc' = r.npc /\ misread' = r.misread
  /\ kept' = (kept /\ (misread \/ r.kept))

-----------------------------------------------------------------------------
(* npfk_packet_handler, up to the ruleset.                                  *)

\* A packet of the given length in up to MaxBlocks blocks.
Chains(plen, from) ==
  UNION {{[i \in 1..n |-> [id |-> from + i, len |-> s[i]]] :
            s \in {t \in [1..n -> 1..plen] : FoldLeft(+, 0, t) = plen}} : n \in 1..MaxBlocks}
Length(hdrs) == FoldLeft(LAMBDA n, h : n + h.len, 0, hdrs)
Lengths(hdrs) == {n \in {Length(hdrs) - k : k \in Cuts} : n > 0}

CacheInit ==
  /\ frame \in UNION {{[hdrs |-> f, plen |-> n] : n \in Lengths(f)} : f \in Frames}
  /\ params \in [drop_options : BOOLEAN, reassembly : BOOLEAN]
  /\ \E c \in Chains(frame.plen, 0) : nbuf = nbuf_init(c, MaxBlocks + 1)
  /\ npc = NoCache
  /\ stage = "new" /\ embedded = NULL /\ misread = FALSE /\ kept = TRUE /\ steps = 0

Keep == UNCHANGED <<frame, params>>

cache_packet ==
  /\ stage = "new"
  /\ \E how \in Hows, junk \in Junk : \E r \in {npf_cache_all(nbuf, npc, how, junk)} :
       /\ nbuf' = r.nb /\ npc' = r.npc /\ misread' = r.misread
       /\ stage' = CASE "FMTERR" \in r.flags -> "out"
                     [] r.flags \cap {"IPFRAG", "FMTERR"} = {"IPFRAG"} -> "fragment"
                     [] OTHER -> "run"
  /\ UNCHANGED <<embedded, kept, steps>> /\ Keep

\* The packet of which the headers are those of a fragment, put together.
Whole(hdrs) ==
  [i \in DOMAIN hdrs |-> IF hdrs[i].t \in {"ip4", "frag"} THEN [hdrs[i] EXCEPT !.frag = FALSE]
                         ELSE hdrs[i]]

npf_reassembly ==
  /\ stage = "fragment"
  /\ IF ~params.reassembly
     THEN stage' = "run" /\ UNCHANGED <<frame, nbuf, npc, misread>>
     ELSE \/ stage' = "out" /\ UNCHANGED <<frame, nbuf, npc, misread>>
          \/ /\ frame' = [hdrs |-> Whole(frame.hdrs), plen |-> Length(frame.hdrs)]
             /\ \E c \in Chains(Length(frame.hdrs), nbuf.next) :
                  nbuf' = nbuf_init(c, nbuf.next + MaxBlocks + 1)
             /\ npc' = [npc EXCEPT !.info = {}]
             /\ stage' = "whole" /\ UNCHANGED misread
  /\ UNCHANGED <<params, embedded, kept, steps>>

cache_whole ==
  /\ stage = "whole"
  /\ \E how \in Hows, junk \in Junk : \E r \in {npf_cache_all(nbuf, npc, how, junk)} :
       /\ nbuf' = r.nb /\ npc' = r.npc /\ misread' = r.misread
       /\ stage' = IF r.flags \cap {"IPFRAG", "FMTERR"} # {} THEN "out" ELSE "run"
  /\ UNCHANGED <<embedded, kept, steps>> /\ Keep

-----------------------------------------------------------------------------
(* What connections, NAT and the rule procedures do with the packet.        *)

Running == stage = "run" /\ steps < MaxUses /\ steps' = steps + 1 /\ UNCHANGED stage /\ Keep

\* npf_fetch_tcpopts and npf_set_mss: the options as one contiguous piece.
\* The count of their units comes from the cached TCP header.
Options(nb, c) == Header(Here(nbuf_advance(nbuf_reset(nb), c.hlen, 0, "fail").nb)).len - TcpLen
fetch_options(nb, c, how) == nbuf_advance(nbuf_reset(nb), c.hlen + TcpLen, Options(nb, c), how)

tcpopts ==
  /\ Running /\ "tcp" \in npc.info
  /\ Options(nbuf, npc) > 0
  /\ \E how \in Hows, junk \in Junk : \E o \in {fetch_options(nbuf, npc, how)} :
       IF o.nb.reset THEN \E r \in {npf_recache(o.nb, npc, how, junk)} : Recached(r)
       ELSE nbuf' = o.nb /\ UNCHANGED <<npc, misread, kept>>
  /\ UNCHANGED embedded

\* npf_dnat_translate caches the packet again after the ALGs.
translate ==
  /\ Running /\ npc.info \cap Flags4 # {}
  /\ \E how \in Hows, junk \in Junk : \E r \in {npf_recache(nbuf, npc, how, junk)} : Recached(r)
  /\ UNCHANGED embedded

\* npfa_icmp{4,6}_inspect: into the packet behind an ICMP header.
InsideCached(r) ==
  [nb |-> r.nb, npc |-> r.npc, ok |-> "LAYER4" \in r.flags, misread |-> r.misread]
Inside(a, type, how, junk) ==
  IF type # "icmperr" \/ a.p = NULL
  THEN [nb |-> a.nb, npc |-> NoCache, ok |-> type = "icmpq", misread |-> FALSE]
  ELSE InsideCached(npf_cache_all(a.nb, NoCache, how, junk))
icmp_inspect(nb, type, how, junk) == Inside(nbuf_advance(nb, L4Len.icmperr, 0, how), type, how, junk)

\* npfa_icmp_inspect, npfa_icmp_conn and npfa_icmp_nat.  The addresses and
\* ports of the embedded packet are used through the cache that was just
\* filled; the packet itself is cached again after that.
npfa_icmp ==
  /\ Running /\ npc.info \cap {"icmpq", "icmperr"} # {}
  /\ \E how \in Hows, junk \in Junk :
     \E at \in {nbuf_advance(nbuf_reset(nbuf), npc.hlen, 0, how)} :
     \E e \in {icmp_inspect(at.nb, npc.proto, how, junk)} :
       IF e.ok /\ npc.proto = "icmpq"
       THEN nbuf' = at.nb /\ UNCHANGED <<npc, misread, kept, embedded>>
       ELSE /\ embedded' = IF ~e.ok \/ e.misread \/ e.npc.proto = "icmperr" THEN NULL
                           ELSE [nb |-> e.nb, npc |-> e.npc, outer |-> Here(at.nb)]
            \* An embedded ICMP packet is looked into once more.
            /\ \E last \in {IF e.ok /\ e.npc.proto = "icmperr"
                            THEN icmp_inspect(e.nb, e.npc.proto, how, junk).nb ELSE e.nb} :
               \E r \in {npf_recache(last, npc, how, junk)} : Recached(r)

CacheNext ==
  \/ cache_packet \/ npf_reassembly \/ cache_whole
  \/ tcpopts \/ translate \/ npfa_icmp

CacheSpec == CacheInit /\ [][CacheNext]_cvars

-----------------------------------------------------------------------------
(* Correctness.                                                             *)

Points(nb, p, off, len) == Resolve(nb, p) = off /\ Contiguous(nb, p) >= len

\* While a packet is handled, the cached pointers are those of its headers in
\* the blocks that the chain has now, and each header is contiguous there:
\* npc_ip and npc_ips at the start, npc_l4 behind the IP headers.  So are
\* those that the ICMP ALG has of the packet inside an ICMPv4 error.  A packet
\* that npf_cache_all() misread after rearranging its chain is excepted.
\* npf_recache() finds every layer that was cached before (its assertion).
CachedLive ==
  /\ (stage = "run" /\ ~misread) =>
       /\ npc.info \cap Flags4 # {} =>
            Points(nbuf, npc.ip, 0, IF "IP4" \in npc.info THEN Header(1).len ELSE Ip6Len)
       /\ "LAYER4" \in npc.info => Points(nbuf, npc.l4, npc.hlen, L4Len[npc.proto])
       /\ ~nbuf.reset
  /\ embedded # NULL =>
       LET ip == embedded.outer + 1
       IN  Header(ip).t = "ip4" =>
             /\ Points(embedded.nb, embedded.npc.ip, Offset(ip), Header(ip).len)
             /\ Points(embedded.nb, embedded.npc.l4, Offset(ip + 1), L4Len[embedded.npc.proto])
  /\ kept
====
