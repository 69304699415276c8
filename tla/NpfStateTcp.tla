---------------------------- MODULE NpfStateTcp ------------------------------
(***************************************************************************)
(* State tracking of npf_state.c and npf_state_tcp.c: the filter between   *)
(* two TCP ends sees their segments, with sequence numbers that wrap, and  *)
(* decides which of them belong to the connection.  The ends are external: *)
(* they open, exchange data within the window, retransmit, close or reset  *)
(* as RFC 793 says.  A segment may be lost before the filter or behind it. *)
(*                                                                         *)
(* What an end sends is numbered from 0: its SYN, DataLen units of data,   *)
(* its FIN.  On the wire, unit n has sequence number (iss + n) % M.        *)
(***************************************************************************)
EXTENDS Integers, FiniteSets

CONSTANTS
  M,                 \* sequence numbers are modulo M, a power of two
  DataLen, Mss,      \* units of data of each end; and of a segment, at most
  Win, Wscale,       \* the window an end offers, unscaled, and its scale
  MaxAckWin,         \* state.tcp.max_ack_win
  Isses,             \* pairs of initial sequence numbers to try
  LossBehind,        \* flows whose segments may get lost behind the filter
  Protos

Fates == {"before", "behind", "received"}
Flows == {"forw", "back"}
Other(f) == IF f = "forw" THEN "back" ELSE "forw"

VARIABLES
  proto, iss,
  snd, una, rcv,     \* per end: next unit to send, oldest unacknowledged, next expected
  reset,             \* the ends that have given up with a RST
  tracked, nst,      \* the first packet was seen; npf_state_t
  wrongly,           \* the filter dropped a segment of the connection
  relearned          \* it took a wrapped nst_end of 0 for "not seen yet"

ends == <<snd, una, rcv, reset>>
tcpVars == <<proto, iss, ends, tracked, nst, wrongly, relearned>>

\* The comparisons are made on the difference as a signed integer.
Signed(n) == LET d == n % M IN IF d < M \div 2 THEN d ELSE d - M
SEQ_LEQ(a, b) == Signed(a - b) <= 0
SEQ_GEQ(a, b) == Signed(a - b) >= 0
SEQ_GT(a, b) == Signed(a - b) > 0

-----------------------------------------------------------------------------
(* npf_state_tcp.c                                                         *)

\* Mutant: FIN-ACK taken for an ACK.
npf_tcpfl2case_fin(fl) ==
  IF "SYN" \in fl THEN IF "ACK" \in fl THEN "SYNACK" ELSE "SYN"
  ELSE IF "ACK" \in fl THEN "ACK" ELSE "FIN"
\* Three bits of the flags index a mask of case numbers: 0 invalid, 1 SYN,
\* 2 SYN-ACK, 3 ACK, 4 FIN with or without ACK.
npf_tcpfl2case(fl) ==
  LET i == (IF "FIN" \in fl THEN 1 ELSE 0) + (IF "SYN" \in fl THEN 2 ELSE 0)
             + (IF "ACK" \in fl THEN 4 ELSE 0)
  IN  <<"INVALID", "SYN", "SYNACK", "ACK", "FIN">>[((37945664 \div 16^i) % 8) + 1]

\* The transitions of the table; every other one leads to CLOSED.
npf_tcp_fsm ==
  {<<"CLOSED", "forw", "SYN", "SYN_SENT">>,
   <<"SYN_SENT", "forw", "SYN", "OK">>,
   <<"SYN_SENT", "back", "SYNACK", "SYN_RECEIVED">>,
   <<"SYN_SENT", "back", "SYN", "SIMSYN_SENT">>,
   <<"SIMSYN_SENT", "forw", "SYN", "OK">>,
   <<"SIMSYN_SENT", "forw", "SYNACK", "SYN_RECEIVED">>,
   <<"SIMSYN_SENT", "back", "SYN", "OK">>,
   <<"SIMSYN_SENT", "back", "SYNACK", "SYN_RECEIVED">>,
   <<"SIMSYN_SENT", "back", "FIN", "FIN_RECEIVED">>,
   <<"SYN_RECEIVED", "forw", "ACK", "ESTABLISHED">>,
   <<"SYN_RECEIVED", "forw", "FIN", "FIN_SENT">>,
   <<"SYN_RECEIVED", "forw", "SYN", "OK">>,
   <<"SYN_RECEIVED", "back", "SYNACK", "OK">>,
   <<"SYN_RECEIVED", "back", "ACK", "OK">>,
   <<"SYN_RECEIVED", "back", "FIN", "FIN_RECEIVED">>,
   <<"ESTABLISHED", "forw", "FIN", "FIN_SENT">>,
   <<"ESTABLISHED", "back", "FIN", "FIN_RECEIVED">>,
   <<"FIN_SENT", "forw", "FIN", "OK">>,
   <<"FIN_SENT", "back", "ACK", "FIN_WAIT">>,
   <<"FIN_SENT", "back", "FIN", "CLOSING">>,
   <<"FIN_RECEIVED", "forw", "ACK", "CLOSE_WAIT">>,
   <<"FIN_RECEIVED", "forw", "FIN", "CLOSING">>,
   <<"FIN_RECEIVED", "back", "FIN", "OK">>,
   <<"TIME_WAIT", "forw", "SYN", "SYN_SENT">>}
  \cup {<<s, f, "ACK", "OK">> : s \in {"ESTABLISHED", "CLOSE_WAIT", "FIN_WAIT"}, f \in Flows}
  \cup {<<"FIN_SENT", "forw", "ACK", "OK">>, <<"FIN_RECEIVED", "back", "ACK", "OK">>}
  \cup {<<s, f, "FIN", "LAST_ACK">> : s \in {"CLOSE_WAIT", "FIN_WAIT"}, f \in Flows}
  \cup {<<"CLOSING", f, "ACK", "LAST_ACK">> : f \in Flows}
  \cup {<<"LAST_ACK", f, "ACK", "TIME_WAIT">> : f \in Flows}

Transition(state, f, case) ==
  LET row == {r \in npf_tcp_fsm : r[1] = state /\ r[2] = f /\ r[3] = case}
  IN  IF row = {} THEN "CLOSED" ELSE (CHOOSE r \in row : TRUE)[4]

TcpState(end, maxend, maxwin, wscale) ==
  [end |-> end % M, maxend |-> maxend % M, maxwin |-> maxwin, wscale |-> wscale]

\* The window of a segment, scaled, and at least one.
ScaledWin(st, seg) == IF seg.win = 0 THEN 1 ELSE seg.win * 2^st.wscale

SegEnd(seg) ==
  seg.seq + seg.len + Cardinality(seg.flags \cap {"SYN", "FIN"})

\* "Initialise if the first packet" and "Should be a SYN-ACK reply to SYN":
\* what the filter learns from the first segment of a direction.
FirstPacket(n, f, seg) == n.tcp[f].maxwin = 0
Learn(n, f, seg) ==
  LET win == ScaledWin(n.tcp[f], seg)
      end == SegEnd(seg)
  IN  IF FirstPacket(n, f, seg)
      THEN [n EXCEPT !.tcp[f] = TcpState(end, end, win, seg.wscale),
                     !.tcp[Other(f)] = TcpState(0, 0, 1, 0)]
      ELSE IF n.tcp[f].end = 0
      THEN [n EXCEPT !.tcp[f] = TcpState(end, end + 1, win,
                                         IF "SYN" \in seg.flags THEN seg.wscale ELSE 0)]
      ELSE n

\* "Pretend that an ACK was sent", and the workaround for a RST without one.
EffectiveAck(n, f, seg) ==
  IF "ACK" \notin seg.flags \/ ("RST" \in seg.flags /\ seg.ack = 0)
  THEN n.tcp[Other(f)].end ELSE seg.ack

\* A RST to the initial SYN may have a zero sequence number.
FixedSeq(n, f, seg) ==
  IF "RST" \in seg.flags /\ seg.seq = 0 /\ n.state = "SYN_SENT"
  THEN [seq |-> n.tcp[f].end, end |-> n.tcp[f].end]
  ELSE [seq |-> seg.seq, end |-> SegEnd(seg) % M]

\* strict_order_rst, and the boundaries I to IV of the data and of the
\* acknowledgment.  Mutant: boundary II without the window of the receiver.
InBounds_seq(n, f, seg) ==
  LET fst == n.tcp[f]  tst == n.tcp[Other(f)]  s == FixedSeq(n, f, seg) IN
  /\ SEQ_LEQ(s.end, fst.maxend)
  /\ SEQ_GEQ(s.seq, fst.end)
InBounds(n, f, seg) ==
  LET fst == n.tcp[f]  tst == n.tcp[Other(f)]
      s == FixedSeq(n, f, seg)
      ackskew == Signed(tst.end - EffectiveAck(n, f, seg))
  IN  /\ "RST" \in seg.flags => (fst.end - s.seq) % M <= 1
      /\ SEQ_LEQ(s.end, fst.maxend)
      /\ SEQ_GEQ(s.seq, fst.end - tst.maxwin)
      /\ -MaxAckWin <= ackskew /\ ackskew <= MaxAckWin * 2^fst.wscale

\* What an accepted segment moves.  Mutant: the offered window is not noted.
Noted_nowin(n, f, seg) ==
  [n EXCEPT !.tcp[f].end = IF SEQ_GT(FixedSeq(n, f, seg).end, @)
                           THEN FixedSeq(n, f, seg).end ELSE @]
Noted(n, f, seg) ==
  LET ack == EffectiveAck(n, f, seg)
      end == FixedSeq(n, f, seg).end
      win == ScaledWin(n.tcp[f], seg)
      edge == (ack + win) % M
  IN  [n EXCEPT
         !.tcp[Other(f)].end = IF Signed(@ - ack) < 0 THEN ack ELSE @,
         !.tcp[Other(f)].maxend = IF SEQ_GEQ(edge, @) THEN edge ELSE @,
         !.tcp[f].maxwin = IF @ < win THEN win ELSE @,
         !.tcp[f].end = IF SEQ_GT(end, @) THEN end ELSE @]

\* npf_tcp_inwindow: whether the segment passes, and the state behind it.
npf_tcp_inwindow(n, f, seg) ==
  LET l == Learn(n, f, seg) IN
  IF FirstPacket(n, f, seg) THEN [ok |-> TRUE, nst |-> l]
  ELSE IF InBounds(l, f, seg) THEN [ok |-> TRUE, nst |-> Noted(l, f, seg)]
  ELSE [ok |-> FALSE, nst |-> l]

\* A RST closes, but for TIME-WAIT assassination.
NextState(n, f, seg) ==
  IF "RST" \notin seg.flags THEN Transition(n.state, f, npf_tcpfl2case(seg.flags))
  ELSE IF n.state = "TIME_WAIT" THEN "OK" ELSE "CLOSED"

npf_state_tcp(n, f, seg) ==
  LET nstate == NextState(n, f, seg)
      w == npf_tcp_inwindow(n, f, seg)
  IN  IF ~w.ok \/ nstate = "OK" THEN w
      ELSE [w EXCEPT !.nst.state = nstate]

npf_state_tcp_timeout(state) ==
  CASE state \in {"SYN_SENT", "SIMSYN_SENT", "SYN_RECEIVED"} -> "new"
    [] state = "ESTABLISHED" -> "established"
    [] state \in {"FIN_SENT", "FIN_RECEIVED", "CLOSE_WAIT", "FIN_WAIT"} -> "halfclose"
    [] state \in {"CLOSED", "CLOSING", "LAST_ACK"} -> "close"
    [] state = "TIME_WAIT" -> "timewait"

-----------------------------------------------------------------------------
(* npf_state.c                                                             *)

npf_generic_fsm(state, f) ==
  CASE state = "CLOSED" -> IF f = "forw" THEN "NEW" ELSE "CLOSED"
    [] state = "NEW" -> IF f = "forw" THEN "NEW" ELSE "ESTABLISHED"
    [] state = "ESTABLISHED" -> "ESTABLISHED"

\* memset(nst, 0)
Zeroed == [state |-> "CLOSED", tcp |-> [f \in Flows |-> TcpState(0, 0, 0, 0)]]

npf_state_inspect(n, f, seg) ==
  IF proto = "TCP" THEN npf_state_tcp(n, f, seg)
  ELSE [ok |-> TRUE, nst |-> [n EXCEPT !.state = npf_generic_fsm(@, f)]]

\* The first packet determines the direction.
npf_state_init(seg) == npf_state_inspect(Zeroed, "forw", seg)

npf_state_etime(n) ==
  CASE proto = "TCP" -> npf_state_tcp_timeout(n.state)
    [] proto = "UDP" -> n.state
    [] proto = "GRE" -> "gre"

-----------------------------------------------------------------------------
(* The ends.                                                               *)

Units == DataLen + 2       \* SYN, data, FIN

TcpInit ==
  /\ proto \in Protos /\ iss \in Isses
  /\ snd = [f \in Flows |-> 0] /\ una = [f \in Flows |-> 0]
  /\ rcv = [f \in Flows |-> 0] /\ reset = {}
  /\ tracked = FALSE /\ nst = Zeroed /\ wrongly = FALSE /\ relearned = FALSE

\* A segment of the units first .. first + n - 1.
Segment(f, first, n, rst) ==
  LET units == first .. first + n - 1 IN
  [seq |-> (iss[f] + first) % M,
   ack |-> IF rcv[f] = 0 THEN 0 ELSE (iss[Other(f)] + rcv[f]) % M,
   win |-> Win,
   wscale |-> Wscale,
   len |-> Cardinality(units \cap (1 .. DataLen)),
   flags |-> (IF 0 \in units THEN {"SYN"} ELSE {})
               \cup (IF DataLen + 1 \in units THEN {"FIN"} ELSE {})
               \cup (IF rcv[f] > 0 THEN {"ACK"} ELSE {})
               \cup (IF rst THEN {"RST"} ELSE {})]

\* The filter handles a segment: the state is established on the first packet.
Filtered(f, seg) == IF ~tracked THEN npf_state_init(seg) ELSE npf_state_inspect(nst, f, seg)

Relearns(f, seg) ==
  tracked /\ "SYN" \notin seg.flags /\ nst.tcp[f].maxwin # 0 /\ nst.tcp[f].end = 0

\* An end sends new units within the window, or sends some again, or only
\* acknowledges (n = 0).  A SYN travels alone; the responder, and the data,
\* wait for the SYN of the other end.
MaySend(f, first, n) ==
  /\ proto = "TCP" /\ reset = {}
  /\ ~tracked => f = "forw"
  /\ first \in una[f] .. snd[f] /\ first + n <= Units
  /\ n > 0 => first + n <= una[f] + (IF una[f] = 0 THEN 1 ELSE Win * 2^Wscale)
  /\ first = 0 => n = 1 /\ (f = "back" => rcv[f] > 0)
  /\ first > 0 => rcv[f] > 0
  /\ n = 0 => first = snd[f] /\ una[f] > 0

\* The other end takes the units it expects, and the acknowledgment.
Receive(f, first, n) ==
  LET to == Other(f) IN
  /\ rcv' = [rcv EXCEPT ![to] = IF @ \in first .. first + n - 1 THEN first + n ELSE @]
  /\ una' = [una EXCEPT ![to] = IF rcv[f] > @ THEN rcv[f] ELSE @]

\* The segment is lost before the filter, dropped by the filter, lost behind
\* it, or received.
Send(f, first, n, fate) ==
  /\ MaySend(f, first, n)
  /\ snd' = [snd EXCEPT ![f] = IF first + n > @ THEN first + n ELSE @]
  /\ \E seg \in {Segment(f, first, n, FALSE)} : \E r \in {Filtered(f, seg)} :
       /\ IF fate = "before" THEN UNCHANGED <<tracked, nst, wrongly, relearned>>
          ELSE /\ tracked' = TRUE /\ nst' = r.nst
               /\ wrongly' = (wrongly \/ ~r.ok)
               /\ relearned' = (relearned \/ Relearns(f, seg))
       /\ IF fate # "received" \/ ~r.ok THEN UNCHANGED <<rcv, una>>
          ELSE Receive(f, first, n)
  /\ UNCHANGED <<proto, iss, reset>>

\* An end gives up.  The filter must let the RST pass if the other end is at
\* the sequence number of the RST.
Reset(f) ==
  LET r == Filtered(f, Segment(f, snd[f], 0, TRUE)) IN
  /\ proto = "TCP" /\ reset = {} /\ tracked /\ snd[f] > 0
  /\ reset' = {f}
  /\ nst' = r.nst
  /\ wrongly' = (wrongly \/ (~r.ok /\ rcv[Other(f)] = snd[f]))
  /\ UNCHANGED <<proto, iss, snd, una, rcv, tracked, relearned>>

\* A packet of a protocol without connections.
Datagram(f) ==
  /\ proto # "TCP"
  /\ ~tracked => f = "forw"
  /\ tracked' = TRUE /\ nst' = Filtered(f, {}).nst
  /\ snd' = [snd EXCEPT ![f] = 1]
  /\ UNCHANGED <<proto, iss, una, rcv, reset, wrongly, relearned>>

Done == reset # {} \/ \A f \in Flows : una[f] = Units
Stop == Done /\ UNCHANGED tcpVars

TcpNext ==
  \/ \E f \in Flows, first \in 0 .. Units, n \in 0 .. Mss, fate \in Fates :
       Send(f, first, n, fate) /\ (fate = "behind" => f \in LossBehind)
  \/ \E f \in Flows : Reset(f) \/ Datagram(f)
  \/ Stop

\* An end acknowledges, and sends its oldest unit again until the other end
\* has acknowledged it; not everything is lost.
Retransmit(f) == \E first \in 0 .. Units : first = una[f] /\ Send(f, first, 1, "received")
Acknowledge(f) == Send(f, snd[f], 0, "received")
TcpFairness == \A f \in Flows : WF_tcpVars(Retransmit(f)) /\ WF_tcpVars(Acknowledge(f))

TcpSpec == TcpInit /\ [][TcpNext]_tcpVars /\ TcpFairness

-----------------------------------------------------------------------------
(* Properties.                                                             *)

\* npf_tcp_inwindow drops no segment of a well-behaved connection, whatever
\* was lost or sent again and wherever the sequence numbers wrap - unless a
\* direction has wrapped to an nst_end of exactly 0, which the code takes for
\* a direction it has not seen, so that it learns the window anew.
NoFalseDrop == wrongly => relearned

\* The time-out follows the ends: while none has sent its FIN, a connection
\* has the time-out of a new or established one; it is established at the
\* latest with the first data of the initiator, and no longer once an end has
\* received a FIN; for UDP, it is established with the first answer.
TimeoutFollowsEnds ==
  LET etime == npf_state_etime(nst) IN
  /\ proto = "TCP" /\ tracked /\ reset = {} =>
       /\ (\A f \in Flows : snd[f] <= DataLen + 1) => etime \in {"new", "established"}
       /\ rcv["back"] > 1 => etime # "new"
       /\ (\E f \in Flows : rcv[f] = Units) => etime \in {"halfclose", "close", "timewait"}
  /\ (proto = "UDP" /\ snd["back"] = 1) => etime = "ESTABLISHED"

\* The filter never stops a connection for good: each end gets everything
\* acknowledged, whatever is lost - unless a direction was learned anew, which
\* forgets its window scale.
Completes == proto = "TCP" ~> (Done \/ relearned)
====
