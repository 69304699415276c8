------------------------------ MODULE MCNpfPacket ------------------------------
(***************************************************************************)
(* What NPF does to one packet: either the translation and normalisation   *)
(* of its contents (NpfRewrite) or the cache of where its headers are      *)
(* (NpfCache).  The two share no state; a behaviour is one of either.      *)
(***************************************************************************)
EXTENDS MCNpfRewrite, MCNpfCache

VARIABLE part

NoRewrite == map = NULL /\ conf = NULL /\ conns = <<>> /\ rr = 0 /\ log = <<>>
NoPacket ==
  /\ frame = NULL /\ params = NULL /\ nbuf = NULL /\ npc = NoCache /\ stage = "none"
  /\ embedded = NULL /\ misread = FALSE /\ kept = TRUE /\ steps = 0

PacketInit ==
  \/ part = "rewrite" /\ Init /\ NoPacket
  \/ part = "cache" /\ CacheInit /\ NoRewrite

PacketNext ==
  \/ part = "rewrite" /\ Next /\ UNCHANGED <<part, cvars>>
  \/ part = "cache" /\ CacheNext /\ UNCHANGED <<part, vars>>

PacketSpec == PacketInit /\ [][PacketNext]_<<part, vars, cvars>>
====
