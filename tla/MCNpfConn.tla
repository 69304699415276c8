------------------------------ MODULE MCNpfConn ------------------------------
(* Instances of NpfConn for TLC. *)
EXTENDS NpfConnInv, TLC

CONSTANTS ab, ba, xy

\* Packets of both directions of one flow; every translation wants the key xy,
\* which a second connection of the flow may still own.
MCKeys == {ab, ba, xy}
MCPktKeys == {ab, ba}
MCNatKeys == {xy}
MCRev == (ab :> ba) @@ (ba :> ab)

Symmetry == Permutations(Threads) \cup Permutations(Conns)
====
