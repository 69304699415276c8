---------------------------- MODULE PortAllocator -----------------------------
(***************************************************************************)
(* What the port map of an address promises NAT: a port is taken by one    *)
(* caller, who holds it from that moment on, and it becomes free again     *)
(* only after that caller has given it up.  Every call takes effect at     *)
(* once and for one port.                                                  *)
(***************************************************************************)
EXTENDS Integers

CONSTANT Ports

VARIABLES
  taken,   \* the ports that are not free
  held     \* how many NAT entries hold each port

Init == taken = {} /\ held = [p \in Ports |-> 0]

Take(p) ==
  /\ p \notin taken /\ held[p] = 0
  /\ taken' = taken \cup {p}
  /\ held' = [held EXCEPT ![p] = 1]

GiveUp(p) ==
  /\ p \in taken /\ held[p] = 1
  /\ held' = [held EXCEPT ![p] = 0]
  /\ UNCHANGED taken

Put(p) ==
  /\ p \in taken /\ held[p] = 0
  /\ taken' = taken \ {p}
  /\ UNCHANGED held

Next == \E p \in Ports : Take(p) \/ GiveUp(p) \/ Put(p)

Spec == Init /\ [][Next]_<<taken, held>>
====
