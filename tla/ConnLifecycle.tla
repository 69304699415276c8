---------------------------- MODULE ConnLifecycle ----------------------------
(***************************************************************************)
(* What connection tracking promises about the memory of one connection:   *)
(* it is handed out to one thread, may gain users only while it is linked  *)
(* in the connection map, is never linked again once it was unlinked, and  *)
(* is reclaimed only when nobody uses it any more.                         *)
(***************************************************************************)
CONSTANT Threads

VARIABLES
  life,    \* "free", "fresh", "linked" or "unlinked"
  users    \* the threads that use the connection

Init == life = "free" /\ users = {}

Create(t) ==
  /\ life = "free" /\ life' = "fresh"
  /\ users' = {t}

Link ==
  /\ life = "fresh" /\ life' = "linked"
  /\ UNCHANGED users

Unlink ==
  /\ life \in {"fresh", "linked"} /\ life' = "unlinked"
  /\ UNCHANGED users

Join(t) ==
  /\ life = "linked"
  /\ users' = users \cup {t}
  /\ UNCHANGED life

Leave(t) ==
  /\ t \in users
  /\ users' = users \ {t}
  /\ UNCHANGED life

Reclaim ==
  /\ life = "unlinked" /\ life' = "free"
  /\ users = {}
  /\ UNCHANGED users

Next ==
  \/ Link \/ Unlink \/ Reclaim
  \/ \E t \in Threads : Create(t) \/ Join(t) \/ Leave(t)

Spec == Init /\ [][Next]_<<life, users>>
====
