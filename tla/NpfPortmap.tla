----------------------------- MODULE NpfPortmap ------------------------------
(***************************************************************************)
(* The NAT port map of one translation address (npf_portmap.c): a bitmap   *)
(* of ports in two levels, changed with compare-and-swap only.             *)
(*                                                                         *)
(* A level-0 word packs up to Slots port values; when they do not fit, the *)
(* word becomes a pointer to a level-1 block, for good.  A word is the set *)
(* of the ports it records: the slot a value sits in tells nothing apart   *)
(* (a swap that fails only because a value moved to another slot starts    *)
(* over on the same set).  npf_portmap_autoget creates the map of an       *)
(* address on first use: an absent map and an empty one behave alike.      *)
(***************************************************************************)
EXTENDS Integers, FiniteSets

CONSTANTS
  Threads,
  min_port, max_port,   \* the "portmap.*" parameters
  L0Size,               \* ports per level-0 word (1024)
  L1Size,               \* ports per level-1 word (64)
  Slots,                \* values that a level-0 word packs (5)
  MaxHeld               \* bound: NAT entries at any time

ASSUME PortsAssumption ==
  /\ min_port \in Nat /\ max_port \in Nat /\ min_port <= max_port
  /\ L0Size \in Nat \ {0} /\ L1Size \in Nat \ {0} /\ L0Size % L1Size = 0
  /\ Slots \in Nat

Ports == min_port .. max_port
port_delta == max_port - min_port + 1

\* The words that a port belongs to.
Word0(p) == p \div L0Size
Word1(p) == p \div L1Size
Words0 == {Word0(p) : p \in Ports}
Words1 == {Word1(p) : p \in Ports}

VARIABLES
  l1,      \* level-0 words that are tagged as a pointer (PORTMAP_L1_TAG)
  bits0,   \* the values packed in each level-0 word that is not tagged
  bits1,   \* the bits of each level-1 word
  held,    \* how many NAT entries hold each port (npf_nat_t::nt_tport)
  pc, op, bit, target,
  val,     \* the word as loaded by bitmap_set / bitmap_clr (bval, oval)
  probed   \* history: ports the running npf_portmap_get has tried

words == <<l1, bits0, bits1>>
callVars == <<op, bit, target, probed>>
vars == <<words, held, pc, val, callVars>>

PCs == {"idle", "load0", "cas0", "alloc", "load1", "cas1"}

TypeOK ==
  /\ l1 \in SUBSET Words0
  /\ bits0 \in [Words0 -> SUBSET Ports]
  /\ bits1 \in [Words1 -> SUBSET Ports]
  /\ held \in [Ports -> Nat]
  /\ pc \in [Threads -> PCs]
  /\ op \in [Threads -> {"get", "take", "put"}]
  /\ bit \in [Threads -> Ports] /\ target \in [Threads -> Ports]
  /\ val \in [Threads -> SUBSET Ports] /\ probed \in [Threads -> SUBSET Ports]

Init ==
  /\ l1 = {}
  /\ bits0 = [w \in Words0 |-> {}]
  /\ bits1 = [w \in Words1 |-> {}]
  /\ held = [p \in Ports |-> 0]
  /\ pc = [t \in Threads |-> "idle"]
  /\ op = [t \in Threads |-> "get"]
  /\ bit = [t \in Threads |-> min_port] /\ target = [t \in Threads |-> min_port]
  /\ val = [t \in Threads |-> {}] /\ probed = [t \in Threads |-> {}]

Goto(t, label) == pc' = [pc EXCEPT ![t] = label]
Load(t, word) == val' = [val EXCEPT ![t] = word]

Begin(t, o, p) ==
  /\ pc[t] = "idle"
  /\ op' = [op EXCEPT ![t] = o]
  /\ bit' = [bit EXCEPT ![t] = p]
  /\ target' = [target EXCEPT ![t] = p]
  /\ Goto(t, "load0")
  /\ UNCHANGED <<words, val, probed>>

\* A call returns; its local variables are forgotten.
Return(t) ==
  /\ op' = [op EXCEPT ![t] = "get"]
  /\ bit' = [bit EXCEPT ![t] = min_port]
  /\ target' = [target EXCEPT ![t] = min_port]
  /\ probed' = [probed EXCEPT ![t] = {}]
  /\ Goto(t, "idle")

\* Entries on their way count too: an allocation that runs may succeed.
Entries == {e \in Ports \X (1 .. MaxHeld) : e[2] <= held[e[1]]}
Busy == {t \in Threads : pc[t] # "idle"}
HaveRoom == Cardinality(Entries) + Cardinality(Busy) < MaxHeld

-----------------------------------------------------------------------------
\* npf_portmap_get: start at a random port.
npf_portmap_get(t, p) == HaveRoom /\ Begin(t, "get", p) /\ UNCHANGED held

\* npf_portmap_take (npf_nat_import): one specific port within the range.
npf_portmap_take(t, p) == HaveRoom /\ Begin(t, "take", p) /\ UNCHANGED held

\* npf_portmap_put (npf_nat_destroy): the entry gives up its port.
npf_portmap_put(t, p) ==
  /\ held[p] > 0
  /\ Begin(t, "put", p)
  /\ held' = [held EXCEPT ![p] = @ - 1]

\* bitmap_set returned true: the port belongs to the caller.
SetDone(t) == held' = [held EXCEPT ![bit[t]] = @ + 1] /\ Return(t)

\* The next port to try.  Mutant: every other port.
NextPort_skip(p) == min_port + ((p + 2) % port_delta)
NextPort(p) == min_port + ((p + 1) % port_delta)

\* bitmap_set returned false: npf_portmap_get goes on to the next port until
\* it is back at the first one.
SetFailed(t) ==
  LET next == NextPort(bit[t]) IN
  /\ \/ /\ op[t] = "get" /\ next # target[t]
        /\ bit' = [bit EXCEPT ![t] = next]
        /\ probed' = [probed EXCEPT ![t] = @ \cup {bit[t]}]
        /\ Goto(t, "load0")
        /\ UNCHANGED <<op, target>>
     \/ /\ op[t] = "take" \/ next = target[t]
        /\ Return(t)
  /\ UNCHANGED held

\* bitmap_clr returned.
ClrDone(t) == Return(t) /\ UNCHANGED held

\* bitmap_word_cax finds no empty slot.
Full(word) == Cardinality(word) >= Slots

\* bitmap_set / bitmap_clr: load the level-0 word and decide.
bitmap_load0(t) ==
  LET w == Word0(bit[t])  set == op[t] # "put"  isset == bit[t] \in bits0[w] IN
  /\ pc[t] = "load0"
  /\ \/ /\ w \in l1
        /\ Goto(t, "load1") /\ UNCHANGED <<val, held, callVars>>
     \/ w \notin l1 /\ set /\ isset /\ SetFailed(t) /\ UNCHANGED val
     \/ w \notin l1 /\ ~set /\ ~isset /\ ClrDone(t) /\ UNCHANGED val
     \/ /\ w \notin l1 /\ set # isset
        /\ Load(t, bits0[w])
        /\ Goto(t, IF set /\ Full(bits0[w]) THEN "alloc" ELSE "cas0")
        /\ UNCHANGED <<held, callVars>>
  /\ UNCHANGED words

\* The comparison of atomic_cas_64.  Mutant: an unconditional store.
Same0_any(t, w) == w \notin l1
Same0(t, w) == w \notin l1 /\ bits0[w] = val[t]

\* atomic_cas_64 on a packed level-0 word; on failure everything starts over.
bitmap_cas0(t) ==
  LET w == Word0(bit[t])  same == Same0(t, w) IN
  /\ pc[t] = "cas0"
  /\ \/ /\ same /\ op[t] # "put"
        /\ bits0' = [bits0 EXCEPT ![w] = @ \cup {bit[t]}]
        /\ SetDone(t)
     \/ /\ same /\ op[t] = "put"
        /\ bits0' = [bits0 EXCEPT ![w] = @ \ {bit[t]}]
        /\ ClrDone(t)
     \/ /\ ~same
        /\ Goto(t, "load0") /\ UNCHANGED <<bits0, held, callVars>>
  /\ Load(t, {})
  /\ UNCHANGED <<l1, bits1>>

\* Unpack a level-0 word into the new level-1 block.  Mutant: forgotten.
CopyBits_none(word) == UNCHANGED bits1
CopyBits(word) ==
  bits1' = [v \in Words1 |-> bits1[v] \cup {p \in word : Word1(p) = v}]

\* bitmap_set on a full word: allocate a level-1 block, which may fail, copy
\* the values and install it by atomic_cas_64.
bitmap_alloc(t) ==
  LET w == Word0(bit[t])  same == Same0(t, w) IN
  /\ pc[t] = "alloc"
  /\ \/ SetFailed(t) /\ UNCHANGED words
     \/ /\ same
        /\ l1' = l1 \cup {w}
        /\ bits0' = [bits0 EXCEPT ![w] = {}]
        /\ CopyBits(val[t])
        /\ Goto(t, "load1") /\ UNCHANGED <<held, callVars>>
     \/ /\ ~same
        /\ Goto(t, "load0") /\ UNCHANGED <<words, held, callVars>>
  /\ Load(t, {})

\* The level-1 word: load and decide ...
bitmap_load1(t) ==
  LET v == Word1(bit[t])  set == op[t] # "put"  isset == bit[t] \in bits1[v] IN
  /\ pc[t] = "load1"
  /\ \/ set /\ isset /\ SetFailed(t) /\ UNCHANGED val
     \/ ~set /\ ~isset /\ ClrDone(t) /\ UNCHANGED val
     \/ /\ set # isset
        /\ Load(t, bits1[v])
        /\ Goto(t, "cas1") /\ UNCHANGED <<held, callVars>>
  /\ UNCHANGED words

\* Mutant of the next: a failed swap is repeated with the same old value.
bitmap_cas1_stale(t) ==
  LET v == Word1(bit[t])  same == bits1[v] = val[t] IN
  /\ pc[t] = "cas1"
  /\ \/ /\ same /\ op[t] # "put"
        /\ bits1' = [bits1 EXCEPT ![v] = @ \cup {bit[t]}]
        /\ SetDone(t)
     \/ /\ same /\ op[t] = "put"
        /\ bits1' = [bits1 EXCEPT ![v] = @ \ {bit[t]}]
        /\ ClrDone(t)
     \/ ~same /\ UNCHANGED <<bits1, held, pc, callVars>>
  /\ UNCHANGED <<l1, bits0, val>>

\* ... and swap.
bitmap_cas1(t) ==
  LET v == Word1(bit[t])  same == bits1[v] = val[t] IN
  /\ pc[t] = "cas1"
  /\ \/ /\ same /\ op[t] # "put"
        /\ bits1' = [bits1 EXCEPT ![v] = @ \cup {bit[t]}]
        /\ SetDone(t)
     \/ /\ same /\ op[t] = "put"
        /\ bits1' = [bits1 EXCEPT ![v] = @ \ {bit[t]}]
        /\ ClrDone(t)
     \/ /\ ~same
        /\ Goto(t, "load0") /\ UNCHANGED <<bits1, held, callVars>>
  /\ Load(t, {})
  /\ UNCHANGED <<l1, bits0>>

-----------------------------------------------------------------------------
Step(t) ==
  \/ bitmap_load0(t) \/ bitmap_cas0(t) \/ bitmap_alloc(t)
  \/ bitmap_load1(t) \/ bitmap_cas1(t)

Call(t) ==
  \E p \in Ports :
    npf_portmap_get(t, p) \/ npf_portmap_take(t, p) \/ npf_portmap_put(t, p)

Next == \E t \in Threads : Call(t) \/ Step(t)

\* A packet or G/C thread inside the port map is scheduled; nothing makes it
\* call again.
Fairness == \A t \in Threads : WF_vars(Step(t))

Spec == Init /\ [][Next]_vars /\ Fairness

\* npf_config_load with "flush" empties the map, after an EBR synchronisation
\* (no call is under way); the NAT entries live on until the G/C.
npf_portmap_flush ==
  /\ \A t \in Threads : pc[t] = "idle"
  /\ l1' = {}
  /\ bits0' = [w \in Words0 |-> {}]
  /\ bits1' = [w \in Words1 |-> {}]
  /\ UNCHANGED <<held, pc, val, callVars>>

FlushSpec == Init /\ [][Next \/ npf_portmap_flush]_vars

-----------------------------------------------------------------------------
(* Properties.                                                             *)

Recorded == UNION ({bits0[w] : w \in Words0} \cup {bits1[v] : v \in Words1})

\* No two NAT entries hold the same port of an address, whatever the
\* interleaving of the compare-and-swap loops.
NoSharedPort == \A p \in Ports : held[p] <= 1

\* The bitmap records exactly the ports that NAT entries hold and those that
\* are being put back: no update is lost when a word changes level.  A level-0
\* word never packs more values than it has slots, and is empty once it points
\* to a level-1 block.
BitmapExact ==
  /\ Recorded = {p \in Ports : held[p] > 0} \cup
                {bit[t] : t \in {u \in Threads : pc[u] # "idle" /\ op[u] = "put"}}
  /\ \A w \in Words0 : /\ Cardinality(bits0[w]) <= Slots
                       /\ w \in l1 => bits0[w] = {}

\* The port map keeps the promise of PortAllocator: the loads, swaps and level
\* changes of bitmap_set and bitmap_clr in any interleaving amount to taking a
\* free port, for the one caller who then holds it, or to freeing one that its
\* holder has given up.
Allocator == INSTANCE PortAllocator WITH taken <- Recorded
ImplementsAllocator == Allocator!Spec

\* "No space": npf_portmap_get gives up only after it has tried every port
\* of the range.  From port i of the range the probe sequence goes on to
\* (i + min_port + 1) % port_delta, so that this takes min_port + 1 and
\* port_delta without a common factor: so it is for the default range 1024 to
\* 65535 and for the instance, not for every range that can be configured (of
\* 3 to 6 one port is tried).
GivesUpOnlyWhenAllTried ==
  [][\A t \in Threads :
       (pc[t] # "idle" /\ pc'[t] = "idle" /\ op[t] = "get" /\ held' = held)
         => probed[t] \cup {bit[t]} = Ports]_vars

\* The compare-and-swap loops are lock-free: while calls are under way one of
\* them ends or another begins; neither a lone thread nor several that make
\* each other start over stay inside bitmap_set and bitmap_clr for ever.
NoLivelock == \A S \in SUBSET Threads \ {{}} : []<>(Busy # S)
====
