--------------------------- MODULE NpfPortmapProofs ---------------------------
(***************************************************************************)
(* The port map of NpfPortmap is exact, gives no port to two NAT entries   *)
(* and implements PortAllocator, for any number of threads, any port range *)
(* and any size of the words of the two levels.                            *)
(*                                                                         *)
(* What a thread has loaded may be stale by the time it swaps.  The        *)
(* invariant therefore says what holds of the loaded value (LocalInv), and *)
(* a swap that succeeds carries it over to the word.  That the port is     *)
(* then free needs the rest: no bit of a word is in both levels (WordInv), *)
(* and a bit that is set has an owner, exactly one (OwnerInv).             *)
(***************************************************************************)
EXTENDS NpfPortmap, FiniteSetTheorems, TLAPS

\* The ports whose bit is set, in whichever level it is, and the threads that
\* are putting a port back.
Bits == {p \in Ports : p \in bits0[Word0(p)] \/ p \in bits1[Word1(p)]}
Puts == {t \in Threads : pc[t] # "idle" /\ op[t] = "put"}

\* A value sits in the word it belongs to, and in level 1 once, and only once,
\* the level-0 word has become a pointer.
WordInv ==
  /\ \A w \in Words0 : \A p \in bits0[w] : Word0(p) = w
  /\ \A v \in Words1 : \A p \in bits1[v] : Word1(p) = v /\ Word0(p) \in l1
  /\ \A w \in l1 : bits0[w] = {}
  /\ \A w \in Words0 : Cardinality(bits0[w]) <= Slots

\* What a thread knows of the word it has loaded: only a swap that succeeds
\* makes it true of the word itself.
LocalInv(t) ==
  /\ pc[t] \in {"load1", "cas1"} => Word0(bit[t]) \in l1
  /\ pc[t] = "alloc" => op[t] # "put"
  /\ pc[t] \in {"cas0", "cas1"} => (bit[t] \in val[t] <=> op[t] = "put")
  /\ pc[t] = "cas0" /\ op[t] # "put" => ~Full(val[t])
CallInv == \A t \in Threads : LocalInv(t)

\* A bit that is set has one owner: the NAT entry that holds the port, or the
\* thread that is putting it back.
OwnerInv ==
  /\ \A p \in Ports :
       /\ held[p] \in {0, 1}
       /\ held[p] = 1 => p \in Bits /\ \A t \in Puts : bit[t] # p
       /\ p \in Bits => held[p] = 1 \/ \E t \in Puts : bit[t] = p
  /\ \A t \in Puts : bit[t] \in Bits
  /\ \A t, u \in Puts : bit[t] = bit[u] => t = u

\* What a step of thread t inside the port map may do to the bitmap: nothing,
\* set the bit of a free port for a new owner, or clear the one it puts back.
Effect(t) ==
  \/ UNCHANGED <<Bits, held>>
  \/ /\ bit[t] \notin Bits /\ held[bit[t]] = 0
     /\ Bits' = Bits \cup {bit[t]} /\ held' = [held EXCEPT ![bit[t]] = 1]
  \/ /\ bit[t] \in Bits /\ held[bit[t]] = 0
     /\ Bits' = Bits \ {bit[t]} /\ UNCHANGED held

\* The inductive invariant of the compare-and-swap loops.
PortmapInv == TypeOK /\ WordInv /\ CallInv /\ OwnerInv

-----------------------------------------------------------------------------
\* The iteration of npf_portmap_get stays within the configured range.
LEMMA NextPortInRange == min_port \in Ports /\ \A p \in Ports : NextPort(p) \in Ports
  BY PortsAssumption DEF Ports, NextPort, port_delta

\* The words of a port are words of the map.
LEMMA WordOfPort == \A p \in Ports : Word0(p) \in Words0 /\ Word1(p) \in Words1
  BY DEF Words0, Words1

\* A level-0 word packs finitely many values, so that they can be counted.
LEMMA WordsFinite ==
  \A S \in SUBSET Ports : IsFiniteSet(S) /\ Cardinality(S) \in Nat
<1>1. IsFiniteSet(Ports)
  BY PortsAssumption, FS_Interval DEF Ports
<1> QED
  BY <1>1, FS_Subset, FS_CardinalityType

\* The initial state: nothing is held, nothing recorded, nobody calls.
LEMMA InvInit == Init => PortmapInv
<1> SUFFICES ASSUME Init PROVE PortmapInv
  OBVIOUS
<1>1. TypeOK
  BY PortsAssumption DEF Init, TypeOK, PCs, Ports
<1>2. WordInv
  BY PortsAssumption, FS_EmptySet DEF Init, WordInv
<1>3. CallInv
  BY DEF Init, CallInv, LocalInv
<1>4. OwnerInv
  BY WordOfPort DEF Init, OwnerInv, Bits, Puts
<1> QED
  BY <1>1, <1>2, <1>3, <1>4 DEF PortmapInv

\* A step of thread t that leaves the words and the NAT entries alone and does
\* not begin or end a call of npf_portmap_put.
LEMMA LocalStep ==
  ASSUME PortmapInv, NEW t \in Threads, TypeOK', LocalInv(t)',
         UNCHANGED <<words, held>>,
         \A u \in Threads \ {t} :
           pc'[u] = pc[u] /\ op'[u] = op[u] /\ bit'[u] = bit[u] /\ val'[u] = val[u],
         Puts' = Puts, t \in Puts => bit'[t] = bit[t]
  PROVE  PortmapInv' /\ Effect(t)
<1>1. WordInv'
  BY DEF PortmapInv, WordInv, words
<1>2. CallInv'
  <2>1. ASSUME NEW u \in Threads, u # t PROVE LocalInv(u)'
    BY <2>1 DEF PortmapInv, CallInv, LocalInv, words, Full
  <2> QED
    BY <2>1 DEF CallInv
<1>3. Bits' = Bits
  BY DEF Bits, words
<1>4. OwnerInv'
  BY <1>3 DEF PortmapInv, OwnerInv, Puts
<1> QED
  BY <1>1, <1>2, <1>3, <1>4 DEF PortmapInv, Effect

-----------------------------------------------------------------------------
(* One lemma per action.                                                   *)

USE DEF words, callVars, Goto, Load, Return, SetDone, ClrDone

\* bitmap_set returned false: the next port, or the end of the call.
LEMMA SetFailedLocal ==
  ASSUME PortmapInv, NEW t \in Threads, op[t] # "put", SetFailed(t),
         UNCHANGED words, val' = val \/ val' = [val EXCEPT ![t] = {}]
  PROVE  PortmapInv' /\ Effect(t)
<1> USE DEF PortmapInv
<1>1. TypeOK'
  BY NextPortInRange DEF TypeOK, SetFailed, PCs
<1>2. LocalInv(t)'
  BY DEF SetFailed, LocalInv, TypeOK
<1>3. t \notin Puts /\ Puts' = Puts
  BY DEF SetFailed, Puts, TypeOK
<1> QED
  BY <1>1, <1>2, <1>3, LocalStep DEF SetFailed, TypeOK

\* npf_portmap_get and npf_portmap_take begin.
LEMMA Ind_Begin ==
  ASSUME PortmapInv, NEW t \in Threads, NEW p \in Ports,
         npf_portmap_get(t, p) \/ npf_portmap_take(t, p)
  PROVE  PortmapInv'
<1> USE DEF PortmapInv, npf_portmap_get, npf_portmap_take, Begin
<1>1. TypeOK'
  BY DEF TypeOK, PCs
<1>2. LocalInv(t)'
  BY DEF LocalInv, TypeOK
<1>3. t \notin Puts /\ Puts' = Puts
  BY DEF Puts, TypeOK
<1> QED
  BY <1>1, <1>2, <1>3, LocalStep DEF TypeOK

\* npf_portmap_put begins: the entry's hold on the port passes to the thread.
LEMMA Ind_npf_portmap_put ==
  ASSUME PortmapInv, NEW t \in Threads, NEW p \in Ports, npf_portmap_put(t, p)
  PROVE  PortmapInv'
<1> USE DEF PortmapInv, npf_portmap_put, Begin
<1>1. TypeOK'
  BY DEF TypeOK, PCs
<1>2. WordInv'
  BY DEF WordInv
<1>3. CallInv'
  BY DEF CallInv, LocalInv, TypeOK, Full
<1>4. held[p] = 1 /\ held' = [held EXCEPT ![p] = 0]
  <2>1. held[p] = 1
    BY DEF OwnerInv
  <2>2. held' = [held EXCEPT ![p] = held[p] - 1]
    OBVIOUS
  <2> QED
    BY <2>1, <2>2
<1>5. OwnerInv'
  BY <1>4 DEF OwnerInv, Bits, Puts, TypeOK
<1> QED
  BY <1>1, <1>2, <1>3, <1>5

\* bitmap_set / bitmap_clr load the level-0 word.  bitmap_clr finds the bit:
\* the thread that puts a port back is its owner.
LEMMA Ind_bitmap_load0 ==
  ASSUME PortmapInv, NEW t \in Threads, bitmap_load0(t)
  PROVE  PortmapInv' /\ Effect(t)
<1> DEFINE w == Word0(bit[t])
<1>1. w \in Words0 /\ bit[t] \in Ports /\ pc[t] = "load0" /\ UNCHANGED words
  BY WordOfPort DEF bitmap_load0, PortmapInv, TypeOK
<1>2. ASSUME w \notin l1, op[t] # "put", SetFailed(t), UNCHANGED val
      PROVE  PortmapInv' /\ Effect(t)
  BY <1>1, <1>2, SetFailedLocal
<1>3. ~(w \notin l1 /\ op[t] = "put" /\ bit[t] \notin bits0[w])
  BY <1>1, WordOfPort DEF PortmapInv, OwnerInv, WordInv, Puts, Bits
<1>4. ASSUME w \in l1, Goto(t, "load1"), UNCHANGED <<val, held, callVars>>
      PROVE  PortmapInv' /\ Effect(t)
  <2>1. TypeOK'
    BY <1>1, <1>4 DEF PortmapInv, TypeOK, PCs
  <2>2. LocalInv(t)'
    BY <1>1, <1>4 DEF LocalInv, PortmapInv, TypeOK
  <2>3. Puts' = Puts
    BY <1>1, <1>4 DEF Puts, PortmapInv, TypeOK
  <2> QED
    BY <1>1, <1>4, <2>1, <2>2, <2>3, LocalStep, Zenon DEF PortmapInv, TypeOK
<1>5. ASSUME w \notin l1, (op[t] # "put") # (bit[t] \in bits0[w]),
             Load(t, bits0[w]), UNCHANGED <<held, callVars>>,
             Goto(t, IF op[t] # "put" /\ Full(bits0[w]) THEN "alloc" ELSE "cas0")
      PROVE  PortmapInv' /\ Effect(t)
  <2>1. TypeOK'
    BY <1>1, <1>5 DEF PortmapInv, TypeOK, PCs
  <2>2. LocalInv(t)'
    BY <1>1, <1>5 DEF LocalInv, PortmapInv, TypeOK, Full
  <2>3. Puts' = Puts
    BY <1>1, <1>5 DEF Puts, PortmapInv, TypeOK
  <2> QED
    BY <1>1, <1>5, <2>1, <2>2, <2>3, LocalStep, Zenon DEF PortmapInv, TypeOK
<1> QED
  BY <1>2, <1>3, <1>4, <1>5 DEF bitmap_load0

\* A call starts over: the comparison of a swap failed.
LEMMA StartOver ==
  ASSUME PortmapInv, NEW t \in Threads, pc[t] \in {"cas0", "alloc", "cas1"},
         Goto(t, "load0"), Load(t, {}), UNCHANGED <<words, held, callVars>>
  PROVE  PortmapInv' /\ Effect(t)
<1> USE DEF PortmapInv
<1>1. TypeOK'
  BY DEF TypeOK, PCs
<1>2. LocalInv(t)'
  BY DEF LocalInv, TypeOK
<1>3. Puts' = Puts
  BY DEF Puts, TypeOK
<1> QED
  BY <1>1, <1>2, <1>3, LocalStep, Zenon DEF TypeOK

\* A swap that sets the bit of a free port: the caller becomes its owner.
LEMMA SetOwner ==
  ASSUME PortmapInv, NEW t \in Threads, TypeOK', WordInv', CallInv',
         op[t] # "put", bit[t] \notin Bits, SetDone(t), Bits' = Bits \cup {bit[t]}
  PROVE  PortmapInv' /\ Effect(t)
<1> USE DEF PortmapInv
<1>1. bit[t] \in Ports /\ held[bit[t]] = 0 /\ held' = [held EXCEPT ![bit[t]] = 1]
  <2>1. bit[t] \in Ports /\ held[bit[t]] = 0
    BY Zenon DEF TypeOK, OwnerInv
  <2>2. held' = [held EXCEPT ![bit[t]] = held[bit[t]] + 1]
    OBVIOUS
  <2> QED
    BY <2>1, <2>2
<1>2. Puts' = Puts /\ \A u \in Puts : bit'[u] = bit[u] /\ bit[u] # bit[t]
  BY DEF Puts, TypeOK, OwnerInv
<1>3. OwnerInv'
  BY <1>1, <1>2 DEF OwnerInv, TypeOK
<1> QED
  BY <1>1, <1>3 DEF Effect

\* A swap that clears the bit which the thread is putting back.
LEMMA ClrOwner ==
  ASSUME PortmapInv, NEW t \in Threads, TypeOK', WordInv', CallInv',
         t \in Puts, ClrDone(t), Bits' = Bits \ {bit[t]}
  PROVE  PortmapInv' /\ Effect(t)
<1> USE DEF PortmapInv
<1>1. Puts' = Puts \ {t} /\ \A u \in Puts' : bit'[u] = bit[u] /\ bit[u] # bit[t]
  BY Zenon DEF Puts, TypeOK, OwnerInv
<1>2. OwnerInv'
  BY <1>1 DEF OwnerInv, TypeOK, Puts
<1>3. bit[t] \in Bits /\ held[bit[t]] = 0
  BY Zenon DEF OwnerInv, Bits
<1> QED
  BY <1>2, <1>3 DEF Effect

\* The swap of a packed level-0 word.
LEMMA Ind_bitmap_cas0 ==
  ASSUME PortmapInv, NEW t \in Threads, bitmap_cas0(t)
  PROVE  PortmapInv' /\ Effect(t)
<1> DEFINE w == Word0(bit[t])
<1>1. /\ w \in Words0 /\ bit[t] \in Ports /\ pc[t] = "cas0"
      /\ Load(t, {}) /\ UNCHANGED <<l1, bits1>>
      /\ Same0(t, w) => w \notin l1 /\ bits0[w] = val[t] /\ bit[t] \notin bits1[Word1(bit[t])]
  BY WordOfPort, Zenon DEF bitmap_cas0, PortmapInv, TypeOK, Same0, WordInv
<1>2. ASSUME Same0(t, w), op[t] # "put", SetDone(t),
             bits0' = [bits0 EXCEPT ![w] = @ \cup {bit[t]}]
      PROVE  PortmapInv' /\ Effect(t)
  <2>1. TypeOK'
    BY <1>1, <1>2, NextPortInRange DEF PortmapInv, TypeOK, PCs
  <2>2. WordInv'
    <3>1. ~Full(bits0[w]) /\ bit[t] \notin bits0[w]
      BY <1>1, <1>2, Zenon DEF PortmapInv, CallInv, LocalInv
    <3>2. Cardinality(bits0[w] \cup {bit[t]}) <= Slots
      BY <1>1, <3>1, WordsFinite, FS_AddElement, PortsAssumption DEF Full, PortmapInv, TypeOK
    <3>3. \A x \in Words0 : bits0'[x] = IF x = w THEN bits0[w] \cup {bit[t]} ELSE bits0[x]
      BY <1>1, <1>2 DEF PortmapInv, TypeOK
    <3> QED
      BY <1>1, <1>2, <3>2, <3>3, Zenon DEF PortmapInv, WordInv, TypeOK
  <2>3. CallInv'
    BY <1>1, <1>2 DEF PortmapInv, CallInv, LocalInv, TypeOK, Full
  <2>4. bit[t] \notin Bits /\ Bits' = Bits \cup {bit[t]}
    <3>1. bit[t] \notin bits0[w]
      BY <1>1, <1>2, Zenon DEF PortmapInv, CallInv, LocalInv
    <3> QED
      BY <1>1, <1>2, <3>1, WordOfPort DEF Bits, PortmapInv, TypeOK
  <2> QED
    BY <1>2, <2>1, <2>2, <2>3, <2>4, SetOwner, Zenon
<1>3. ASSUME Same0(t, w), op[t] = "put", ClrDone(t),
             bits0' = [bits0 EXCEPT ![w] = @ \ {bit[t]}]
      PROVE  PortmapInv' /\ Effect(t)
  <2>1. TypeOK'
    BY <1>1, <1>3, NextPortInRange DEF PortmapInv, TypeOK, PCs
  <2>2. WordInv'
    <3>1. Cardinality(bits0[w] \ {bit[t]}) <= Slots
      BY <1>1, WordsFinite, FS_RemoveElement, PortsAssumption DEF PortmapInv, TypeOK, WordInv
    <3>2. \A x \in Words0 : bits0'[x] = IF x = w THEN bits0[w] \ {bit[t]} ELSE bits0[x]
      BY <1>1, <1>3 DEF PortmapInv, TypeOK
    <3> QED
      BY <1>1, <1>3, <3>1, <3>2, Zenon DEF PortmapInv, WordInv, TypeOK
  <2>3. CallInv'
    BY <1>1, <1>3 DEF PortmapInv, CallInv, LocalInv, TypeOK, Full
  <2>4. t \in Puts /\ Bits' = Bits \ {bit[t]}
    BY <1>1, <1>3, WordOfPort, Zenon DEF Bits, Puts, PortmapInv, TypeOK
  <2> QED
    BY <1>3, <2>1, <2>2, <2>3, <2>4, ClrOwner, Zenon
<1>4. ASSUME Goto(t, "load0"), UNCHANGED <<bits0, held, callVars>>
      PROVE  PortmapInv' /\ Effect(t)
  BY <1>1, <1>4, StartOver, Zenon
<1> QED
  BY <1>2, <1>3, <1>4, Zenon DEF bitmap_cas0

\* A full level-0 word becomes a pointer to a level-1 block with its values:
\* no bit changes.
LEMMA Ind_bitmap_alloc ==
  ASSUME PortmapInv, NEW t \in Threads, bitmap_alloc(t)
  PROVE  PortmapInv' /\ Effect(t)
<1> DEFINE w == Word0(bit[t])
<1>1. /\ w \in Words0 /\ bit[t] \in Ports /\ pc[t] = "alloc" /\ op[t] # "put"
      /\ Load(t, {})
  BY WordOfPort DEF bitmap_alloc, PortmapInv, TypeOK, CallInv, LocalInv
<1>2. ASSUME SetFailed(t), UNCHANGED words
      PROVE  PortmapInv' /\ Effect(t)
  BY <1>1, <1>2, SetFailedLocal, ZenonT(30)
<1>3. ASSUME Same0(t, w), l1' = l1 \cup {w}, bits0' = [bits0 EXCEPT ![w] = {}],
             CopyBits(val[t]), Goto(t, "load1"), UNCHANGED <<held, callVars>>
      PROVE  PortmapInv' /\ Effect(t)
  <2>1. TypeOK'
    BY <1>1, <1>3 DEF PortmapInv, TypeOK, PCs, CopyBits
  <2>2. bits0[w] = val[t] /\ \A v \in Words1 : bits1'[v] = bits1[v] \cup {p \in bits0[w] : Word1(p) = v}
    BY <1>3 DEF Same0, CopyBits
  <2>3. WordInv'
    <3>1. Cardinality({}) <= Slots
      BY FS_EmptySet, PortsAssumption
    <3>2. \A x \in Words0 : bits0'[x] = IF x = w THEN {} ELSE bits0[x]
      BY <1>1, <1>3 DEF PortmapInv, TypeOK
    <3> QED
      BY <1>1, <1>3, <2>2, <3>1, <3>2 DEF PortmapInv, WordInv, TypeOK
  <2>4. CallInv'
    BY <1>1, <1>3, Zenon DEF PortmapInv, CallInv, LocalInv, TypeOK, Full
  <2>5. Bits' = Bits /\ Puts' = Puts
    <3>1. \A p \in Ports : p \in bits1'[Word1(p)] <=> p \in bits1[Word1(p)] \/ p \in bits0[w]
      BY <2>2, WordOfPort
    <3>2. \A p \in Ports : p \in bits0'[Word0(p)] <=> p \in bits0[Word0(p)] /\ Word0(p) # w
      BY <1>1, <1>3, WordOfPort DEF PortmapInv, TypeOK
    <3>3. \A p \in bits0[w] : Word0(p) = w
      BY <1>1, Zenon DEF PortmapInv, WordInv
    <3>4. Puts' = Puts
      BY <1>1, <1>3 DEF Puts, PortmapInv, TypeOK
    <3> QED
      BY <3>1, <3>2, <3>3, <3>4, Zenon DEF Bits
  <2>6. OwnerInv'
    BY <1>3, <2>5 DEF PortmapInv, OwnerInv
  <2> QED
    BY <1>3, <2>1, <2>3, <2>4, <2>5, <2>6 DEF PortmapInv, Effect
<1>4. ASSUME Goto(t, "load0"), UNCHANGED <<words, held, callVars>>
      PROVE  PortmapInv' /\ Effect(t)
  BY <1>1, <1>4, StartOver, ZenonT(30)
<1> QED
  BY <1>2, <1>3, <1>4 DEF bitmap_alloc

\* bitmap_set / bitmap_clr load the level-1 word.
LEMMA Ind_bitmap_load1 ==
  ASSUME PortmapInv, NEW t \in Threads, bitmap_load1(t)
  PROVE  PortmapInv' /\ Effect(t)
<1> DEFINE v == Word1(bit[t])
<1>1. /\ v \in Words1 /\ bit[t] \in Ports /\ pc[t] = "load1" /\ UNCHANGED words
      /\ Word0(bit[t]) \in l1
  BY WordOfPort, Zenon DEF bitmap_load1, PortmapInv, TypeOK, CallInv, LocalInv
<1>2. ASSUME op[t] # "put", SetFailed(t), UNCHANGED val
      PROVE  PortmapInv' /\ Effect(t)
  BY <1>1, <1>2, SetFailedLocal, Zenon
<1>3. ~(op[t] = "put" /\ bit[t] \notin bits1[v])
  <2>1. op[t] = "put" => t \in Puts
    BY <1>1 DEF Puts
  <2>2. bits0[Word0(bit[t])] = {}
    BY <1>1 DEF PortmapInv, WordInv
  <2> QED
    BY <2>1, <2>2 DEF PortmapInv, OwnerInv, Bits
<1>4. ASSUME (op[t] # "put") # (bit[t] \in bits1[v]), Load(t, bits1[v]),
             Goto(t, "cas1"), UNCHANGED <<held, callVars>>
      PROVE  PortmapInv' /\ Effect(t)
  <2>1. TypeOK'
    BY <1>1, <1>4 DEF PortmapInv, TypeOK, PCs
  <2>2. LocalInv(t)'
    BY <1>1, <1>4 DEF LocalInv, PortmapInv, TypeOK
  <2>3. Puts' = Puts
    BY <1>1, <1>4 DEF Puts, PortmapInv, TypeOK
  <2> QED
    BY <1>1, <1>4, <2>1, <2>2, <2>3, LocalStep, ZenonT(30) DEF PortmapInv, TypeOK
<1> QED
  BY <1>2, <1>3, <1>4 DEF bitmap_load1

\* The swap of a level-1 word.
LEMMA Ind_bitmap_cas1 ==
  ASSUME PortmapInv, NEW t \in Threads, bitmap_cas1(t)
  PROVE  PortmapInv' /\ Effect(t)
<1> DEFINE v == Word1(bit[t])
<1>1. /\ v \in Words1 /\ bit[t] \in Ports /\ pc[t] = "cas1"
      /\ Load(t, {}) /\ UNCHANGED <<l1, bits0>>
      /\ Word0(bit[t]) \in l1 /\ bits0[Word0(bit[t])] = {}
  BY WordOfPort, Zenon DEF bitmap_cas1, PortmapInv, TypeOK, CallInv, LocalInv, WordInv
<1>2. ASSUME bits1[v] = val[t], op[t] # "put", SetDone(t),
             bits1' = [bits1 EXCEPT ![v] = @ \cup {bit[t]}]
      PROVE  PortmapInv' /\ Effect(t)
  <2>1. TypeOK'
    BY <1>1, <1>2, NextPortInRange DEF PortmapInv, TypeOK, PCs
  <2>2. WordInv'
    BY <1>1, <1>2, Zenon DEF PortmapInv, WordInv, TypeOK
  <2>3. CallInv'
    BY <1>1, <1>2, Zenon DEF PortmapInv, CallInv, LocalInv, TypeOK, Full
  <2>4. bit[t] \notin Bits /\ Bits' = Bits \cup {bit[t]}
    <3>1. bit[t] \notin bits1[v]
      BY <1>1, <1>2, Zenon DEF PortmapInv, CallInv, LocalInv
    <3> QED
      BY <1>1, <1>2, <3>1, WordOfPort, Zenon DEF Bits, PortmapInv, TypeOK
  <2> QED
    BY <1>2, <2>1, <2>2, <2>3, <2>4, SetOwner, ZenonT(30)
<1>3. ASSUME op[t] = "put", ClrDone(t), bits1' = [bits1 EXCEPT ![v] = @ \ {bit[t]}]
      PROVE  PortmapInv' /\ Effect(t)
  <2>1. TypeOK'
    BY <1>1, <1>3, NextPortInRange DEF PortmapInv, TypeOK, PCs
  <2>2. WordInv'
    BY <1>1, <1>3 DEF PortmapInv, WordInv, TypeOK
  <2>3. CallInv'
    BY <1>1, <1>3, Zenon DEF PortmapInv, CallInv, LocalInv, TypeOK, Full
  <2>4. t \in Puts /\ Bits' = Bits \ {bit[t]}
    BY <1>1, <1>3, WordOfPort, Zenon DEF Bits, Puts, PortmapInv, TypeOK
  <2> QED
    BY <1>3, <2>1, <2>2, <2>3, <2>4, ClrOwner, Zenon
<1>4. ASSUME Goto(t, "load0"), UNCHANGED <<bits1, held, callVars>>
      PROVE  PortmapInv' /\ Effect(t)
  BY <1>1, <1>4, StartOver, Zenon
<1> QED
  BY <1>2, <1>3, <1>4, Zenon DEF bitmap_cas1

-----------------------------------------------------------------------------
(* The inductive invariant, and what follows from it.                      *)

\* Every step of npf_portmap.c preserves it.
LEMMA InvStep == PortmapInv /\ [Next]_vars => PortmapInv'
<1> SUFFICES ASSUME PortmapInv, [Next]_vars PROVE PortmapInv'
  OBVIOUS
<1>1. ASSUME NEW t \in Threads, Call(t) PROVE PortmapInv'
  BY <1>1, Ind_Begin, Ind_npf_portmap_put DEF Call
<1>2. ASSUME NEW t \in Threads, Step(t) PROVE PortmapInv'
  BY <1>2, Ind_bitmap_load0, Ind_bitmap_cas0, Ind_bitmap_alloc, Ind_bitmap_load1,
     Ind_bitmap_cas1 DEF Step
<1>3. ASSUME UNCHANGED vars PROVE PortmapInv'
  BY <1>3, Zenon DEF vars, PortmapInv, TypeOK, WordInv, CallInv, LocalInv, Full, OwnerInv, Bits, Puts
<1> QED
  BY <1>1, <1>2, <1>3 DEF Next

\* The inductive invariant holds throughout, whatever the interleaving of
\* npf_portmap_get, npf_portmap_take and npf_portmap_put.
THEOREM PortmapInvariant == Spec => []PortmapInv
  BY InvInit, InvStep, PTL DEF Spec

\* npf_portmap_get and npf_portmap_take never give the port of a live NAT entry
\* to another one.
THEOREM NoPortIsShared == Spec => []NoSharedPort
<1>1. PortmapInv => NoSharedPort
  BY DEF PortmapInv, OwnerInv, NoSharedPort
<1> QED
  BY <1>1, PortmapInvariant, PTL

\* What the two levels record together is what each port finds in its words.
LEMMA RecordedIsBits == PortmapInv => Recorded = Bits
  BY WordOfPort DEF PortmapInv, TypeOK, WordInv, Recorded, Bits

\* The bitmap records exactly the ports that are held or being put back, before,
\* while and after a word turns into a level-1 block, and no level-0 word is
\* ever asked to pack more values than it has slots.
THEOREM BitmapIsExact == Spec => []BitmapExact
<1>1. PortmapInv => BitmapExact
  <2> SUFFICES ASSUME PortmapInv PROVE BitmapExact
    OBVIOUS
  <2>1. Bits = {p \in Ports : held[p] > 0} \cup {bit[t] : t \in Puts}
    <3>1. \A p \in Ports : held[p] > 0 <=> held[p] = 1
      BY DEF PortmapInv, OwnerInv
    <3>2. \A t \in Puts : bit[t] \in Bits
      BY DEF PortmapInv, OwnerInv
    <3>3. \A p \in Bits : p \in Ports
      BY DEF Bits
    <3> QED
      BY <3>1, <3>2, <3>3 DEF PortmapInv, OwnerInv
  <2> QED
    BY <2>1, RecordedIsBits DEF BitmapExact, PortmapInv, WordInv, Puts
<1> QED
  BY <1>1, PortmapInvariant, PTL

\* npf_portmap.c implements PortAllocator: the successful swap of bitmap_set is
\* the moment a port is taken, that of bitmap_clr the moment it is free again,
\* and no other step, the change of level included, is visible.
THEOREM AllocatorRefinement == Spec => ImplementsAllocator
<1>1. Init => Allocator!Init
  BY WordOfPort DEF Init, Allocator!Init, Recorded
<1>2. ASSUME PortmapInv, PortmapInv', [Next]_vars
      PROVE  [Allocator!Next]_<<Recorded, held>>
  <2>1. Recorded = Bits /\ (Recorded = Bits)'
    BY <1>2, RecordedIsBits, PTL
  <2>2. ASSUME NEW t \in Threads, Effect(t) PROVE [Allocator!Next]_<<Recorded, held>>
    <3>1. bit[t] \in Ports
      BY <1>2 DEF PortmapInv, TypeOK
    <3> QED
      BY <2>1, <2>2, <3>1 DEF Effect, Allocator!Next, Allocator!Take, Allocator!Put
  <2>3. ASSUME NEW t \in Threads, Step(t) PROVE [Allocator!Next]_<<Recorded, held>>
    <3>1. Effect(t)
      BY <1>2, <2>3, Ind_bitmap_load0, Ind_bitmap_cas0, Ind_bitmap_alloc,
         Ind_bitmap_load1, Ind_bitmap_cas1 DEF Step
    <3> QED
      BY <2>2, <3>1
  <2>4. ASSUME NEW t \in Threads, NEW p \in Ports, npf_portmap_put(t, p)
        PROVE  [Allocator!Next]_<<Recorded, held>>
    <3>1. held[p] = 1 /\ p \in Bits
      BY <1>2, <2>4 DEF npf_portmap_put, PortmapInv, OwnerInv
    <3>2. held' = [held EXCEPT ![p] = held[p] - 1] /\ Bits' = Bits
      BY <2>4, Zenon DEF npf_portmap_put, Begin, Bits
    <3>3. held' = [held EXCEPT ![p] = 0]
      BY <3>1, <3>2
    <3> QED
      BY <2>1, <3>1, <3>2, <3>3, Zenon DEF Allocator!Next, Allocator!GiveUp
  <2>5. ASSUME NEW t \in Threads, NEW p \in Ports,
               npf_portmap_get(t, p) \/ npf_portmap_take(t, p)
        PROVE  UNCHANGED <<Recorded, held>>
    BY <2>5 DEF npf_portmap_get, npf_portmap_take, Begin, Recorded
  <2>6. ASSUME UNCHANGED vars PROVE UNCHANGED <<Recorded, held>>
    BY <2>6 DEF vars, Recorded
  <2> QED
    BY <1>2, <2>3, <2>4, <2>5, <2>6 DEF Next, Call
<1> QED
  BY <1>1, <1>2, PortmapInvariant, PTL DEF Spec, ImplementsAllocator, Allocator!Spec
====
