----------------------------- MODULE NpfConfig -------------------------------
(***************************************************************************)
(* The active configuration under reloads: dynamic rules (npf_ruleset.c),  *)
(* tables (npf_tableset.c, npf_ifaddr.c) and the control operations on     *)
(* them (npf_ctl.c, npf_conf.c), with packets walking the rules and        *)
(* looking up tables without a lock, inside EBR sections.                  *)
(*                                                                         *)
(* One control operation at a time holds config_lock.  The lock is given   *)
(* back before npf_config_load destroys the old configuration, so that     *)
(* other operations may run in between (Overlap).                          *)
(***************************************************************************)
EXTENDS Integers, Sequences, SequencesExt, FiniteSets

CONSTANTS
  Rules, Tables,   \* memory for dynamic rules and for tables
  Sets,            \* memory for configurations: npf_config_t
  Configs,         \* what may be loaded: [groups, tables, conns]
  First,           \* the configuration active initially
  Keys, Prios,     \* rule keys; priorities and NPF_PRI_FIRST, NPF_PRI_LAST
  Cidrs, Bits,     \* table entries [addr, len]; bits of an address
  Readers, NULL,
  MaxId,           \* bound on rs_idcnt
  Overlap          \* a table may be replaced while an old set is destroyed

VARIABLES
  conf,      \* per set: [st, groups, conns]
  head,      \* per set and group: r_subset
  idcnt,     \* per set: rs_idcnt
  rule,      \* per rule: [list, id, key, prio, parent]; list is NULL if free
  next,      \* per rule: r_next
  tset,      \* per set: the sequence ts_map
  tab,       \* per table: [live, name, type, ref, ents, gc]
  active,    \* npf_t::config
  ctl,       \* the holder of config_lock: [op, wait, obj]
  rd         \* per reader: [pc, set, at, final, seen, must, tab, ent]

ruleVars == <<head, idcnt, rule, next>>
vars == <<conf, ruleVars, tset, tab, active, ctl, rd>>

Groups == UNION {c.groups : c \in Configs}
FreeRule == [list |-> NULL, id |-> 0, key |-> NULL, prio |-> 0, parent |-> NULL]
FreeTable == [live |-> FALSE, name |-> NULL, type |-> NULL, ref |-> 0, ents |-> {}, gc |-> {}]
Outside == [pc |-> "out", set |-> NULL, at |-> NULL, final |-> NULL, seen |-> {},
            must |-> {}, tab |-> NULL, ent |-> NULL]
Idle == [op |-> "idle", wait |-> {}, obj |-> NULL]

\* Memory that nobody refers to any more and that may be handed out again.
SpareRules == {r \in Rules : rule[r].list = NULL /\ \A x \in Readers : rd[x].at # r /\ r \notin rd[x].must}
SpareTables == {t \in Tables : /\ ~tab[t].live
                               /\ \A x \in Readers : rd[x].tab # t
                               /\ \A s \in Sets : \A i \in DOMAIN tset[s] : tset[s][i] # t}

\* The rules that are reached from h.
Chain(h) ==
  LET c[i \in 0 .. Cardinality(Rules)] ==
        IF i = 0 THEN <<>>
        ELSE LET at == IF c[i - 1] = <<>> THEN h ELSE next[Last(c[i - 1])]
             IN  IF at = NULL THEN c[i - 1] ELSE Append(c[i - 1], at)
  IN  c[Cardinality(Rules)]

Covers(c, a) == c.addr \div 2^(Bits - c.len) = a \div 2^(Bits - c.len)

\* npf_mk_table_entries: the entries npf_table_insert takes one by one.
ValidEntries(type, ents) ==
  IF type = "lpm" THEN \A c, d \in ents : c # d => ~Covers(c, d.addr)
  ELSE \A c \in ents : c.len = Bits

\* npf_table_create and npf_mk_table_entries
NewTable(name, type, ents) ==
  [live |-> TRUE, name |-> name, type |-> type, ref |-> 0, ents |-> ents, gc |-> {}]

Init ==
  /\ conf = [s \in Sets |-> [st |-> "none", groups |-> {}, conns |-> FALSE]]
  /\ head = [s \in Sets |-> [n \in Groups |-> NULL]]
  /\ idcnt = [s \in Sets |-> 0]
  /\ rule = [r \in Rules |-> FreeRule] /\ next = [r \in Rules |-> NULL]
  /\ tset = [s \in Sets |-> <<>>] /\ tab = [t \in Tables |-> FreeTable]
  /\ active = NULL /\ ctl = Idle /\ rd = [x \in Readers |-> Outside]

-----------------------------------------------------------------------------
(* EBR: the section of a packet, and the synchronisation of a writer.      *)

\* Mutant: nobody is waited for.
InCrit_none == {}
InCrit == {x \in Readers : rd[x].pc # "out"}

npf_config_sync(op, obj) == ctl' = [op |-> op, wait |-> InCrit, obj |-> obj]
Synced(op) == ctl.op = op /\ ctl.wait = {}

npf_config_read_exit(x) ==
  /\ rd' = [rd EXCEPT ![x] = Outside]
  /\ ctl' = [ctl EXCEPT !.wait = @ \ {x}]

-----------------------------------------------------------------------------
(* npf_tableset.c                                                          *)

\* lpm_lookup: the longest prefix that covers the address, or none.
lpm_lookup(ents, a) ==
  LET cover == {c \in ents : Covers(c, a)}
  IN  {c \in cover : \A d \in cover : d.len <= c.len}

\* npf_table_insert: whether the entry is taken.  Constant tables have
\* entries from their creation only; interface tables are replaced.
MayInsert(t, c) ==
  CASE tab[t].type = "ipset" -> c.len = Bits /\ c \notin tab[t].ents
    [] tab[t].type = "lpm" -> lpm_lookup(tab[t].ents, c.addr) = {}
    [] OTHER -> FALSE

\* npf_table_remove: an element of a hash map is left to npf_table_gc; of a
\* prefix tree, the longest match goes, whatever mask was given.
Removed(t, c) ==
  CASE tab[t].type = "ipset" -> {e \in tab[t].ents : e.addr = c.addr}
    [] tab[t].type = "lpm" -> lpm_lookup(tab[t].ents, c.addr)
    [] OTHER -> {}

\* Mutant: the old table is kept even if the new one comes with entries.
Preserves_any(t, ot) == tab[ot].name = tab[t].name /\ tab[ot].type = tab[t].type
Preserves(t, ot) ==
  /\ tab[t].ents = {}
  /\ tab[ot].name = tab[t].name /\ tab[ot].type = tab[t].type

\* npf_tableset_reload: the table that takes the place of t.
Inherited(s, i) ==
  LET old == {j \in DOMAIN tset[active] : Preserves(tset[s][i], tset[active][j])}
  IN  IF old = {} THEN tset[s][i] ELSE tset[active][CHOOSE j \in old : TRUE]

\* Mutant: no reference is taken for the second tableset.
Holders_one(t, map) == IF \E i \in DOMAIN map : map[i] = t THEN 0 ELSE -1
Holders(t, map) == IF \E i \in DOMAIN map : map[i] = t THEN 1 ELSE 0

npf_tableset_reload(s) ==
  LET map == [i \in DOMAIN tset[s] |-> Inherited(s, i)] IN
  /\ tset' = [tset EXCEPT ![s] = map]
  /\ tab' = [t \in Tables |->
       IF \E i \in DOMAIN map : tset[s][i] = t
       THEN IF Holders(t, map) = 1 THEN tab[t] ELSE FreeTable
       ELSE [tab[t] EXCEPT !.ref = @ + Holders(t, map)]]

\* npf_tableset_destroy: drop the references, free what has no other.
npf_tableset_destroy(s) ==
  /\ tab' = [t \in Tables |->
       IF Holders(t, tset[s]) = 0 THEN tab[t]
       ELSE IF tab[t].ref = 1 THEN FreeTable ELSE [tab[t] EXCEPT !.ref = @ - 1]]
  /\ tset' = [tset EXCEPT ![s] = <<>>]

-----------------------------------------------------------------------------
(* npf_ruleset.c                                                           *)

NPF_PRI_FIRST == -2
PrioOf(p) == IF p < 0 THEN 0 ELSE p

\* npf_ruleset_add: the rule after which the new one goes, NULL for the head.
Target(h, p) ==
  LET c == Chain(h)
      before == {i \in DOMAIN c : \A j \in 1 .. i : rule[c[j]].prio <= PrioOf(p)}
  IN  IF p = NPF_PRI_FIRST \/ before = {} THEN NULL
      ELSE c[CHOOSE i \in before : \A j \in before : j <= i]

\* The new rule's r_next is set before the rule is published by one store.
\* Mutant: it is not set.
Successor_none(n, target) == NULL
Successor(n, target) == IF target = NULL THEN head[active][n] ELSE next[target]

Publish(n, r, target) ==
  IF target = NULL
  THEN /\ head' = [head EXCEPT ![active][n] = r]
       /\ next' = [next EXCEPT ![r] = Successor(n, target)]
  ELSE /\ next' = [next EXCEPT ![r] = Successor(n, target), ![target] = r]
       /\ UNCHANGED head

\* npf_ruleset_unlink: the rule itself keeps its r_next.
npf_ruleset_unlink(n, r) ==
  LET c == Chain(head[active][n])
      i == CHOOSE j \in DOMAIN c : c[j] = r
  IN  IF i = 1
      THEN head' = [head EXCEPT ![active][n] = next[r]] /\ UNCHANGED next
      ELSE next' = [next EXCEPT ![c[i - 1]] = next[r]] /\ UNCHANGED head

ToGc(rs) == rule' = [r \in Rules |-> IF r \in rs THEN [rule[r] EXCEPT !.list = <<active, "gc">>]
                                     ELSE rule[r]]

\* npf_ruleset_reload: the rules of the groups both sets have go to the list
\* of the new one.  Mutant: they stay on the list of the old one.
Migrated_none(s) == {}
Migrated(s) ==
  UNION {ToSet(Chain(head[active][n])) : n \in conf[s].groups \cap conf[active].groups}

npf_ruleset_reload(s) ==
  /\ head' = [head EXCEPT ![s] = [n \in Groups |->
                IF n \in conf[s].groups \cap conf[active].groups
                THEN head[active][n] ELSE NULL]]
  /\ rule' = [r \in Rules |->
       IF r \in Migrated(s)
       THEN [rule[r] EXCEPT !.list = <<s, "all">>, !.parent = <<s, @[2]>>]
       ELSE rule[r]]
  /\ idcnt' = [idcnt EXCEPT ![s] = IF conf[s].conns THEN @ ELSE idcnt[active]]

\* npf_rule_free
RuleFree(rs) ==
  /\ rule' = [r \in Rules |-> IF r \in rs THEN FreeRule ELSE rule[r]]
  /\ next' = [r \in Rules |-> IF r \in rs THEN NULL ELSE next[r]]

\* npf_ruleset_destroy: the rules on its lists are freed.
npf_ruleset_destroy(s) ==
  /\ RuleFree({r \in Rules : rule[r].list \in {<<s, "all">>, <<s, "gc">>}})
  /\ head' = [head EXCEPT ![s] = [n \in Groups |-> NULL]]
  /\ idcnt' = [idcnt EXCEPT ![s] = 0]

-----------------------------------------------------------------------------
(* npf_ctl.c, npf_conf.c: loading a configuration.                         *)

\* npfctl_load builds the new configuration: tables, rulesets.
npfctl_load(s, c) ==
  /\ conf[s].st = "none"
  /\ \E ts \in [DOMAIN c.tables -> SpareTables] :
       /\ \A i, j \in DOMAIN ts : ts[i] = ts[j] => i = j
       /\ tset' = [tset EXCEPT ![s] = ts]
       /\ tab' = [t \in Tables |->
            IF \E i \in DOMAIN ts : ts[i] = t
            THEN LET d == c.tables[CHOOSE i \in DOMAIN ts : ts[i] = t]
                 IN  [NewTable(d.name, d.type, d.ents) EXCEPT !.ref = 1]
            ELSE tab[t]]
  /\ conf' = [conf EXCEPT ![s] = [st |-> "new", groups |-> c.groups, conns |-> c.conns]]
  /\ idcnt' = [idcnt EXCEPT ![s] = Cardinality(c.groups)]
  /\ UNCHANGED <<head, rule, next, active, ctl, rd>>

npf_config_destroy(s) ==
  /\ npf_ruleset_destroy(s)
  /\ npf_tableset_destroy(s)
  /\ conf' = [conf EXCEPT ![s] = [st |-> "none", groups |-> {}, conns |-> FALSE]]
  /\ UNCHANGED <<active, ctl, rd>>

\* A later part of the request is refused: the new configuration goes.
npfctl_load_fail(s) == conf[s].st = "new" /\ active # NULL /\ npf_config_destroy(s)

\* The initial load.
npf_config_load_first(s) ==
  /\ conf[s].st = "new" /\ active = NULL
  /\ conf' = [conf EXCEPT ![s].st = "active"]
  /\ active' = s
  /\ UNCHANGED <<ruleVars, tset, tab, ctl, rd>>

\* Under the lock, the new one inherits and replaces the active one.
npf_config_load(s) ==
  /\ conf[s].st = "new" /\ active # NULL /\ ctl = Idle
  /\ npf_ruleset_reload(s)
  /\ npf_tableset_reload(s)
  /\ conf' = [conf EXCEPT ![s].st = "active", ![active].st = "drained"]
  /\ active' = s
  /\ npf_config_sync("load", active)
  /\ UNCHANGED <<next, rd>>

\* All references are drained; the lock is released.
config_load_synced ==
  /\ Synced("load")
  /\ conf' = [conf EXCEPT ![ctl.obj].st = "old"]
  /\ ctl' = Idle
  /\ UNCHANGED <<ruleVars, tset, tab, active, rd>>

\* "Finally, it is safe to destroy the old config", without the lock.
config_load_destroy(s) == conf[s].st = "old" /\ npf_config_destroy(s)

-----------------------------------------------------------------------------
(* npf_ctl.c: operations on dynamic rules and on tables.                   *)

npf_ruleset_add(n, r, key, p) ==
  /\ active # NULL /\ ctl = Idle /\ n \in conf[active].groups
  /\ r \in SpareRules /\ idcnt[active] < MaxId
  /\ idcnt' = [idcnt EXCEPT ![active] = @ + 1]
  /\ rule' = [rule EXCEPT ![r] = [list |-> <<active, "all">>, id |-> idcnt[active] + 1,
                                  key |-> key, prio |-> PrioOf(p), parent |-> <<active, n>>]]
  /\ Publish(n, r, Target(head[active][n], p))
  /\ UNCHANGED <<conf, tset, tab, active, ctl, rd>>

\* npf_ruleset_remove and npf_ruleset_remkey: the first rule with the ID, the
\* last one with the key.
npfctl_rule_remove(n, r) ==
  /\ active # NULL /\ ctl = Idle /\ n \in conf[active].groups
  /\ LET c == Chain(head[active][n]) IN
     \E i \in DOMAIN c :
       /\ c[i] = r
       /\ \/ \A j \in 1 .. i - 1 : rule[c[j]].id # rule[r].id
          \/ \A j \in i + 1 .. Len(c) : rule[c[j]].key # rule[r].key
  /\ npf_ruleset_unlink(n, r)
  /\ ToGc({r})
  /\ npf_config_sync("rules", NULL)
  /\ UNCHANGED <<conf, idcnt, tset, tab, active, rd>>

npf_ruleset_flush(n) ==
  /\ active # NULL /\ ctl = Idle /\ n \in conf[active].groups
  /\ ToGc(ToSet(Chain(head[active][n])))
  /\ head' = [head EXCEPT ![active][n] = NULL]
  /\ idcnt' = [idcnt EXCEPT ![active] = 0]
  /\ npf_config_sync("rules", NULL)
  /\ UNCHANGED <<conf, next, tset, tab, active, rd>>

npf_ruleset_gc ==
  /\ Synced("rules")
  /\ RuleFree({r \in Rules : rule[r].list = <<active, "gc">>})
  /\ ctl' = Idle
  /\ UNCHANGED <<conf, head, idcnt, tset, tab, active, rd>>

npf_table_insert(i, c) ==
  /\ active # NULL /\ ctl = Idle /\ i \in DOMAIN tset[active]
  /\ MayInsert(tset[active][i], c)
  /\ tab' = [tab EXCEPT ![tset[active][i]].ents = @ \cup {c}]
  /\ UNCHANGED <<conf, ruleVars, tset, active, ctl, rd>>

\* npf_table_remove, and npf_table_gc when there is something to collect.
npf_table_remove(i, c) ==
  /\ active # NULL /\ ctl = Idle /\ i \in DOMAIN tset[active]
  /\ LET t == tset[active][i]
         gone == Removed(t, c)
         gc == IF tab[t].type = "ipset" THEN gone ELSE {}
     IN  /\ gone # {}
         /\ tab' = [tab EXCEPT ![t].ents = @ \ gone, ![t].gc = @ \cup gc]
         /\ IF gc = {} THEN UNCHANGED ctl ELSE npf_config_sync("table", t)
  /\ UNCHANGED <<conf, ruleVars, tset, active, rd>>

npf_table_gc ==
  /\ Synced("table")
  /\ tab' = [tab EXCEPT ![ctl.obj].gc = {}]
  /\ ctl' = Idle
  /\ UNCHANGED <<conf, ruleVars, tset, active, rd>>

\* npf_table_flush: the entries are freed at once.  A reader that is at one
\* of them is marked.
npf_table_flush(i) ==
  /\ active # NULL /\ ctl = Idle /\ i \in DOMAIN tset[active]
  /\ LET t == tset[active][i] IN
     /\ tab[t].type \in {"ipset", "lpm"} /\ tab[t].ents # {}
     /\ tab' = [tab EXCEPT ![t].ents = {}]
     /\ rd' = [x \in Readers |-> IF rd[x].tab = t THEN [rd[x] EXCEPT !.ent = NULL] ELSE rd[x]]
  /\ UNCHANGED <<conf, ruleVars, tset, active, ctl>>

\* npfctl_table_replace, npf_ifaddr_sync and npf_ifaddr_flush: a new table of
\* the same name and ID is swapped in; the references go with the place.
npf_tableset_swap(i, t, ents) ==
  /\ active # NULL /\ ctl = Idle /\ i \in DOMAIN tset[active]
  /\ Overlap \/ \A s \in Sets : conf[s].st # "old"
  /\ t \in SpareTables
  /\ LET old == tset[active][i] IN
     /\ ValidEntries(tab[old].type, ents)
     /\ tab' = [tab EXCEPT
          ![t] = [NewTable(tab[old].name, tab[old].type, ents) EXCEPT !.ref = tab[old].ref],
          ![old].ref = 0]
     /\ npf_config_sync("swap", old)
  /\ tset' = [tset EXCEPT ![active][i] = t]
  /\ UNCHANGED <<conf, ruleVars, active, rd>>

npf_table_destroy ==
  /\ Synced("swap")
  /\ tab' = [tab EXCEPT ![ctl.obj] = FreeTable]
  /\ ctl' = Idle
  /\ UNCHANGED <<conf, ruleVars, tset, active, rd>>

-----------------------------------------------------------------------------
(* A packet: npf_ruleset_inspect reaching a dynamic group, or a table.     *)

npf_config_read_enter(x) ==
  /\ rd[x].pc = "out" /\ active # NULL
  /\ rd' = [rd EXCEPT ![x].pc = "in", ![x].set = active]
  /\ UNCHANGED <<conf, ruleVars, tset, tab, active, ctl>>

\* The rules that were added to a group and not removed.
RulesOf(s, n) == {r \in Rules : /\ rule[r].list \in {<<s, "all">>, <<active, "all">>}
                                /\ rule[r].parent[2] = n}

\* npf_rule_reinspect loads r_subset.
npf_rule_reinspect(x, n) ==
  /\ rd[x].pc = "in" /\ n \in conf[rd[x].set].groups
  /\ rd' = [rd EXCEPT ![x].pc = "walk", ![x].at = head[rd[x].set][n],
                      ![x].must = RulesOf(rd[x].set, n)]
  /\ UNCHANGED <<conf, ruleVars, tset, tab, active, ctl>>

\* The rule matches or not; then on to r_next.
npf_rule_inspect(x, match) ==
  /\ rd[x].pc = "walk" /\ rd[x].at # NULL
  /\ rd' = [rd EXCEPT ![x].at = next[rd[x].at], ![x].seen = @ \cup {rd[x].at},
                      ![x].final = IF match THEN rd[x].at ELSE @]
  /\ UNCHANGED <<conf, ruleVars, tset, tab, active, ctl>>

\* The end of the list, or a "final" rule.
npf_ruleset_inspect_done(x) ==
  /\ rd[x].pc = "walk"
  /\ rd[x].at = NULL \/ rd[x].final # NULL
  /\ npf_config_read_exit(x)
  /\ UNCHANGED <<conf, ruleVars, tset, tab, active>>

\* npf_table_lookup or npf_table_getsome: the packet is at an entry.
npf_table_lookup(x, i) ==
  /\ rd[x].pc = "in" /\ i \in DOMAIN tset[rd[x].set]
  /\ LET t == tset[rd[x].set][i] IN
     \E e \in (IF tab[t].type = "lpm" THEN {} ELSE tab[t].ents) \cup {NULL} :
       rd' = [rd EXCEPT ![x].pc = "table", ![x].tab = t, ![x].ent = e]
  /\ UNCHANGED <<conf, ruleVars, tset, tab, active, ctl>>

table_lookup_done(x) ==
  /\ rd[x].pc = "table"
  /\ npf_config_read_exit(x)
  /\ UNCHANGED <<conf, ruleVars, tset, tab, active>>

-----------------------------------------------------------------------------
Reader(x) ==
  \/ npf_config_read_enter(x)
  \/ \E n \in Groups : npf_rule_reinspect(x, n)
  \/ \E match \in BOOLEAN : npf_rule_inspect(x, match)
  \/ npf_ruleset_inspect_done(x)
  \/ \E i \in 1 .. Cardinality(Tables) : npf_table_lookup(x, i)
  \/ table_lookup_done(x)

Load ==
  \/ \E s \in Sets :
       \/ \E c \in Configs : (active = NULL => c = First) /\ npfctl_load(s, c)
       \/ npfctl_load_fail(s)
       \/ npf_config_load_first(s)
       \/ npf_config_load(s)
       \/ config_load_destroy(s)
  \/ config_load_synced

RuleOp ==
  \/ \E n \in Groups :
       \/ \E r \in Rules, k \in Keys, p \in Prios : npf_ruleset_add(n, r, k, p)
       \/ \E r \in Rules : npfctl_rule_remove(n, r)
       \/ npf_ruleset_flush(n)
  \/ npf_ruleset_gc

TableOp ==
  \/ \E i \in 1 .. Cardinality(Tables) :
       \/ \E c \in Cidrs : npf_table_insert(i, c) \/ npf_table_remove(i, c)
       \/ npf_table_flush(i)
       \/ \E t \in Tables, ents \in SUBSET Cidrs : npf_tableset_swap(i, t, ents)
  \/ npf_table_gc \/ npf_table_destroy

Next == (\E x \in Readers : Reader(x)) \/ Load \/ RuleOp \/ TableOp
Spec == Init /\ [][Next]_vars

-----------------------------------------------------------------------------
(* Properties.                                                             *)

\* What a packet is at inside its EBR section is not freed: neither a dynamic
\* rule, nor a table, nor an entry of a table that was removed, nor the
\* configuration itself (the synchronisation before npf_ruleset_gc,
\* npf_table_gc, npf_table_destroy and npf_config_destroy).
NoFreedMemory ==
  \A x \in Readers :
    /\ rd[x].set # NULL => conf[rd[x].set].st \in {"active", "drained"}
    /\ rd[x].at # NULL => rule[rd[x].at].list # NULL
    /\ rd[x].tab # NULL => tab[rd[x].tab].live
    /\ rd[x].ent # NULL => rd[x].ent \in tab[rd[x].tab].ents \cup tab[rd[x].tab].gc

\* A walk over a dynamic group at its end has visited every rule that had been
\* added when it began and has not been removed, and meets priorities in
\* ascending order (KASSERT of npf_rule_reinspect), though rules were added
\* and removed meanwhile.
WalkSound ==
  \A x \in Readers :
    /\ (rd[x].pc = "walk" /\ rd[x].at = NULL) =>
         \A r \in rd[x].must : rule[r].list # NULL /\ rule[r].list[2] = "all" => r \in rd[x].seen
    /\ (rd[x].at # NULL /\ rd[x].final # NULL) => rule[rd[x].final].prio <= rule[rd[x].at].prio

\* Every dynamic rule is owned once: it is on the list of a set that exists,
\* in the group that its r_parent names, and in the active set if that has the
\* group; and the groups of the active set hold only rules of their own.
RulesOwned ==
  /\ \A r \in Rules : rule[r].list # NULL =>
       LET s == rule[r].list[1] IN
       /\ conf[s].st \in {"active", "drained", "old"}
       /\ rule[r].parent[1] = s
       /\ rule[r].list[2] = "all" => r \in ToSet(Chain(head[s][rule[r].parent[2]]))
  /\ active # NULL =>
       \A n \in conf[active].groups : \A r \in ToSet(Chain(head[active][n])) :
         rule[r].list = <<active, "all">> /\ rule[r].parent = <<active, n>>

\* t_refcnt is the number of tablesets that have the table, the table that
\* was swapped out has none, and no tableset has a table that was freed
\* (KASSERT(t->t_refcnt == 0) of npf_table_destroy).
TableRefs ==
  /\ \A t \in Tables : tab[t].live =>
       tab[t].ref = Cardinality({s \in Sets : \E i \in DOMAIN tset[s] : tset[s][i] = t})
  /\ \A s \in Sets : \A i \in DOMAIN tset[s] : tab[tset[s][i]].live

\* A reload keeps the dynamic rules of the groups it has, in their order, and
\* the entries of the tables it has unless it brings its own or changes their
\* type.
ReloadKeeps ==
  [][(active' # active /\ active # NULL) =>
       /\ \A n \in conf[active].groups \cap conf[active'].groups :
            head'[active'][n] = head[active][n]
       /\ \A i \in DOMAIN tset[active'] :
            LET t == tset[active'][i]
                now == tab'[tset'[active'][i]]
                old == {tab[tset[active][j]] : j \in DOMAIN tset[active]}
            IN  /\ now.name = tab[t].name /\ now.type = tab[t].type
                /\ now.ents = IF tab[t].ents # {} THEN tab[t].ents
                              ELSE UNION {o.ents : o \in {p \in old : p.name = now.name /\ p.type = now.type}}
    ]_vars
====
