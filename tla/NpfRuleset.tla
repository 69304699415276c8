----------------------------- MODULE NpfRuleset ------------------------------
(***************************************************************************)
(* A ruleset from the configuration file to the packet.  npfctl builds a   *)
(* tree of groups and rules (npf_build.c), libnpf flattens it into an      *)
(* array with skip-to marks (npf.c), the kernel takes the array and runs a *)
(* packet through it (npf_ctl.c, npf_ruleset.c).  The rules can be         *)
(* exported, shown (npf_show.c) and loaded again.                          *)
(*                                                                         *)
(* A rule is [kind, head, final, name, sub].  Its head stands for what is  *)
(* matched: interface, direction, filter.  The packet arrives on interface *)
(* 1, inbound; NpfBpf has the filters.                                     *)
(***************************************************************************)
EXTENDS Integers, Sequences, SequencesExt

CONSTANTS
  Heads,             \* [ifid, di, code]: the heads of rules in use
  Names,             \* names of groups
  Subsets,           \* rules of a dynamic group, as sequences of [head, final]
  MAX_RULE_NESTING,
  NPF_MAX_RULES,
  MaxItems           \* bound: groups and rules in the file

VARIABLES
  current_group,     \* the open groups, innermost last; the first is the file
  defgroup,          \* the default group, <<>> while there is none
  conf,              \* the tree that was built, the default group last
  rules,             \* the array "rules" of the dictionary that is submitted
  rs,                \* the ruleset of the kernel
  walk,              \* [n, final_rl] of the packet
  pc                 \* "parse", "load", "idle", "inspect", "done", "refused"

vars == <<current_group, defgroup, conf, rules, rs, walk, pc>>

NoRule == 0
Item(kind, head, final, name, default) ==
  [kind |-> kind, head |-> head, final |-> final, name |-> name, default |-> default, sub |-> <<>>]
File == Item("file", CHOOSE h \in Heads : TRUE, FALSE, "", FALSE)

RECURSIVE Size(_)
Size(item) == 1 + FoldLeft(LAMBDA n, s : n + Size(s), 0, item.sub)
Items == FoldLeft(LAMBDA n, g : n + Size(g), 0, current_group \o defgroup) - 1

Init ==
  /\ current_group = <<File>> /\ defgroup = <<>>
  /\ conf = <<>> /\ rules = <<>> /\ rs = <<>>
  /\ walk = [n |-> 0, final_rl |-> NoRule] /\ pc = "parse"

-----------------------------------------------------------------------------
(* npf_build.c                                                             *)

rule_nesting_level == Len(current_group) - 1
Into(groups, item) == [groups EXCEPT ![Len(groups)].sub = Append(@, item)]

\* Two default groups, or one inside a group, are errors; as is the limit.
npfctl_build_group ==
  /\ pc = "parse" /\ Items < MaxItems
  /\ rule_nesting_level < MAX_RULE_NESTING
  /\ \E h \in Heads, name \in Names, def \in BOOLEAN :
       /\ def => /\ defgroup = <<>> /\ rule_nesting_level = 0
                 /\ h.ifid = 0 /\ h.di = {"in", "out"} /\ h.code
                 /\ ~\E i \in DOMAIN current_group : current_group[i].default
       /\ current_group' = Append(current_group, Item("group", h, FALSE, IF def THEN "" ELSE name, def))
  /\ UNCHANGED <<defgroup, conf, rules, rs, walk, pc>>

npfctl_build_group_end ==
  /\ pc = "parse" /\ rule_nesting_level > 0
  /\ LET group == Last(current_group) IN
     IF group.default
     THEN defgroup' = <<group>> /\ current_group' = Front(current_group)
     ELSE defgroup' = defgroup /\ current_group' = Into(Front(current_group), group)
  /\ UNCHANGED <<conf, rules, rs, walk, pc>>

\* A dynamic group is begun and ended at once; its rules come later.
npfctl_build_ruleset ==
  /\ pc = "parse" /\ Items < MaxItems
  /\ rule_nesting_level < MAX_RULE_NESTING
  /\ \E h \in Heads, name \in Names :
       current_group' = Into(current_group, Item("dynamic", h, FALSE, name, FALSE))
  /\ UNCHANGED <<defgroup, conf, rules, rs, walk, pc>>

npfctl_build_rule ==
  /\ pc = "parse" /\ Items < MaxItems
  /\ rule_nesting_level > 0
  /\ \E h \in Heads, final \in BOOLEAN :
       current_group' = Into(current_group, Item("rule", h, final, "", FALSE))
  /\ UNCHANGED <<defgroup, conf, rules, rs, walk, pc>>

-----------------------------------------------------------------------------
(* libnpf                                                                  *)

Dict(item, skip) == [kind |-> item.kind, head |-> item.head, final |-> item.final,
                     name |-> item.name, skip_to |-> skip]

\* Appends the items; what has subrules is marked with the position after them.
RECURSIVE _npf_rules_process(_, _)
_npf_rules_process(list, items) ==
  LET add(l, item) ==
        LET all == _npf_rules_process(Append(l, Dict(item, 0)), item.sub)
        IN  IF item.sub = <<>> THEN all ELSE [all EXCEPT ![Len(l) + 1].skip_to = Len(all)]
  IN  FoldLeft(add, list, items)

\* The default group is mandatory, and the last.
npfctl_config_build ==
  /\ pc = "parse" /\ rule_nesting_level = 0
  /\ defgroup # <<>>
  /\ conf' = Last(current_group).sub \o defgroup
  /\ rules' = _npf_rules_process(<<>>, conf')
  /\ pc' = "load"
  /\ UNCHANGED <<current_group, defgroup, rs, walk>>

-----------------------------------------------------------------------------
(* npf_ctl.c, npf_ruleset.c                                                *)

\* npf_rule_alloc, npf_ruleset_insert at index n: a skip-to that does not go
\* forward is adjusted to the next rule, and marked so.
npf_ruleset_insert(dict, n) ==
  [kind |-> dict.kind, head |-> dict.head, final |-> dict.final, name |-> dict.name, subset |-> <<>>,
   adj |-> dict.skip_to < n + 1, r_skip_to |-> IF dict.skip_to < n + 1 THEN n + 1 ELSE dict.skip_to]

\* A name must not be that of a dynamic group that was inserted before.
NameTaken ==
  \E i, j \in DOMAIN rules :
    /\ i < j /\ rules[i].kind = "dynamic"
    /\ rules[j].name # "" /\ rules[j].name = rules[i].name

npf_mk_rules ==
  /\ pc = "load"
  /\ IF NameTaken \/ Len(rules) > NPF_MAX_RULES
     THEN pc' = "refused" /\ rs' = rs
     ELSE /\ rs' = [i \in DOMAIN rules |-> npf_ruleset_insert(rules[i], i - 1)]
          /\ pc' = "idle"
  /\ UNCHANGED <<current_group, defgroup, conf, rules, walk>>

\* npf_ruleset_add in all: the rules of the dynamic groups.
npf_ruleset_add ==
  /\ pc = "idle"
  /\ \E i \in DOMAIN rs, s \in Subsets :
       /\ rs[i].kind = "dynamic" /\ rs[i].subset = <<>>
       /\ rs' = [rs EXCEPT ![i].subset = s]
  /\ UNCHANGED <<current_group, defgroup, conf, rules, walk, pc>>

npf_rule_export(rl) == Dict(rl, IF rl.adj THEN 0 ELSE rl.r_skip_to)

\* npfctl saves the active configuration and loads the saved one; the dynamic
\* groups keep their rules by name (npf_ruleset_reload).
npf_ruleset_export ==
  /\ pc = "idle"
  /\ LET saved == [i \in DOMAIN rs |-> npf_rule_export(rs[i])] IN
     /\ rules' = saved
     /\ rs' = [i \in DOMAIN rs |-> [npf_ruleset_insert(saved[i], i - 1) EXCEPT !.subset = rs[i].subset]]
  /\ UNCHANGED <<current_group, defgroup, conf, walk, pc>>

npf_rule_inspect(h) == (h.ifid = 0 \/ h.ifid = 1) /\ "in" \in h.di /\ h.code

\* The last rule that matches, or the first final one.
npf_rule_reinspect(subset) ==
  LET match == {i \in DOMAIN subset : npf_rule_inspect(subset[i].head)}
      final == {i \in match : subset[i].final}
  IN  IF match = {} THEN 0
      ELSE IF final = {} THEN CHOOSE i \in match : \A j \in match : j <= i
      ELSE CHOOSE i \in final : \A j \in final : i <= j

inspect_begin ==
  /\ pc = "idle"
  /\ walk' = [n |-> 0, final_rl |-> NoRule] /\ pc' = "inspect"
  /\ UNCHANGED <<current_group, defgroup, conf, rules, rs>>

\* Rules are numbered from one; a rule of a dynamic group is <<group, rule>>.
Decide(rl) == walk' = [walk EXCEPT !.final_rl = rl] /\ pc' = "done"
Advance(n, rl) == walk' = [n |-> n, final_rl |-> rl] /\ pc' = pc

\* Mutant: a group is no barrier.
Barrier_none(rl) == FALSE
Barrier(rl) == rl.kind # "rule" /\ walk.final_rl # NoRule

npf_ruleset_inspect ==
  /\ pc = "inspect"
  /\ IF walk.n >= Len(rs) THEN Decide(walk.final_rl)
     ELSE LET i == walk.n + 1
              rl == rs[i]
              sub == npf_rule_reinspect(rl.subset)
          IN  CASE Barrier(rl) -> Decide(walk.final_rl)
                [] ~Barrier(rl) /\ ~npf_rule_inspect(rl.head) -> Advance(rl.r_skip_to, walk.final_rl)
                [] ~Barrier(rl) /\ npf_rule_inspect(rl.head) ->
                     CASE rl.kind = "dynamic" -> IF sub # 0 THEN Decide(100 * i + sub)
                                                 ELSE Advance(i, walk.final_rl)
                       [] rl.kind = "rule" -> IF rl.final THEN Decide(i) ELSE Advance(i, i)
                       [] rl.kind = "group" -> Advance(i, walk.final_rl)
  /\ UNCHANGED <<current_group, defgroup, conf, rules, rs>>

Next ==
  \/ npfctl_build_group \/ npfctl_build_group_end \/ npfctl_build_ruleset \/ npfctl_build_rule
  \/ npfctl_config_build \/ npf_mk_rules \/ npf_ruleset_add \/ npf_ruleset_export
  \/ inspect_begin \/ npf_ruleset_inspect

Spec == Init /\ [][Next]_vars

-----------------------------------------------------------------------------
(* Showing.                                                                *)

\* _npf_rule_iterate1 over the array: the level of every rule.
IterStep(it, i) ==
  LET skipto == rules[i].skip_to
      reduce == IF skipto # 0 THEN Append(it.reduce, skipto) ELSE it.reduce
  IN  [levels |-> Append(it.levels, Len(it.reduce)),
       reduce |-> IF reduce # <<>> /\ Last(reduce) = i THEN Front(reduce) ELSE reduce]

npf_rule_iterate ==
  FoldLeft(IterStep, [levels |-> <<>>, reduce |-> <<>>], [i \in DOMAIN rules |-> i]).levels

\* print_indent, npfctl_print_rule: the brackets before and after a rule.
ShowStep(s, i) ==
  LET level == npf_rule_iterate[i]
      close == s.glevel >= 0 /\ level <= s.glevel
      open == rules[i].kind = "group"
  IN  [text |-> s.text \o (IF close THEN <<"}">> ELSE <<>>) \o <<rules[i].kind>>
                       \o (IF open THEN <<"{">> ELSE <<>>),
       glevel |-> IF open THEN level ELSE IF close THEN -1 ELSE s.glevel]

npfctl_config_show ==
  LET s == FoldLeft(ShowStep, [text |-> <<>>, glevel |-> -1], [i \in DOMAIN rules |-> i])
  IN  s.text \o (IF s.glevel >= 0 THEN <<"}">> ELSE <<>>)

-----------------------------------------------------------------------------
(* What the tree means.                                                    *)

\* The state of a walk is [at, rl, stop]; at counts the rules of the tree.
RECURSIVE TreeWalk(_, _)
TreeWalk(w, items) ==
  LET visit(v, item) ==
        LET i == v.at + 1
            past == [v EXCEPT !.at = @ + Size(item)]
            sub == npf_rule_reinspect(rs[i].subset)
        IN  CASE v.stop -> v
              [] ~v.stop /\ item.kind # "rule" /\ v.rl # NoRule -> [v EXCEPT !.stop = TRUE]
              [] ~v.stop /\ (item.kind = "rule" \/ v.rl = NoRule) ->
                   CASE ~npf_rule_inspect(item.head) -> past
                     [] npf_rule_inspect(item.head) /\ item.kind = "rule" ->
                          [past EXCEPT !.rl = i, !.stop = item.final]
                     [] npf_rule_inspect(item.head) /\ item.kind = "dynamic" ->
                          IF sub = 0 THEN past ELSE [v EXCEPT !.rl = 100 * i + sub, !.stop = TRUE]
                     [] npf_rule_inspect(item.head) /\ item.kind = "group" ->
                          TreeWalk([v EXCEPT !.at = i], item.sub)
  IN  FoldLeft(visit, w, items)

\* The packet gets the rule that a walk over the groups of the configuration
\* file finds, through the skip-to marks, whatever the nesting, also after
\* the ruleset was saved and loaded.
RulesetSound ==
  pc = "done" => walk.final_rl = TreeWalk([at |-> 0, rl |-> NoRule, stop |-> FALSE], conf).rl

RECURSIVE Depths(_, _)
Depths(items, depth) ==
  FlattenSeq([i \in DOMAIN items |-> <<depth>> \o Depths(items[i].sub, depth + 1)])
RECURSIVE Text(_)
Text(items) ==
  FlattenSeq([i \in DOMAIN items |-> <<items[i].kind>> \o
     (IF items[i].kind = "group" THEN <<"{">> \o Text(items[i].sub) \o <<"}">> ELSE <<>>)])

EndTogether == \E i, j \in DOMAIN rules : i # j /\ rules[i].skip_to # 0 /\ rules[i].skip_to = rules[j].skip_to
Nested == \E i \in DOMAIN conf : \E j \in DOMAIN conf[i].sub : conf[i].sub[j].kind = "group"

\* "npfctl show" puts every rule at the depth it has in the file, unless two
\* groups end at the same rule: the level goes down by one only.  The
\* brackets are those of the file, unless groups are nested: one is closed.
ShownNesting ==
  pc \in {"load", "idle"} =>
    /\ ~EndTogether => npf_rule_iterate = Depths(conf, 0)
    /\ ~Nested => npfctl_config_show = Text(conf)
====
