----------------------------- MODULE MCNpfConfig ------------------------------
(* Instance of NpfConfig for TLC.                                            *)
EXTENDS NpfConfig, TLC

Host(a) == [addr |-> a, len |-> 1]
MCCidrs == {Host(0), [addr |-> 0, len |-> 0]}
T(name, type, ents) == [name |-> name, type |-> type, ents |-> ents]

MCFirst == [groups |-> {"g"}, tables |-> <<T("t", "ipset", {}), T("i", "ifaddr", {})>>,
            conns |-> FALSE]
MCConfigs == {MCFirst,
  [groups |-> {"g"}, tables |-> <<T("t", "lpm", {})>>, conns |-> TRUE],
  [groups |-> {}, tables |-> <<T("i", "ifaddr", {}), T("t", "ipset", {Host(0)})>>, conns |-> FALSE]}
MCPrios == {NPF_PRI_FIRST, 1}
MCSymmetry == Permutations(Rules) \cup Permutations(Tables) \cup Permutations(Sets)
====
