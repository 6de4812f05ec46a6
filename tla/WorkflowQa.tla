------------------------------- MODULE WorkflowQa -------------------------------
(* A pilot's workflow on its way to a handoff: what recommends it, what a build      *)
(* package freezes, and the hard tests its QA runs. A blueprint b is                 *)
(*   nodes      node -> [type, next, consent]; next is a sequence of nodes, some of  *)
(*              which may not exist, consent says whether the node's text is about it *)
(*   audience, collision, metric, strategy   whether the text is there               *)
(*   tests, minimum                          what QA runs, and the score it asks for *)
(*   min_dcs, checks, modes                  the gates: a headline in percent, check  *)
(*                                           results and architecture modes          *)
(* A recommendation context c is [scored, headline, results, mode, stored]: the      *)
(* newest score (in thousandths of a percent) and its statuses, the mode of the      *)
(* architecture assessment, "none" without one, and the stored supplemental statuses. *)
EXTENDS PilotGates

-----------------------------------------------------------------------------
(* What a pilot is recommended on.                                                 *)

is_supplemental_gate(check) == check \in Supplementals
Hard(b) == {x \in b.checks : ~is_supplemental_gate(x)}
Supplemental(b) == {x \in b.checks : is_supplemental_gate(x)}

(* A supplemental is never read from the score.                                    *)
Answers(c, check) == IF is_supplemental_gate(check) THEN c.stored ELSE c.results
_raw_gate_status(c, check) ==
  IF check \in DOMAIN Answers(c, check) THEN Answers(c, check)[check] ELSE "missing"

_gate_result_label(c, check) ==
  LET raw == _raw_gate_status(c, check)
  IN IF raw # "missing" THEN raw
     ELSE IF is_supplemental_gate(check) THEN "NOT_EVALUATED" ELSE "UNKNOWN"

Unevaluated(b, c) == {x \in Supplemental(b) : _raw_gate_status(c, x) = "missing"}
_evaluate_gating_checks(b, c) ==
  {x \in b.checks \ Unevaluated(b, c) : _raw_gate_status(c, x) # "PASS"}

(* The first gate that stops a pilot. The architecture and the checks count only   *)
(* where the deployment requires them.                                             *)
evaluate_pilot(b, c, require) ==
  FirstRule(<<
    <<~c.scored \/ c.headline < 1000 * b.min_dcs, "blocked_dcs_score">>,
    <<require.architecture /\ c.mode \notin b.modes \ {"INCOMPLETE"}, "blocked_mode">>,
    <<require.checks /\ _evaluate_gating_checks(b, c) # {}, "blocked_checks">>,
    <<Unevaluated(b, c) # {}, "ready_provisional">>,
    <<TRUE, "ready">> >>)

is_buildable_status(status) == status \in {"ready", "ready_provisional"}

(* What the package keeps of it: later scores and evaluations do not change it.     *)
build_gates_snapshot(b, c, status) ==
  [checks |-> [x \in b.checks |-> _gate_result_label(c, x)],
   provisional |-> status = "ready_provisional",
   headline |-> c.headline, mode |-> c.mode]

-----------------------------------------------------------------------------
(* The gates of a package. A warning blocks a supplemental gate, not a hard one.   *)

hard_gate_blocks_data_gates_pass(label) == label \notin {"PASS", "WARN"}
(* Mutant: a supplemental gate that could not be judged lets the package pass.     *)
Mutant_supplemental_gate_blocks_data_gates_pass(label, provisional) ==
  label \in {"FAIL", "WARN"} \/ (label = "NOT_EVALUATED" /\ ~provisional)
supplemental_gate_blocks_data_gates_pass(label, provisional) ==
  label # "PASS" /\ ~(label = "NOT_EVALUATED" /\ provisional)

data_gates_blocking_checks(g) ==
  {x \in DOMAIN g.checks :
     IF is_supplemental_gate(x)
     THEN supplemental_gate_blocks_data_gates_pass(g.checks[x], g.provisional)
     ELSE hard_gate_blocks_data_gates_pass(g.checks[x])}

evaluate_data_gates_pass(g) == DOMAIN g.checks # {} /\ data_gates_blocking_checks(g) = {}

-----------------------------------------------------------------------------
(* The workflow's graph.                                                           *)

TERMINAL_NODE_TYPES == {"EXIT", "END", "STOP", "FINISH", "TERMINAL"}
CONDITION_LIKE_NODE_TYPES ==
  {"CONDITION", "BRANCH", "DECISION", "FILTER", "GATE", "IF", "SWITCH"}

Targets(node) == {node.next[i] : i \in DOMAIN node.next}
is_terminal_node(node) == node.type \in TERMINAL_NODE_TYPES \/ node.next = <<>>
is_condition_like_node(node) == node.type \in CONDITION_LIKE_NODE_TYPES

(* The triggers, else the only node, else the nodes nothing leads to.              *)
find_entry_node_ids(nodes) ==
  LET triggers == {n \in DOMAIN nodes : nodes[n].type = "TRIGGER"}
  IN IF triggers # {} THEN triggers
     ELSE IF Cardinality(DOMAIN nodes) = 1 THEN DOMAIN nodes
     ELSE DOMAIN nodes \ UNION {Targets(nodes[n]) : n \in DOMAIN nodes}

(* Breadth first: as many rounds as there are nodes reach all that can be reached. *)
reachable_node_ids(nodes) ==
  LET seen[k \in 0..Cardinality(DOMAIN nodes)] ==
        IF k = 0 THEN find_entry_node_ids(nodes)
        ELSE seen[k - 1] \cup
               ((UNION {Targets(nodes[n]) : n \in seen[k - 1]}) \cap DOMAIN nodes)
  IN seen[Cardinality(DOMAIN nodes)]

orphan_node_ids(nodes) == DOMAIN nodes \ reachable_node_ids(nodes)

(* Mutant: one way on that ends is enough.                                         *)
Mutant_node_reaches_terminal(nodes, start) ==
  LET walk[at \in (SUBSET DOMAIN nodes) \X DOMAIN nodes] ==
        /\ at[2] \notin at[1]
        /\ \/ is_terminal_node(nodes[at[2]])
           \/ \E x \in Targets(nodes[at[2]]) :
                x \in DOMAIN nodes /\ walk[<<at[1] \cup {at[2]}, x>>]
  IN walk[<<{}, start>>]

(* Every way on from the node leads to a terminal; a node met again on the way, or  *)
(* one that does not exist, does not.                                              *)
node_reaches_terminal(nodes, start) ==
  LET walk[at \in (SUBSET DOMAIN nodes) \X DOMAIN nodes] ==
        /\ at[2] \notin at[1]
        /\ \/ is_terminal_node(nodes[at[2]])
           \/ \A x \in Targets(nodes[at[2]]) :
                x \in DOMAIN nodes /\ walk[<<at[1] \cup {at[2]}, x>>]
  IN walk[<<{}, start>>]

nodes_missing_terminal(nodes) == {n \in DOMAIN nodes : ~node_reaches_terminal(nodes, n)}

consent_condition_nodes(nodes) ==
  {n \in DOMAIN nodes : is_condition_like_node(nodes[n]) /\ nodes[n].consent}

branch_exists_after_entries(nodes) ==
  \E n \in reachable_node_ids(nodes) :
    is_condition_like_node(nodes[n]) \/ Len(nodes[n].next) >= 2

-----------------------------------------------------------------------------
(* The hard tests and their verdict: one that fails, fails the package, and one     *)
(* that is not known fails. The score of a run without a failure is 100.           *)

(* A condition on consent, or an audience with consent and some branch to act on it.  *)
evaluate_consent_branching(b) ==
  \/ consent_condition_nodes(b.nodes) # {}
  \/ (b.audience /\ branch_exists_after_entries(b.nodes))

evaluate_terminal_reachable(b) == DOMAIN b.nodes # {} /\ nodes_missing_terminal(b.nodes) = {}
evaluate_no_orphan_nodes(b) == DOMAIN b.nodes # {} /\ orphan_node_ids(b.nodes) = {}
evaluate_collision_policy(b) == b.collision
evaluate_measurement_wired(b) == b.metric
evaluate_rollback_defined(b) == b.strategy
evaluate_unknown_test(test) == FALSE

evaluate_hard_test(test, b, g) ==
  CASE test = "data_gates_pass" -> evaluate_data_gates_pass(g)
    [] test = "consent_branching" -> evaluate_consent_branching(b)
    [] test = "terminal_reachable" -> evaluate_terminal_reachable(b)
    [] test = "no_orphan_nodes" -> evaluate_no_orphan_nodes(b)
    [] test = "collision_policy" -> evaluate_collision_policy(b)
    [] test = "measurement_wired" -> evaluate_measurement_wired(b)
    [] test = "rollback_defined" -> evaluate_rollback_defined(b)
    [] OTHER -> evaluate_unknown_test(test)

compute_qa_score(passed, total, minimum) ==
  IF total > 0 /\ passed = total /\ 100 >= minimum THEN "PASS" ELSE "FAIL"

evaluate_hard_tests(b, g) ==
  LET passed == {t \in b.tests : evaluate_hard_test(t, b, g)}
  IN compute_qa_score(Cardinality(passed), Cardinality(b.tests), b.minimum)
=================================================================================
