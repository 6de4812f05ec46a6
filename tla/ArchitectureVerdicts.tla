--------------------------- MODULE ArchitectureVerdicts ---------------------------
(* What one architecture assessment finds: the inventory of the company's assets     *)
(* (dataruns/architecture/inventory.py), their lifecycle stages (wf12.py), the        *)
(* dependency graph (graph.py), a verdict on every asset and the mode of the account  *)
(* (verdicts.py), and the pages that show them (coverage.py, serialize.py).           *)
(*                                                                                   *)
(* An asset is [id, name, type, status, stage, def]: `id' is its slug and `name' is    *)
(* folded as the lookups fold it, so that two assets may share either. The definition  *)
(* of a workflow is [trigger, tags, segments, properties, writes]: the trigger is      *)
(* [norm, names], a text, "" for none, and the names that occur in it or in a          *)
(* condition; the other four are the names in the keys of each family.                *)
EXTENDS Integers, FiniteSets, Sequences, SequencesExt, FiniteSetsExt, Functions

CONSTANTS
  Consents       \* the checks named CC-...

(* They are rows of the master table of checks.                                       *)
ASSUME ConsentsAssumption == IsFiniteSet(Consents)

Stages == 1..16

NoTrigger == [norm |-> "", names |-> {}]
Plain == [trigger |-> NoTrigger, tags |-> {}, segments |-> {}, properties |-> {}, writes |-> {}]

-----------------------------------------------------------------------------
(* The inventory: what Manago answers, or what the newest import holds where it      *)
(* answers with an error or with nothing. Of an estate [workflows, tags, properties,  *)
(* segments], the first two are [answer, imported]: sequences of rows, {} for an      *)
(* error of the answer. Properties are inferred from imported contacts. No probe      *)
(* lists segments yet; the graph and the verdicts take those that are handed over.    *)

Listed(source) ==
  IF source.answer # {} /\ source.answer # {<<>>} THEN CHOOSE rows \in source.answer : TRUE
  ELSE source.imported

Failed(source) == source.answer = {} /\ source.imported = <<>>

inventory_workflows(e) == IF Failed(e.workflows) THEN "failed" ELSE "succeeded"
inventory_tags(e) == IF Failed(e.tags) THEN "failed" ELSE "partial"
inventory_properties(e) == IF e.properties = <<>> THEN "incomplete" ELSE "partial"

(* One asset for an id: it stays where the first of them was, and the last one counts. *)
Keep(assets, new) ==
  IF \E i \in DOMAIN assets : assets[i].id = new.id
  THEN [i \in DOMAIN assets |-> IF assets[i].id = new.id THEN new ELSE assets[i]]
  ELSE Append(assets, new)

(* The keyword rules of a stage, in the order in which they are tried.                *)
_STAGE_RULES == [i \in Stages |-> 17 - i]
_PROP_RULES == <<5, 4, 6, 12, 9, 2, 1>>
_TAG_RULES == <<12, 10, 9, 4, 2, 1>>
FirstOf(rules, hits) ==
  LET at == {i \in DOMAIN rules : rules[i] \in hits} IN IF at = {} THEN 0 ELSE rules[Min(at)]

(* A row says which rules its own name matches, and which ones its trigger or engine  *)
(* does: a workflow's name goes before its trigger, and a property or a tag is        *)
(* matched by everything it holds. Zero is no stage.                                 *)
infer_lifecycle_stage(row) ==
  CASE row.type = "PROPERTY" -> FirstOf(_PROP_RULES, row.said \cup row.heard)
    [] row.type = "TAG" -> FirstOf(_TAG_RULES, row.said \cup row.heard)
    [] OTHER -> IF FirstOf(_STAGE_RULES, row.said) # 0 THEN FirstOf(_STAGE_RULES, row.said)
                ELSE FirstOf(_STAGE_RULES, row.heard)

AssetOf(row) ==
  [id |-> row.id, name |-> row.name, type |-> row.type, status |-> row.status,
   stage |-> infer_lifecycle_stage(row), def |-> row.def]

run_phase_b_inventory(e) ==
  FoldLeft(LAMBDA assets, row : Keep(assets, AssetOf(row)), <<>>,
           Listed(e.workflows) \o Listed(e.tags) \o e.properties \o e.segments)

OfType(assets, type) == {i \in DOMAIN assets : assets[i].type = type}

Covered(assets) == {assets[i].stage : i \in DOMAIN assets} \ {0}
run_phase_f_coverage(assets) ==
  CASE assets = <<>> -> "incomplete"
    [] assets # <<>> /\ Covered(assets) # Stages -> "partial"
    [] OTHER -> "succeeded"

-----------------------------------------------------------------------------
(* The graph. A name leads to the last asset of the type that bears it; a condition   *)
(* or a trigger leads to every asset whose name occurs in it.                        *)

_index_assets(assets, type) ==
  LET those == OfType(assets, type)
  IN [n \in {assets[i].name : i \in those} |-> assets[Max({i \in those : assets[i].name = n})].id]

Edge(from, to, type) == [from |-> from, to |-> to, type |-> type]

Reached(index, names) == {index[n] : n \in names \cap DOMAIN index}

build_workflow_edges(assets) ==
  LET tags == _index_assets(assets, "TAG")
      properties == _index_assets(assets, "PROPERTY")
      segments == _index_assets(assets, "SEGMENT")
  IN UNION {LET w == assets[i]
                text == w.def.trigger.names
            IN {Edge(w.id, t, "READS") : t \in Reached(tags, w.def.tags \cup text)
                                          \cup Reached(properties, w.def.properties \cup text)}
                 \cup {Edge(w.id, t, "USES") : t \in Reached(segments, w.def.segments \cup text)}
                 \cup {Edge(w.id, t, "WRITES") : t \in Reached(tags, w.def.writes)}
            : i \in OfType(assets, "WORKFLOW")}

Untriggered(assets) == {i \in OfType(assets, "WORKFLOW") : assets[i].def.trigger.norm = ""}

(* A definition always has the keys that make it a rich one, so that none is shallow.  *)
TriggerProbe(assets, edges) ==
  LET all == OfType(assets, "WORKFLOW")
  IN IF all = {} \/ (Untriggered(assets) = all /\ edges = {}) THEN "incomplete"
     ELSE IF Untriggered(assets) # {} THEN "partial" ELSE "succeeded"

Complete(assets, edges) == OfType(assets, "SEGMENT") # {} /\ TriggerProbe(assets, edges) = "succeeded"

GraphProbe(assets, edges) ==
  CASE Complete(assets, edges) -> "succeeded"
    [] ~Complete(assets, edges) /\ (edges # {} \/ OfType(assets, "WORKFLOW") # {}) -> "partial"
    [] OTHER -> "incomplete"

_where_used_probe(assets, type) ==
  CASE OfType(assets, type) = {} -> "incomplete"
    [] OfType(assets, type) # {} /\ type = "TAG" /\ OfType(assets, "SEGMENT") = {} -> "partial"
    [] OTHER -> "succeeded"

(* In fifths: succeeded, partial, incomplete and failed count 1, 0.6, 0.2 and 0.      *)
Fifths(status) ==
  CASE status = "succeeded" -> 5 [] status = "partial" -> 3 [] status = "incomplete" -> 1 [] OTHER -> 0
SumOf(statuses) == FoldLeft(LAMBDA n, s : n + Fifths(s), 0, statuses)

(* The mean of the three phases, in parts of 720: a third of the three probes, of the  *)
(* four and of the sixteen stages, or of 0.2 for an empty inventory.                  *)
_blend_coverage(e, assets, edges) ==
  16 * SumOf(<<inventory_workflows(e), inventory_tags(e), inventory_properties(e)>>)
    + 12 * SumOf(<<TriggerProbe(assets, edges), GraphProbe(assets, edges),
                   _where_used_probe(assets, "TAG"), _where_used_probe(assets, "PROPERTY")>>)
    + IF assets = <<>> THEN 48 ELSE 15 * Cardinality(Covered(assets))

-----------------------------------------------------------------------------
(* The verdicts, on the checks of the run that failed or warned.                     *)

_PROPERTY_CHECKS == {"SP-03", "SP-04", "SP-05"}
_TAG_CHECKS == {"SP-01", "SP-08"}
_MEASUREMENT_CHECKS == {"ME-02"}
_DORMANT_STATUSES ==
  {"inactive", "disabled", "dormant", "paused", "stopped", "archived", "retired", "false", "0"}

load_dcs_join(results) == Restrict(results, {c \in DOMAIN results : results[c] \in {"FAIL", "WARN"}})

_is_consent(c) == c \in Consents
OtherFails(dcs) ==
  {c \in DOMAIN dcs : dcs[c] = "FAIL"}
    \ (Consents \cup _PROPERTY_CHECKS \cup _TAG_CHECKS \cup _MEASUREMENT_CHECKS)

_reads_targets(id, edges) == {g.to : g \in {h \in edges : h.from = id}}
_dependents_of(id, edges) == {g.from : g \in {h \in edges : h.to = id}}

(* The checks of a kind are those of its assets and of the workflows that reach them,  *)
(* or of every workflow where nothing reaches anything.                              *)
Joined(a, assets, edges, type, impaired) ==
  LET ids == {assets[i].id : i \in OfType(assets, type)}
  IN IF a.type = type \/ (a.type = "WORKFLOW" /\ (edges = {} \/ _reads_targets(a.id, edges) \cap ids # {}))
     THEN impaired ELSE {}

(* Mutant: the consent checks are those of the workflows that reach a tag.            *)
Mutant_build_fix_first_map(a, assets, edges, dcs) ==
  Joined(a, assets, edges, "PROPERTY", DOMAIN dcs \cap _PROPERTY_CHECKS)
    \cup Joined(a, assets, edges, "TAG", DOMAIN dcs \cap (_TAG_CHECKS \cup Consents))
    \cup (IF a.type = "WORKFLOW" THEN OtherFails(dcs) ELSE {})

_build_fix_first_map(a, assets, edges, dcs) ==
  Joined(a, assets, edges, "PROPERTY", DOMAIN dcs \cap _PROPERTY_CHECKS)
    \cup Joined(a, assets, edges, "TAG", DOMAIN dcs \cap _TAG_CHECKS)
    \cup (IF a.type = "WORKFLOW" THEN {c \in DOMAIN dcs : _is_consent(c)} \cup OtherFails(dcs) ELSE {})

(* Workflows that start on the same trigger.                                        *)
_overlap_clusters(assets) ==
  {i \in OfType(assets, "WORKFLOW") \ Untriggered(assets) :
     \E j \in OfType(assets, "WORKFLOW") \ {i} : assets[j].def.trigger.norm = assets[i].def.trigger.norm}

_is_dormant(a) == a.status \in _DORMANT_STATUSES

Verdict(of, why) == [verdict |-> of, why |-> why]

(* Mutant: an asset that others depend on goes as well.                             *)
Mutant_verdict_of(i, assets, edges, dcs) ==
  LET a == assets[i]
      complete == Complete(assets, edges)
      retirable == _is_dormant(a) \/ a.type # "WORKFLOW"
  IN CASE _build_fix_first_map(a, assets, edges, dcs) # {} -> Verdict("FIX_FIRST", "")
       [] OTHER ->
            IF i \in _overlap_clusters(assets)
            THEN IF complete THEN Verdict("CONSOLIDATE", "") ELSE Verdict("KEEP_IMPROVE", "Overlap")
            ELSE IF retirable
            THEN IF complete THEN Verdict("RETIRE_CANDIDATE", "") ELSE Verdict("KEEP", "GRAPH_GATE")
            ELSE Verdict("KEEP", "")

(* Fix first, then consolidate, then retire, the last two on a complete graph only;   *)
(* then keep and improve, and keep.                                                *)
_verdict_of(i, assets, edges, dcs) ==
  LET a == assets[i]
      complete == Complete(assets, edges)
      used == _dependents_of(a.id, edges) # {}
      retirable == (_is_dormant(a) \/ a.type # "WORKFLOW") /\ ~used
      weak == a.type = "WORKFLOW" /\ (DOMAIN dcs \cap _MEASUREMENT_CHECKS # {} \/ i \in Untriggered(assets))
      overlaps == i \in _overlap_clusters(assets)
      fix == _build_fix_first_map(a, assets, edges, dcs) # {}
  IN CASE fix -> Verdict("FIX_FIRST", "")
       [] ~fix /\ overlaps -> IF complete THEN Verdict("CONSOLIDATE", "") ELSE Verdict("KEEP_IMPROVE", "Overlap")
       [] ~fix /\ ~overlaps /\ retirable ->
            IF complete THEN Verdict("RETIRE_CANDIDATE", "") ELSE Verdict("KEEP", "GRAPH_GATE")
       [] ~fix /\ ~overlaps /\ used /\ _is_dormant(a) -> Verdict("KEEP", "HAS_DEPENDENTS")
       [] ~fix /\ ~overlaps /\ ~retirable /\ ~(used /\ _is_dormant(a)) /\ weak -> Verdict("KEEP_IMPROVE", "")
       [] OTHER -> Verdict("KEEP", "")

assign_asset_verdicts(assets, edges, dcs) == [i \in DOMAIN assets |-> _verdict_of(i, assets, edges, dcs)]

-----------------------------------------------------------------------------
(* The mode of the account.                                                        *)

Among(verdicts, kinds) == Cardinality({i \in DOMAIN verdicts : verdicts[i].verdict \in kinds})
Colliding(verdicts) ==
  Cardinality({i \in DOMAIN verdicts : verdicts[i].verdict = "CONSOLIDATE" \/ verdicts[i].why = "Overlap"})

ConsentFails(dcs) == {c \in DOMAIN dcs : _is_consent(c) /\ dcs[c] = "FAIL"}
CriticalDefects(verdicts, dcs) ==
  Cardinality(ConsentFails(dcs)) + IF Colliding(verdicts) >= 3 THEN 1 ELSE 0

(* Mutant: the assets that are to be fixed are the safe ones.                        *)
MutantWeighted(assets, verdicts, dcs) ==
  LET n == Max({Len(assets), 1})
      staged == Cardinality({i \in DOMAIN assets : assets[i].stage # 0})
  IN (100 * ((IF staged = 0 THEN 25 * n ELSE 50 * staged) + 50 * Among(verdicts, {"FIX_FIRST"})
              + 30 * (n - Colliding(verdicts)) + 30 * n + 40 * Among(verdicts, {"KEEP", "KEEP_IMPROVE"}))) \div (2 * n)

(* In hundredths: a quarter each for the assets with a stage, or half of it where none *)
(* has one, and for those that need no fix; 15 percent each for those that do not     *)
(* collide and for the measurement; a fifth for those that are kept.                  *)
Weighted(assets, verdicts, dcs) ==
  LET n == Max({Len(assets), 1})
      staged == Cardinality({i \in DOMAIN assets : assets[i].stage # 0})
      parts == (IF staged = 0 THEN 25 * n ELSE 50 * staged)
                 + 50 * (n - Among(verdicts, {"FIX_FIRST"})) + 30 * (n - Colliding(verdicts))
                 + n * (IF \E c \in DOMAIN dcs \cap _MEASUREMENT_CHECKS : dcs[c] = "FAIL" THEN 12 ELSE 30)
                 + 40 * Among(verdicts, {"KEEP", "KEEP_IMPROVE"})
  IN (100 * parts + n) \div (2 * n)

(* The score is judged only where four fifths of the evidence is there and the graph   *)
(* is complete.                                                                    *)
rollup_mode(coverage, assets, edges, verdicts, dcs) ==
  IF coverage < 576 \/ ~Complete(assets, edges) THEN "INCOMPLETE"
  ELSE LET critical == CriticalDefects(verdicts, dcs)
           weighted == Weighted(assets, verdicts, dcs)
       IN CASE critical >= 2 \/ weighted < 5000 -> "REBUILD"
            [] ~(critical >= 2 \/ weighted < 5000) /\ (critical = 1 \/ weighted < 7000) -> "SELECTIVE_REBUILD"
            [] OTHER -> IF ConsentFails(dcs) # {} THEN "SELECTIVE_REBUILD" ELSE "AUGMENT"

(* What an assessment of an estate leaves behind.                                   *)
Assessed(e, results) ==
  LET assets == run_phase_b_inventory(e)
      edges == build_workflow_edges(assets)
      dcs == load_dcs_join(results)
      verdicts == assign_asset_verdicts(assets, edges, dcs)
      coverage == _blend_coverage(e, assets, edges)
  IN [assets |-> assets, edges |-> edges, verdicts |-> verdicts, coverage |-> coverage,
      complete |-> Complete(assets, edges), critical |-> CriticalDefects(verdicts, dcs),
      gaps |-> Stages \ Covered(assets), mode |-> rollup_mode(coverage, assets, edges, verdicts, dcs)]

-----------------------------------------------------------------------------
(* The coverage page: the stages, and the five cards of the lifecycle.               *)

Phase ==
  [s \in Stages |-> CASE s <= 2 -> "Acquisition" [] s \in 3..5 -> "Activation" [] s \in 6..8 -> "Repeat"
                      [] s \in 9..11 -> "Retention" [] s \in 12..13 -> "Loyalty"
                      [] s \in 14..15 -> "Expansion" [] s = 16 -> "Reactivation"]
FE_PHASE_CARD_KEYS ==
  [p \in {Phase[s] : s \in Stages} |->
     CASE p = "Acquisition" -> "acq" [] p \in {"Activation", "Repeat"} -> "act" [] p = "Loyalty" -> "loy"
       [] p = "Expansion" -> "exp" [] p \in {"Retention", "Reactivation"} -> "ret"]
Cards == {"acq", "act", "exp", "loy", "ret"}

Staged(h, s) == {i \in DOMAIN h.assets : h.assets[i].stage = s}

_fe_phase_cards(h) ==
  [k \in Cards |->
     LET stages == {s \in Stages : FE_PHASE_CARD_KEYS[Phase[s]] = k}
     IN [assets |-> UNION {Staged(h, s) : s \in stages}, stages |-> Cardinality(stages),
         gaps |-> Cardinality({s \in stages : Staged(h, s) = {}})]]

build_coverage_payload(h) ==
  [cards |-> _fe_phase_cards(h), unassigned |-> Staged(h, 0),
   gaps |-> {s \in Stages : Staged(h, s) = {}}]

(* The counts of the overview and of the lifecycle page.                            *)
build_lifecycle_summary(h) ==
  LET fix == Among(h.verdicts, {"FIX_FIRST"})
      consolidate == Among(h.verdicts, {"CONSOLIDATE"})
  IN [fix |-> fix, consolidate |-> consolidate, uncovered |-> Cardinality(h.gaps),
      total |-> fix + consolidate + Cardinality(h.gaps)]
=================================================================================
