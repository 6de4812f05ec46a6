------------------------------ MODULE PilotJourney ------------------------------
(* From a company's score to an activated workflow. Runs are scored on what the     *)
(* platforms answer and the connector's configuration (FoundationGates, DcsScore);  *)
(* the supplemental gates of the pilots are evaluated on demand and merged into one *)
(* stored bundle (PilotGates); a pilot whose gates allow it is built into a package, *)
(* the package is tested, and a handoff is staged, approved and activated           *)
(* (WorkflowQa). Packages, QA results and handoffs keep what they were made from:   *)
(* nothing looks at the gates again.                                               *)
(*                                                                                 *)
(* A deployment is [finds, start, modes, require, blueprint, asks, erp, live,        *)
(* limits]: what a run may find ([world, results, facts, rows]: what the platforms   *)
(* answer, the results of the checks that are not gates, what the pilots' gates read *)
(* of its snapshot, and the rows the DRIFT checks are measured on, {} where their    *)
(* results are given), the configuration it starts with, the modes an assessment may *)
(* find, which gates are enforced, the blueprint, the evaluations asked for          *)
(* ([checks, erp]), whether runs have the ERP in scope and ask for live              *)
(* authentication, and the bounds of the model.                                    *)
EXTENDS DcsScore, WorkflowQa, DriftChecks

CONSTANT Deployments

(* A configuration has its owner, the key of the newer interface, the accounts and    *)
(* their class.                                                                    *)
ConfigFields == {"owner", "key", "accounts", "class"}

(* Results are records with whole amounts, facts hold finitely many rows, and a run   *)
(* measures the rows of its one import; a blueprint names finitely many tests and     *)
(* nodes and asks for a whole headline.                                            *)
ASSUME DeploymentsAssumption ==
  \A d \in Deployments :
    /\ \A found \in d.finds : /\ IsWorld(found.world) /\ IsFacts(found.facts)
                              /\ \A u \in found.rows : IsRows(u) /\ found.rows = {u}
                              /\ \A c \in DOMAIN found.results : IsResult(found.results[c])
    /\ ConfigFields \subseteq DOMAIN d.start
    /\ IsFiniteSet(d.blueprint.tests) /\ IsFiniteSet(DOMAIN d.blueprint.nodes)
    /\ d.blueprint.min_dcs \in Int

VARIABLES
  site,      \* the deployment
  config,    \* configuration of the Manago connector
  calls,     \* requests that have read the configuration and will save it whole
  runs,      \* scoring runs, oldest first
  mode,      \* mode of the newest architecture assessment
  bundles,   \* stored evaluations of the supplemental gates, oldest first
  evals,     \* evaluations under way
  builds,    \* packages being built
  packages,  \* build packages
  qas,       \* QA results, appended only
  posts,     \* requests to stage a handoff under way
  handoffs   \* handoff packages

vars == <<site, config, calls, runs, mode, bundles, evals, builds, packages, qas, posts, handoffs>>
pilots == <<bundles, evals, builds, packages, qas, posts, handoffs>>

Nothing == [manago |-> FALSE, shopify |-> FALSE, lists |-> <<>>, malformed |-> {},
            raw |-> {}, identity |-> {}, today |-> 0]
NoRun == [status |-> "QUEUED", tail |-> "none", at |-> 0, scored |-> 0, facts |-> Nothing,
          score |-> [state |-> "none", headline |-> NoScore, dims |-> <<>>, blocked |-> 0,
                     missing |-> {}],
          results |-> <<>>, impact |-> 0, diff |-> {}, drift |-> {}]

Init ==
  /\ site \in Deployments
  /\ config = site.start
  /\ mode = "none"
  /\ runs = <<>> /\ bundles = <<>> /\ packages = <<>> /\ qas = <<>> /\ handoffs = <<>>
  /\ calls = {} /\ evals = {} /\ builds = {} /\ posts = {}

-----------------------------------------------------------------------------
(* The configuration and the runs.                                                 *)

(* A request reads the configuration, asks Manago (w is what it is answered), and     *)
(* later saves all of what it read with what it changed, whoever saved meanwhile: no  *)
(* lock, and no second read.                                                       *)
Worlds == {found.world : found \in site.finds}
Call(id, i, by, w) ==
  [id |-> id, run |-> i, by |-> by, primary |-> Nobody, key |-> FALSE, copy |-> config, world |-> w]
ReadConfig(c) ==
  /\ \A d \in calls : <<d.id, d.run>> # <<c.id, c.run>>
  /\ calls' = calls \cup {c}
  /\ UNCHANGED <<site, config, runs, mode, pilots>>

(* After a bootstrap or the choice of an owner, before a score is queued ("bootstrap"), *)
(* and when the owners are looked at ("view"), where none is inferred.             *)
EnsureOwner(id, by, w) == ReadConfig(Call(id, 0, by, w))

(* An operator names one of the users Manago lists the primary owner, or anybody     *)
(* when it lists nobody.                                                           *)
ManagoOwnersView_put(id, primary, w) ==
  /\ w.listed /\ (w.users = <<>> \/ primary \in ToSet(w.users))
  /\ ReadConfig([Call(id, 0, "owner", w) EXCEPT !.primary = primary])

(* An operator sets the key of the newer interface or removes it.                  *)
ManagoApiV3KeyView(id, key, w) == ReadConfig([Call(id, 0, "key", w) EXCEPT !.key = key])

Begin ==
  /\ Len(runs) < site.limits.runs
  /\ \A i \in DOMAIN runs : runs[i].status \notin ACTIVE_STATUSES
  /\ runs' = Append(runs, NoRun)
  /\ UNCHANGED <<site, config, calls, mode, pilots>>

LastFinish == Max({0} \cup {runs[i].at : i \in DOMAIN runs})

(* A run starts with the owner. A failed run that is delivered again starts over and *)
(* keeps its metadata.                                                             *)
StartRun(i, w) ==
  /\ \/ runs[i].status = "QUEUED"
     \/ /\ runs[i].status = "FAILED" /\ runs[i].scored < site.limits.scores
        /\ LastFinish < site.limits.ends
  /\ ReadConfig(Call(0, i, "run", w))

(* What is saved: nothing when there is no owner to settle on.                      *)
Saved(c) ==
  LET owners == OwnersOf(c.world)
      primary == IF c.by = "owner" THEN c.primary
                 ELSE ensure_manago_primary_owner(c.world, c.copy, c.by # "view")
  IN IF c.by = "key" THEN [c.copy EXCEPT !.key = c.key]
     ELSE IF primary = Nobody THEN config
     ELSE apply_primary_owner(c.copy, primary, owners)

SaveConfig(c) ==
  /\ config' = Saved(c)
  /\ calls' = calls \ {c}
  /\ runs' = IF c.run = 0 THEN runs
             ELSE [runs EXCEPT ![c.run].status = "RUNNING", ![c.run].tail = "none"]
  /\ UNCHANGED <<site, mode, pilots>>

(* A check without a reason for its status gets one from its executor.             *)
GateResults(gates) ==
  [c \in Gates |-> [status |-> gates[c],
                    reason |-> IF gates[c] \in ELIGIBLE_STATUSES THEN "none" ELSE "GATE",
                    amount |-> 0, currency |-> "none"]]

(* The drift block a score compares with: that of the newest of the last five runs   *)
(* that succeeded, by creation, whichever finished last.                           *)
_prior_drift_for_company ==
  LET succeeded == {i \in DOMAIN runs : runs[i].status = "SUCCEEDED"}
      last == FirstFew(5, succeeded, LAMBDA a, b : a > b)
      with == {i \in last : runs[i].drift # {}}
  IN IF with = {} THEN {} ELSE runs[Max(with)].drift

Measured(found) ==
  {LET rows == [u EXCEPT !.on = {p \in {"manago_ai", "shopify"} :
                                   (IF p = "shopify" THEN found.world.shopify ELSE found.world.manago).status
                                     \in {"connected", "degraded"}},
                         !.erp = site.erp]
       before == _prior_drift_for_company
       block == IF before = {} THEN build_drift_snapshot(rows, NoPrior)
                ELSE build_drift_snapshot(rows, (CHOOSE d \in before : TRUE).block)
   IN [rows |-> rows, block |-> block, verdicts |-> DriftVerdicts(rows, block),
       against |-> {d.rows : d \in before}] : u \in found.rows}

DriftResults(measured) ==
  [c \in UNION {Checks \cap DOMAIN d.verdicts : d \in measured} |->
     LET status == (CHOOSE d \in measured : TRUE).verdicts[c]
     IN [status |-> status, amount |-> 0, currency |-> "none",
         reason |-> IF status \in ELIGIBLE_STATUSES THEN "none" ELSE "DRIFT"]]

(* The scoring step imports, evaluates every check and stores score, results and     *)
(* money in one transaction.                                                       *)
Score(i, found) ==
  LET measured == Measured(found)
      gates == GateResults(GatesOf(found.world, config, site.erp, site.live))
      results == Overlay(DriftResults(measured), Overlay(found.results, gates))
  IN /\ runs[i].status = "RUNNING" /\ Assemblable(_normalize_results(results, site.erp))
     /\ runs' = [runs EXCEPT ![i] =
          [runs[i] EXCEPT !.status = "SUCCEEDED", !.tail = "scored", !.at = LastFinish + 1,
                    !.scored = @ + 1, !.facts = found.facts, !.drift = measured,
                    !.score = assemble_dcs_score(results, site.erp),
                    !.results = _normalize_results(results, site.erp),
                    !.impact = rollup_revenue_impact(results).estimate]]
     /\ UNCHANGED <<site, config, calls, mode, pilots>>

(* The run fails before its score is stored.                                       *)
FailRun(i) ==
  /\ runs[i].status = "RUNNING"
  /\ runs' = [runs EXCEPT ![i].status = "FAILED", ![i].at = LastFinish + 1]
  /\ UNCHANGED <<site, config, calls, mode, pilots>>

LastFinished(S) == CHOOSE i \in S : \A j \in S : runs[j].at <= runs[i].at

(* After the score is stored the diff is, and what follows may still fail the run.   *)
(* Mutant: the run itself is among the runs before it.                             *)
Mutant_get_previous_scored_dcs_run(i) ==
  LET earlier == {j \in DOMAIN runs : HasHeadline(runs[j]) /\ runs[j].at <= runs[i].at}
  IN IF earlier = {} THEN 0 ELSE LastFinished(earlier)
get_previous_scored_dcs_run(i) ==
  LET earlier == {j \in DOMAIN runs : HasHeadline(runs[j]) /\ runs[j].at < runs[i].at}
  IN IF earlier = {} THEN 0 ELSE LastFinished(earlier)

Side(j) == [id |-> <<j, runs[j].scored>>, score |-> runs[j].score, results |-> runs[j].results,
            impact |-> [estimate |-> runs[j].impact]]
DiffOf(i) ==
  LET j == get_previous_scored_dcs_run(i)
  IN IF j = 0 THEN Baseline ELSE build_consecutive_run_diff(Side(i), Side(j))

persist_consecutive_run_diff(i) ==
  /\ runs[i].tail = "scored"
  /\ runs' = [runs EXCEPT ![i].tail = "told",
       ![i].diff = IF @ # {} \/ ~HasHeadline(runs[i]) THEN @
                   ELSE {[of |-> runs[i].scored, diff |-> DiffOf(i)]}]
  /\ UNCHANGED <<site, config, calls, mode, pilots>>

FailAfterwards(i) ==
  /\ runs[i].tail # "none"
  /\ runs' = [runs EXCEPT ![i].status = "FAILED", ![i].tail = "none", ![i].at = LastFinish + 1]
  /\ UNCHANGED <<site, config, calls, mode, pilots>>

(* An assessment of the architecture succeeds.                                     *)
Assess(m) ==
  /\ \E i \in DOMAIN runs : runs[i].scored > 0
  /\ mode' = m
  /\ UNCHANGED <<site, config, calls, runs, pilots>>

-----------------------------------------------------------------------------
(* Evaluations of the supplemental gates: a run is resolved and the gates are        *)
(* evaluated, then the newest bundle is read and a merged one is stored, without a   *)
(* lock. Slice A reads the newest import, which may be of a later run.             *)

Succeeded == {i \in DOMAIN runs : runs[i].status = "SUCCEEDED"}
NewestImport == LET those == {i \in DOMAIN runs : runs[i].scored > 0}
                IN IF those = {} THEN {} ELSE runs[Max(those)].facts.raw

build_supplemental_gate_context(r) ==
  [(IF r = 0 THEN Nothing ELSE runs[r].facts) EXCEPT !.raw = NewestImport]

(* A named run must have succeeded; without a name the newest that did counts.      *)
resolve_dcs_score_run == IF Succeeded = {} THEN {0} ELSE Succeeded

StartEvaluation(r, checks, erp) ==
  LET f == build_supplemental_gate_context(r)
      answers == run_supplemental_checks(checks, erp, f)
  IN /\ r \in resolve_dcs_score_run /\ checks # {}
     /\ Len(bundles) + Cardinality(evals) < site.limits.evals
     /\ evals' = evals \cup {[id |-> Len(bundles) + Cardinality(evals), run |-> r, seen |-> 0,
                              read |-> FALSE, erp |-> erp,
                              rows |-> [c \in DOMAIN answers |->
                                          [status |-> answers[c], facts |-> f, erp |-> erp]]]}
     /\ UNCHANGED <<site, config, calls, runs, mode, bundles, builds, packages, qas, posts, handoffs>>

ReadBundle(e) ==
  /\ ~e.read
  /\ evals' = (evals \ {e}) \cup {[e EXCEPT !.read = TRUE, !.seen = Len(bundles)]}
  /\ UNCHANGED <<site, config, calls, runs, mode, bundles, builds, packages, qas, posts, handoffs>>

_merge_results(previous, incoming) == Overlay(incoming, previous)

save_pilot_gate_eval(e) ==
  LET before == IF e.seen = 0 THEN [run |-> 0, rows |-> <<>>] ELSE bundles[e.seen]
  IN /\ e.read
     /\ bundles' = Append(bundles,
          [run |-> IF e.run = 0 THEN before.run ELSE e.run, erp |-> e.erp,
           rows |-> _merge_results(before.rows, e.rows)])
     /\ evals' = evals \ {e}
     /\ UNCHANGED <<site, config, calls, runs, mode, builds, packages, qas, posts, handoffs>>

get_latest_supplemental_status_map ==
  IF bundles = <<>> THEN <<>>
  ELSE [c \in DOMAIN bundles[Len(bundles)].rows |-> bundles[Len(bundles)].rows[c].status]

-----------------------------------------------------------------------------
(* Building a package: the context is read, then the pilot is evaluated on it.      *)
(* Without a run that has a headline no pilot is buildable, whatever else is read.  *)

(* Mutant: a run that failed after its score was stored still counts.              *)
MutantScoredRuns == {i \in DOMAIN runs : runs[i].score.headline # NoScore}
ScoredRuns == {i \in DOMAIN runs : HasHeadline(runs[i])}

resolve_recommendation_context ==
  LET named == IF ScoredRuns = {} THEN 0 ELSE LastFinished(ScoredRuns)
      run == IF named = 0 THEN NoRun ELSE runs[named]
  IN [run |-> named, scored |-> named # 0, headline |-> run.score.headline,
      results |-> [c \in DOMAIN run.results |-> run.results[c].status],
      mode |-> mode, stored |-> get_latest_supplemental_status_map, bundle |-> Len(bundles)]

StartBuild ==
  /\ Len(packages) + Cardinality(builds) < site.limits.builds
  /\ builds' = builds \cup {resolve_recommendation_context}
  /\ UNCHANGED <<site, config, calls, runs, mode, bundles, evals, packages, qas, posts, handoffs>>

generate_build_package(c) ==
  LET status == evaluate_pilot(site.blueprint, c, site.require)
  IN /\ builds' = builds \ {c}
     /\ packages' = IF ~is_buildable_status(status) THEN packages
                    ELSE Append(packages,
                           [gates |-> build_gates_snapshot(site.blueprint, c, status),
                            run |-> c.run, bundle |-> c.bundle])
     /\ UNCHANGED <<site, config, calls, runs, mode, bundles, evals, qas, posts, handoffs>>

-----------------------------------------------------------------------------
(* QA and handoffs. A QA that passes stages its handoff in its own transaction; a   *)
(* request to stage finds the handoff of that QA, or stages it, or loses the race    *)
(* for it. A handoff keeps its audit trail.                                        *)

Staged(p, q) == [package |-> p, qa |-> q, status |-> "STAGED", trail |-> <<"STAGED">>]
Of(p, q) == {h \in DOMAIN handoffs : handoffs[h].package = p /\ handoffs[h].qa = q}

run_qa_for_package(p) ==
  LET status == evaluate_hard_tests(site.blueprint, packages[p].gates)
  IN /\ Len(qas) < site.limits.qas
     /\ qas' = Append(qas, [package |-> p, status |-> status])
     /\ handoffs' = IF status = "PASS" THEN Append(handoffs, Staged(p, Len(qas) + 1)) ELSE handoffs
     /\ UNCHANGED <<site, config, calls, runs, mode, bundles, evals, builds, packages, posts>>

_validate_stage_inputs(p, q) ==
  /\ q \in DOMAIN qas /\ qas[q].package = p
  /\ site.require.qa => qas[q].status = "PASS"

(* The QA is named, or the package's newest; nothing is found of it yet.           *)
StageLookup(p, q, id) ==
  /\ _validate_stage_inputs(p, q) /\ Of(p, q) = {}
  /\ \A x \in posts : x.id # id
  /\ posts' = posts \cup {[id |-> id, package |-> p, qa |-> q]}
  /\ UNCHANGED <<site, config, calls, runs, mode, bundles, evals, builds, packages, qas, handoffs>>

(* Mutant: nothing keeps a second handoff of the QA out.                           *)
MutantStageInsert(x) ==
  /\ posts' = posts \ {x}
  /\ handoffs' = Append(handoffs, Staged(x.package, x.qa))
  /\ UNCHANGED <<site, config, calls, runs, mode, bundles, evals, builds, packages, qas>>

(* One handoff for a package and a QA: the loser is answered with the winner's.     *)
StageInsert(x) ==
  /\ posts' = posts \ {x}
  /\ handoffs' = IF Of(x.package, x.qa) # {} THEN handoffs
                 ELSE Append(handoffs, Staged(x.package, x.qa))
  /\ UNCHANGED <<site, config, calls, runs, mode, bundles, evals, builds, packages, qas>>

_assert_qa_still_pass(h) == site.require.qa => qas[handoffs[h].qa].status = "PASS"

(* The row is locked; a repeated approval or confirmation changes nothing.         *)
Move(h, to) ==
  /\ handoffs' = [handoffs EXCEPT ![h].status = to, ![h].trail = Append(@, to)]
  /\ UNCHANGED <<site, config, calls, runs, mode, bundles, evals, builds, packages, qas, posts>>

approve_handoff_for_activation(h) ==
  /\ handoffs[h].status = "STAGED" /\ _assert_qa_still_pass(h)
  /\ Move(h, "APPROVED_FOR_ACTIVATION")

reject_handoff(h) ==
  /\ handoffs[h].status \in {"STAGED", "APPROVED_FOR_ACTIVATION"}
  /\ Move(h, "REJECTED")

confirm_handoff_activated(h) ==
  /\ handoffs[h].status = "APPROVED_FOR_ACTIVATION" /\ _assert_qa_still_pass(h)
  /\ Move(h, "ACTIVATED")

-----------------------------------------------------------------------------
Scoring ==
  \/ Begin
  \/ \E i \in DOMAIN runs :
       \/ \E w \in Worlds : StartRun(i, w)
       \/ \E found \in site.finds : Score(i, found)
       \/ FailRun(i)
       \/ persist_consecutive_run_diff(i)
       \/ FailAfterwards(i)
  \/ \E m \in site.modes : Assess(m)

Evaluating ==
  \/ \E r \in 0..Len(runs), ask \in site.asks : StartEvaluation(r, ask.checks, ask.erp)
  \/ \E e \in evals : ReadBundle(e) \/ save_pilot_gate_eval(e)

Handing ==
  \/ StartBuild
  \/ \E c \in builds : generate_build_package(c)
  \/ \E p \in DOMAIN packages : run_qa_for_package(p)
  \/ \E p \in DOMAIN packages, q \in DOMAIN qas, id \in 1..site.limits.posts : StageLookup(p, q, id)
  \/ \E x \in posts : StageInsert(x)
  \/ \E h \in DOMAIN handoffs :
       \/ approve_handoff_for_activation(h)
       \/ reject_handoff(h)
       \/ confirm_handoff_activated(h)

Configuring ==
  \/ \E id \in 1..site.limits.calls, w \in Worlds :
       \/ \E by \in {"bootstrap", "view"} : EnsureOwner(id, by, w)
       \/ \E v \in Worlds : \E primary \in ToSet(v.users) : ManagoOwnersView_put(id, primary, w)
       \/ \E key \in BOOLEAN : ManagoApiV3KeyView(id, key, w)
  \/ \E c \in calls : SaveConfig(c)

Next == Configuring \/ Scoring \/ Evaluating \/ Handing
Spec == Init /\ [][Next]_vars

-----------------------------------------------------------------------------
(* Where QA is enforced, whatever was scored, evaluated, built and staged at the     *)
(* same time, a handoff goes back to one context whose gates allowed it: a headline  *)
(* of the pilot's minimum, hard gates that passed in the run of that headline, and   *)
(* supplemental gates that passed in the bundle that was read, or were not in it      *)
(* (evaluate_pilot, data_gates_pass).                                              *)
StoredFor(p) == IF packages[p].bundle = 0 THEN <<>> ELSE bundles[packages[p].bundle].rows
HardGatesHeld(p) ==
  \A x \in Hard(site.blueprint) :
    LET label == packages[p].gates.checks[x]
    IN /\ label = "PASS" \/ (label = "WARN" /\ ~site.require.checks)
       /\ runs[packages[p].run].scored = 1 => runs[packages[p].run].results[x].status = label
SupplementalsHeld(p) ==
  LET stored == [x \in DOMAIN StoredFor(p) |-> StoredFor(p)[x].status]
  IN supplemental_readiness_for_use_case(Supplemental(site.blueprint), stored).blocked_by = {}
HandoffStandsOnEvidence ==
  \A h \in DOMAIN handoffs :
    LET p == handoffs[h].package
        g == packages[p].gates
    IN site.require.qa /\ "data_gates_pass" \in site.blueprint.tests =>
         /\ g.headline # NoScore /\ g.headline >= 1000 * site.blueprint.min_dcs
         /\ HardGatesHeld(p) /\ SupplementalsHeld(p)
         /\ site.require.architecture => g.mode \in site.blueprint.modes \ {"INCOMPLETE"}
         /\ runs[packages[p].run].scored = 1 =>
              \A gate \in BLOCKING_GATE_IDS : runs[packages[p].run].results[gate].status # "FAIL"

(* A supplemental gate that passed did so on data that was there, with no row that   *)
(* breaks it and no more partial rows than it tolerates, whatever other lists the    *)
(* run's snapshot held and however the bundles were merged (the twelve evaluators).  *)
ListsOf(c) ==
  CASE c \in {"SP-10", "SP-04"} -> {"manago_contacts"}
    [] c = "PT-13" -> {"manago_coupons", "shopify_discount_codes"}
    [] c = "LE-07" -> {"shopify_abandoned_checkouts", "manago_cart_events"}
    [] c = "LE-10" -> {"manago_events"}
    [] c = "PT-05" -> {"manago_products", "shopify_products"}
    [] c = "PT-06" -> {"manago_products", "shopify_inventory"}
    [] c = "PT-11" -> {"manago_products"} [] c = "BR-09" -> {"replenishment_products"}
    [] c = "BR-03" -> {"active_surface_products"} [] OTHER -> {}
Tolerated(c) ==
  CASE c = "CC-06" -> 5 [] c \in {"SP-10", "PT-11", "BR-09"} -> 10 [] c = "LE-10" -> 25
    [] c = "LE-07" -> 30 [] OTHER -> 0
Contacts(f) ==
  IF "manago_contacts" \in DOMAIN f.lists THEN f.lists["manago_contacts"]
  ELSE IF f.raw # {} THEN f.raw ELSE f.identity
Judged(c, f) ==
  CASE c \in {"CI-08", "CC-06"} -> Contacts(f)
    [] c = "SP-10" -> {x \in f.lists["manago_contacts"] : x.buys = "yes"}
    [] c = "SP-04" -> f.lists["manago_contacts"]
    [] c = "PT-13" -> f.lists["manago_coupons"]
    [] c = "LE-07" -> {x.email : x \in f.lists["shopify_abandoned_checkouts"]}
    [] c = "LE-10" -> f.lists["manago_events"]
    [] c \in {"PT-05", "PT-06", "PT-11"} -> f.lists["manago_products"]
    [] c = "BR-09" -> f.lists["replenishment_products"]
    [] c = "BR-03" -> f.lists["active_surface_products"]
Blemished(c, f, x) ==
  CASE c = "CI-08" -> x.mail \notin {"none", "plain"} \/ (x.mail = "plain" /\ x.invalid)
    [] c = "CC-06" -> "not_confirmed" \in x.doi /\ (x.created = 0 \/ f.today - x.created > 1)
    [] c = "SP-10" -> ~x.rfm
    [] c = "SP-04" -> "bad" \in x.dates
    [] c = "PT-13" -> \A y \in f.lists["shopify_discount_codes"] : y.code = x.code => ~y.usable
    [] c = "LE-07" -> x = NoEmail \/ \A y \in f.lists["manago_cart_events"] : y.email = x => ~y.cart
    [] c = "LE-10" -> x.type = "OTHER"
    [] c = "PT-05" -> x.price # Unknown /\ x.discount # Unknown /\ x.price < x.discount
    [] c = "PT-06" -> x.qty # Unknown /\ x.qty < 0
    [] c = "BR-03" -> x.stock <= 0 \/ x.stock = Unknown
    [] OTHER -> ~x.whole
PassedGatesAreClean ==
  \A b \in DOMAIN bundles : \A c \in DOMAIN bundles[b].rows :
    LET row == bundles[b].rows[c]
        bad == {x \in Judged(c, row.facts) : Blemished(c, row.facts, x)}
    IN row.status = "PASS" =>
         /\ ListsOf(c) \subseteq DOMAIN row.facts.lists
         /\ c \in {"CI-08", "CC-06"} => Judged(c, row.facts) # {}
         /\ 100 * Cardinality(bad) <= Tolerated(c) * Cardinality(Judged(c, row.facts))
         /\ c \in {"BR-09", "PT-06"} => row.erp

(* A workflow that was handed over and passed its tests ends whatever way a contact   *)
(* takes: no set of its nodes keeps a contact, no node leads out of the workflow, and *)
(* no part of it is cut off from its entries (terminal_reachable, no_orphan_nodes).   *)
ActivatedWorkflowsEnd ==
  LET nodes == site.blueprint.nodes
      going == {n \in DOMAIN nodes :
                  nodes[n].next # <<>> /\ nodes[n].type \notin TERMINAL_NODE_TYPES}
      closed(S) == \A n \in S : \A t \in Targets(nodes[n]) : t \in S \/ t \notin DOMAIN nodes
  IN \A h \in DOMAIN handoffs :
       qas[handoffs[h].qa].status = "PASS"
         /\ {"terminal_reachable", "no_orphan_nodes"} \subseteq site.blueprint.tests =>
         /\ \A n \in going : Targets(nodes[n]) \subseteq DOMAIN nodes
         /\ \A S \in (SUBSET going) \ {{}} : \E n \in S : Targets(nodes[n]) \cap S = {}
         /\ \A S \in SUBSET DOMAIN nodes :
              find_entry_node_ids(nodes) \subseteq S /\ closed(S) => S = DOMAIN nodes

(* However many requests stage, approve and reject at once, a package and a QA have   *)
(* one handoff, it moves along staged, approved and activated or is rejected once,   *)
(* and where QA is enforced it never leaves a QA that did not pass                   *)
(* (create_or_get_handoff_package, handoff_activation).                            *)
Trails ==
  LET way == <<"STAGED", "APPROVED_FOR_ACTIVATION", "ACTIVATED">>
  IN {SubSeq(way, 1, n) : n \in 1..3} \cup {Append(SubSeq(way, 1, n), "REJECTED") : n \in 1..2}
HandoffTrail ==
  \A h \in DOMAIN handoffs :
    LET x == handoffs[h]
    IN /\ x.trail \in Trails /\ x.status = x.trail[Len(x.trail)]
       /\ qas[x.qa].package = x.package
       /\ site.require.qa => qas[x.qa].status = "PASS"
       /\ \A g \in DOMAIN handoffs : handoffs[g].package = x.package /\ handoffs[g].qa = x.qa => g = h

-----------------------------------------------------------------------------
(* A diff made for the score a run still has tells that score and another run's, and  *)
(* its differences add up (persist_consecutive_run_diff). One that was kept from an  *)
(* earlier score of the run is not meant.                                          *)
AddsUp(part) ==
  part.delta # NoScore => part.previous + part.delta = part.current
DiffTellsTruth ==
  \A i \in DOMAIN runs : \A kept \in runs[i].diff :
    LET d == kept.diff
    IN kept.of = runs[i].scored /\ ~d.baseline =>
         /\ d.to[1] # i
         /\ d.headline.current = runs[i].score.headline
         /\ runs[d.to[1]].scored = d.to[2] => d.headline.previous = runs[d.to[1]].score.headline
         /\ AddsUp(d.headline) /\ AddsUp(d.impact) /\ AddsUp(d.passed) /\ AddsUp(d.failed)
         /\ \A x \in DOMAIN d.dims : AddsUp(d.dims[x])

(* A score is earned.  A company is ready only on what was judged: no required gate   *)
(* failed, four fifths of each required dimension were judged, and 56 percent of      *)
(* everything that applies was earned, so that leaving checks unknown never makes a   *)
(* company ready.  And of two runs that judged the same checks, one that did no check *)
(* worse is not below the other, in its headline or in its state (assemble_dcs_score).*)
ReadyOnWhatWasJudged(run) ==
  LET r == run.results
      required == DOMAIN Share \ {BR}
      told == {d \in required : Applicable(r, d) # {}}
      weight(d, S) == WeightOf({c \in Applicable(r, d) : r[c].status \in S})
  IN run.score.state \in {"READY", "CONDITIONALLY_READY"} =>
       /\ \A g \in BLOCKING_GATE_IDS \ Optional : r[g].status # "FAIL"
       /\ \A d \in told :
            5 * weight(d, {"PASS", "WARN", "FAIL"}) >= 4 * WeightOf(Applicable(r, d))
       /\ ~site.erp =>
            Sum(told, LAMBDA d : Share[d] *
                  ((50 * Earned(r, Applicable(r, d))) \div WeightOf(Applicable(r, d)) + 1))
              >= 56 * Sum(told, LAMBDA d : Share[d])

Grade == [s \in ELIGIBLE_STATUSES |-> CASE s = "FAIL" -> 0 [] s = "WARN" -> 1 [] s = "PASS" -> 2]
StateRank(state) ==
  CHOOSE n \in 1..5 :
    <<"BLOCKED", "INCOMPLETE", "REMEDIATE", "CONDITIONALLY_READY", "READY">>[n] = state
NoWorse(r, than) ==
  \A c \in Checks : IF r[c].status \in ELIGIBLE_STATUSES /\ than[c].status \in ELIGIBLE_STATUSES
                    THEN Grade[r[c].status] >= Grade[than[c].status]
                    ELSE r[c].status = than[c].status

ScoreIsEarned ==
  /\ \A i \in DOMAIN runs : ReadyOnWhatWasJudged(runs[i])
  /\ \A i, j \in {k \in DOMAIN runs : runs[k].scored > 0} :
       NoWorse(runs[i].results, runs[j].results) =>
         /\ StateRank(runs[i].score.state) >= StateRank(runs[j].score.state)
         /\ NoScore \notin {runs[i].score.headline, runs[j].score.headline} =>
              runs[i].score.headline >= runs[j].score.headline
         /\ runs[i].score.headline = NoScore => runs[j].score.headline = NoScore

(* The shell and the pilots agree: the application is unlocked exactly when pilots    *)
(* are judged on a score, a score the shell shows is the one they are judged on when  *)
(* runs finish in order, and the shell calls a score incomplete only where nothing    *)
(* could be judged (resolve_dcs_app_status, resolve_recommendation_context).          *)
InOrderOfScore ==
  \A i, j \in DOMAIN runs : i < j /\ HasHeadline(runs[i]) /\ HasHeadline(runs[j]) => runs[i].at < runs[j].at
ShellAgreesWithPilots ==
  LET c == resolve_recommendation_context
  IN /\ (app_access(runs) = "unlocked") = c.scored
     /\ InOrderOfScore /\ score_display(runs) # NoScore => score_display(runs) = c.headline
     /\ lock_reason(runs) = "incomplete_no_score" =>
          \A x \in Checks : Weight[x] > 0 /\ Dimension[x] \in ScoredDimensions(site.erp) =>
            runs[StateRun(runs)].results[x].status \notin {"PASS", "WARN", "FAIL"}

(* Scoring an estate again is safe: where nothing changed since the run that is        *)
(* compared with, or only whether the tag catalogue was ingested, no segment is said  *)
(* to have emptied or shifted; and where nothing changed no domain is said to have    *)
(* stalled and the volume is judged by itself (PRD_DCS_05_DRIFT_CHECKS.md:32).       *)
SafeToRerun ==
  \A i \in DOMAIN runs : \A d \in runs[i].drift : \A before \in d.against :
    LET same == d.rows = before
        recounted == /\ <<>> \in {d.rows.catalogue, before.catalogue}
                     /\ [d.rows EXCEPT !.catalogue = <<>>] = [before EXCEPT !.catalogue = <<>>]
    IN /\ same \/ recounted => d.block.emptied = {} /\ d.block.shifted = {}
       /\ same => /\ d.block.stalled = {}
                  /\ d.verdicts["LE-13"] = evaluate_le_13(d.rows, [d.block EXCEPT !.crossMoved = {}])

(* Of what operators chose, nothing is lost to a request that read it: one whose copy  *)
(* is still what is stored changes the key only if it is about the key, and the        *)
(* primary owner only if an operator chose one or Manago does not list the old one,   *)
(* whoever else fits the shop's name. What was chosen between another request's read   *)
(* and its save may be lost (ensure_manago_primary_owner, connector_views).          *)
ChoicesGoOnlyStale ==
  [][config' # config =>
       \E c \in calls \ calls' :
         c.copy = config =>
           /\ config'.key # config.key => c.by = "key"
           /\ <<config'.owner, config'.accounts, config'.class>>
                # <<config.owner, config.accounts, config.class>> =>
                \/ c.by = "owner"
                \/ preferred_owner_from_config(config) \notin ToSet(c.world.users)]_vars
=================================================================================
