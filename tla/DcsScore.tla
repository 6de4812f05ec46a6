-------------------------------- MODULE DcsScore --------------------------------
(* The score of a run: its check results are normalised, required gates may block  *)
(* it, each dimension is scored over the results that can be judged, and the       *)
(* headline is the weighted mean of the dimensions. A result is                    *)
(*   [status, reason, amount, currency]                                            *)
(* with reason the code that explains a status that cannot be judged, "none"       *)
(* without one, and amount the money lost. Scores and coverages are in ten-thousandths of a percent and of one, the headline in   *)
(* thousandths of a percent, rounded half up.                                      *)
EXTENDS FoundationGates, FiniteSetsExt

CONSTANTS
  Checks,        \* the checks of the master table
  Dimension,     \* check -> dimension, "00" for the gates
  Weight,        \* check -> numeric weight, 0 for the gates
  Optional,      \* the checks whose failure never blocks
  Share          \* scored dimension -> percent of the headline

BR == "07"
NoScore == 9999999

ELIGIBLE_STATUSES == {"PASS", "WARN", "FAIL"}
BLOCKING_GATE_IDS == {"FD-01", "FD-02", "FD-04", "FD-05", "FD-06", "FD-07"}
BLOCKING_GATE_IDS_ERP == BLOCKING_GATE_IDS \cup {"FD-03"}
COVERAGE_THRESHOLD == 8000

(* The master table is finite, and none of its weights and shares is negative; the    *)
(* gates that block are checks of it, and every dimension of the headline counts.     *)
ASSUME ScoreAssumption ==
  /\ IsFiniteSet(Checks) /\ BLOCKING_GATE_IDS \subseteq Checks \ Optional
  /\ \A c \in Checks : Weight[c] \in Nat
  /\ IsFiniteSet(DOMAIN Share) /\ \A d \in DOMAIN Share : Share[d] \in Nat \ {0}

IsResult(r) ==
  /\ r = [status |-> r.status, reason |-> r.reason, amount |-> r.amount, currency |-> r.currency]
  /\ r.amount \in Int

Sum(S, f(_)) == SumFunction([x \in S |-> f(x)])

-----------------------------------------------------------------------------
(* One result per check, none of an unknown check, and a reason wherever nothing    *)
(* was judged, else the results cannot be assembled.                               *)
_normalize_results(results, erp) ==
  [c \in DOMAIN results |->
     IF c = "FD-03" /\ ~erp
     THEN [results[c] EXCEPT !.status = "NOT_CONNECTED",
                             !.reason = IF @ = "none" THEN "ERP_OUT_OF_SCOPE" ELSE @]
     ELSE results[c]]

Assemblable(results) ==
  /\ DOMAIN results = Checks
  /\ \A c \in Checks : results[c].status \notin ELIGIBLE_STATUSES => results[c].reason # "none"

_blocking_gate_failures(results, erp) ==
  {c \in Checks \ Optional :
     /\ results[c].status = "FAIL"
     /\ c \in (IF erp THEN BLOCKING_GATE_IDS_ERP ELSE BLOCKING_GATE_IDS)}

-----------------------------------------------------------------------------
ScoredDimensions(erp) == DOMAIN Share \ (IF erp THEN {} ELSE {BR})

(* A warning earns half. Earned weight is counted twice over, to stay whole.       *)
Halves(status) == CASE status = "PASS" -> 2 [] status = "WARN" -> 1 [] OTHER -> 0

Scored(results, d) == {c \in Checks : Dimension[c] = d /\ Weight[c] > 0}
Applicable(results, d) == {c \in Scored(results, d) : results[c].status # "NOT_APPLICABLE"}
Eligible(results, d) == {c \in Scored(results, d) : results[c].status \in ELIGIBLE_STATUSES}

WeightOf(S) == Sum(S, LAMBDA c : Weight[c])
Earned(results, S) == Sum(S, LAMBDA c : Weight[c] * Halves(results[c].status))

(* The table is so small that rounding decides nothing: with weights below 4000 no    *)
(* coverage is rounded up to four fifths, and with shares below 2500 no headline to   *)
(* 56 percent of what applies.                                                      *)
ASSUME RoundingAssumption ==
  /\ \A d \in DOMAIN Share : WeightOf({c \in Checks : Dimension[c] = d}) < 4000
  /\ Sum(DOMAIN Share, LAMBDA d : Share[d]) < 2500

_score_dimension(results, d) ==
  LET judged == Eligible(results, d)
      whole == Applicable(results, d)
  IN IF judged = {}
     THEN [score |-> NoScore, coverage |-> IF whole = {} THEN 10000 ELSE 0]
     ELSE [score |-> Rounded(500000 * Earned(results, judged), WeightOf(judged)),
           coverage |-> Rounded(10000 * WeightOf(judged), WeightOf(whole))]

_score_dimensions(results, erp) ==
  [d \in ScoredDimensions(erp) |-> _score_dimension(results, d)]

_headline(dims) ==
  LET included == {d \in DOMAIN dims : dims[d].score # NoScore}
      share == Sum(included, LAMBDA d : Share[d])
  IN IF included = {} \/ share = 0 THEN NoScore
     ELSE Rounded(Sum(included, LAMBDA d : dims[d].score * Share[d]), 10 * share)

_run_state_from_score(headline, erp) ==
  FirstRule(<<
    <<headline = NoScore, "BLOCKED">>,
    <<headline >= 90000, IF erp THEN "READY" ELSE "CONDITIONALLY_READY">>,
    <<headline >= 70000, "CONDITIONALLY_READY">>,
    <<headline >= 50000, "REMEDIATE">>,
    <<TRUE, "BLOCKED">> >>)

(* Mutant: one dimension that is covered is enough.                                *)
Mutant_required_coverage_incomplete(dims) ==
  \A d \in DOMAIN Share \ {BR} : dims[d].coverage < COVERAGE_THRESHOLD

(* Every dimension but Business Reality is required.                               *)
_required_coverage_incomplete(dims) ==
  \E d \in DOMAIN Share \ {BR} : dims[d].coverage < COVERAGE_THRESHOLD

(* The assembled run. An incomplete run keeps its headline.                        *)
assemble_dcs_score(raw, erp) ==
  LET results == _normalize_results(raw, erp)
      failed == _blocking_gate_failures(results, erp)
      dims == _score_dimensions(results, erp)
      headline == _headline(dims)
  IN IF failed # {}
     THEN [state |-> "BLOCKED", headline |-> NoScore, dims |-> <<>>,
           blocked |-> Cardinality(failed), missing |-> {}]
     ELSE [state |-> IF _required_coverage_incomplete(dims) THEN "INCOMPLETE"
                     ELSE _run_state_from_score(headline, erp),
           headline |-> headline, dims |-> dims, blocked |-> 0,
           missing |-> {c \in Checks : /\ results[c].status = "UNKNOWN"
                                       /\ results[c].reason = "MISSING_INPUT"}]

-----------------------------------------------------------------------------
(* Money. A failed or warning check of the list carries its amount; the estimate    *)
(* sums the checks of the roll-up, and LE-02 stays on its own card, because its     *)
(* orders are among those of another check. Amounts of two currencies do not add   *)
(* up, and LE-02's currency counts as one.                                         *)
ROLLUP_CHECK_IDS == {"LE-04", "LE-05", "LE-09", "PT-04"}
CARD_ONLY_CHECK_IDS == {"LE-02"}
Mixed == NoScore

seal_revenue_on_result(r) ==
  [r EXCEPT !.amount = IF r.status \in {"FAIL", "WARN"} THEN @ ELSE 0]

rollup_revenue_impact(results) ==
  LET emits == {c \in (ROLLUP_CHECK_IDS \cup CARD_ONLY_CHECK_IDS) \cap DOMAIN results :
                  results[c].status \in {"FAIL", "WARN"}}
      currencies == {results[c].currency : c \in emits} \ {"none"}
  IN [estimate |-> IF Cardinality(currencies) > 1 THEN Mixed
                   ELSE Sum(emits \cap ROLLUP_CHECK_IDS,
                            LAMBDA c : seal_revenue_on_result(results[c]).amount),
      excluded |-> emits \cap CARD_ONLY_CHECK_IDS,
      currency |-> IF Cardinality(currencies) = 1 THEN CHOOSE x \in currencies : TRUE ELSE "none"]

-----------------------------------------------------------------------------
(* What changed since the last run with a headline. A side without a value has no   *)
(* difference. The diff of a run that has one is never computed again.             *)
_delta_section(previous, current) ==
  [previous |-> previous, current |-> current,
   delta |-> IF NoScore \in {previous, current} THEN NoScore ELSE current - previous]

Passed(results) == Cardinality({c \in DOMAIN results : results[c].status = "PASS"})
Failed(results) == Cardinality({c \in DOMAIN results : results[c].status = "FAIL"})

Baseline == [baseline |-> TRUE]
build_consecutive_run_diff(run, previous) ==
  [baseline |-> FALSE, to |-> previous.id,
   headline |-> _delta_section(previous.score.headline, run.score.headline),
   dims |-> [d \in DOMAIN previous.score.dims \cup DOMAIN run.score.dims |->
               _delta_section(
                 IF d \in DOMAIN previous.score.dims THEN previous.score.dims[d].score ELSE NoScore,
                 IF d \in DOMAIN run.score.dims THEN run.score.dims[d].score ELSE NoScore)],
   impact |-> _delta_section(previous.impact.estimate, run.impact.estimate),
   passed |-> _delta_section(Passed(previous.results), Passed(run.results)),
   failed |-> _delta_section(Failed(previous.results), Failed(run.results))]

-----------------------------------------------------------------------------
(* What the application shell shows of a company's runs, oldest first: whether its  *)
(* pages open, and which score. A run is [status, score, results].                 *)
HasHeadline(r) == r.status = "SUCCEEDED" /\ r.score.headline # NoScore
Latest(those) == IF those = {} THEN 0 ELSE Max(those)
WithHeadline(runs) == {i \in DOMAIN runs : HasHeadline(runs[i])}

is_effectively_blocked(r) ==
  /\ \E c \in (DOMAIN r.results \cap Gates) \ Optional : r.results[c].status = "FAIL"
  /\ r.score.state = "BLOCKED" \/ r.score.headline = NoScore

ACTIVE_STATUSES == {"QUEUED", "RUNNING"}
TERMINAL_STATUSES == {"SUCCEEDED", "FAILED"}

(* The run that explains a lock, 0 without one.                                    *)
StateRun(runs) ==
  IF runs # <<>> /\ runs[Len(runs)].status \notin ACTIVE_STATUSES THEN Len(runs)
  ELSE Latest({i \in DOMAIN runs : runs[i].status \in TERMINAL_STATUSES})

app_access(runs) ==
  FirstRule(<<
    <<Latest(WithHeadline(runs)) # 0, "unlocked">>,
    <<\E i \in DOMAIN runs : runs[i].status \in ACTIVE_STATUSES, "soft_locked_running">>,
    <<TRUE, "hard_locked">> >>)

lock_reason(runs) ==
  LET state == IF StateRun(runs) = 0 THEN [status |-> "none"] ELSE runs[StateRun(runs)]
  IN IF app_access(runs) = "unlocked" THEN "none"
     ELSE IF app_access(runs) = "soft_locked_running" THEN "running_no_score"
     ELSE IF state.status = "none" THEN "no_run"
     ELSE IF state.status = "FAILED" THEN "failed"
     ELSE IF is_effectively_blocked(state) THEN "blocked"
     ELSE "incomplete_no_score"

(* The headline shown, NoScore when none is: hidden after a failure until a newer   *)
(* run is under way, else the newest there is.                                     *)
score_display(runs) ==
  LET newest == Latest(WithHeadline(runs))
      failed == /\ \A i \in DOMAIN runs : runs[i].status \notin ACTIVE_STATUSES
                /\ runs[Len(runs)].status = "FAILED"
  IN IF newest = 0 \/ failed THEN NoScore ELSE runs[newest].score.headline
=================================================================================
