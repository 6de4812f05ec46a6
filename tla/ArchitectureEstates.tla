--------------------------- MODULE ArchitectureEstates ---------------------------
(* The assessments of a company (ArchitectureAssessments) with what they find on its  *)
(* estate (ArchitectureVerdicts): a worker that commits stores assets, edges,          *)
(* verdicts, coverage and mode, judged on the checks of the DCS run it read when it    *)
(* took the job. What was stored stays when the job is executed again and fails.      *)
(*                                                                                   *)
(* An estate is [workflows, tags, properties, segments] of ArchitectureVerdicts, with  *)
(* the results of each DCS run that will succeed and whether it is calm: nothing fails *)
(* or is killed on a calm estate, and no admin posts (a bound of the model).          *)
EXTENDS ArchitectureAssessments, ArchitectureVerdicts

CONSTANT Estates

(* What the platforms answer and what was imported are lists.                        *)
ASSUME EstatesAssumption ==
  \A e \in Estates :
    \A rows \in e.workflows.answer \cup e.tags.answer
                \cup {e.workflows.imported, e.tags.imported, e.properties, e.segments} :
      rows \in Seq(ToSet(rows))

VARIABLES
  estate,    \* what the platforms answer, and the runs to come
  held       \* what is stored of each assessment, once one execution has committed

estateVars == <<jobs, scored, queue, caller, worker, faults, estate, held>>

EstateInit ==
  /\ Init
  /\ estate \in Estates
  /\ held = [a \in Jobs |-> {}]

ResultsOf(source) == IF source = None THEN <<>> ELSE estate.results[source]

Persist(w) == held' = [held EXCEPT ![worker[w].job] = {Assessed(estate, ResultsOf(worker[w].source))}]

EstateNext ==
  /\ UNCHANGED estate
  /\ \/ \E w \in Workers : Commit(w) /\ Persist(w)
     \/ /\ UNCHANGED held
        /\ \/ \E c \in Callers :
                \/ ScoreSucceeds(c) /\ scored' <= Len(estate.results)
                \/ Skip(c) \/ FindNone(c) \/ FindActive(c) \/ Refresh(c) \/ Label(c) \/ Create(c) \/ Send(c)
                \/ ~estate.calm /\ (SendFails(c) \/ CallerDies(c) \/ \E source \in Sources : AdminPosts(c, source))
           \/ \E w \in Workers :
                \/ Start(w) \/ StartRun(w) \/ FailRun(w) \/ Return200(w)
                \/ ~estate.calm /\ (Fail(w) \/ Kill(w) \/ LoseProcess(w))
                \/ \E a \in Jobs : Receive(w, a)

EstateSpec == EstateInit /\ [][EstateNext]_estateVars /\ Fairness

---------------------------------------------------------------------------------
(* The pages show the newest assessment, and the pilots are judged by the newest one  *)
(* that succeeded.                                                                 *)

find_latest_architecture_assessment ==
  LET all == {a \in Jobs : jobs[a].status # "absent"} IN IF all = {} THEN {} ELSE {Max(all)}

(* Mutant: an assessment that is executed again counts as succeeded.                *)
Mutant_resolve_ui_status ==
  IF find_latest_architecture_assessment = {}
  THEN IF scored = 0 THEN "waiting_for_score" ELSE "updating"
  ELSE LET a == CHOOSE x \in find_latest_architecture_assessment : TRUE
       IN IF jobs[a].status = "failed" THEN "failed"
          ELSE IF held[a] = {} THEN "updating"
          ELSE IF \E h \in held[a] : h.mode = "INCOMPLETE" \/ ~h.complete THEN "incomplete_map" ELSE "up_to_date"

resolve_ui_status ==
  IF \E a \in Jobs : IsActive(a) THEN "updating"
  ELSE IF find_latest_architecture_assessment = {}
  THEN IF scored = 0 THEN "waiting_for_score" ELSE "updating"
  ELSE LET a == CHOOSE x \in find_latest_architecture_assessment : TRUE
       IN IF jobs[a].status = "failed" THEN "failed"
          ELSE IF \E h \in held[a] : h.mode = "INCOMPLETE" \/ ~h.complete THEN "incomplete_map" ELSE "up_to_date"

(* The assessment whose mode and gaps the pilots use, and the one a report of a run    *)
(* shows: the newest that succeeded with this run as its source, else the newest.     *)
Succeeding(those) == {a \in those : jobs[a].status = "succeeded"}
PilotsAssessment ==
  IF Succeeding(Jobs) # {} THEN {Max(Succeeding(Jobs))} ELSE find_latest_architecture_assessment

resolve_architecture_assessment_for_run(s) ==
  LET linked == Succeeding({a \in Jobs : jobs[a].source = s})
  IN IF linked # {} THEN {Max(linked)}
     ELSE IF Succeeding(Jobs) # {} THEN {Max(Succeeding(Jobs))} ELSE {}

---------------------------------------------------------------------------------
Found(a) == jobs[a].status = "succeeded" /\ held[a] # {}
HeldBy(a) == CHOOSE h \in held[a] : TRUE

(* An asset is a candidate to be retired or merged only on a complete graph, and none   *)
(* is to be retired that a workflow of the inventory names, unless another asset of    *)
(* its type bears that name (PRD_AF_01_ARCHITECTURE_ASSESSMENT.md:335). The graph leads  *)
(* to tags, properties and segments: what a workflow names is no workflow (graph.py).    *)
Names(w, x) ==
  \/ x.type = "TAG" /\ x.name \in w.def.trigger.names \cup w.def.tags \cup w.def.writes
  \/ x.type = "PROPERTY" /\ x.name \in w.def.trigger.names \cup w.def.properties
  \/ x.type = "SEGMENT" /\ x.name \in w.def.trigger.names \cup w.def.segments
NothingUsedIsRetired ==
  \A a \in Jobs : Found(a) =>
    LET h == HeldBy(a)
    IN \A i \in DOMAIN h.assets :
         /\ h.verdicts[i].verdict \in {"RETIRE_CANDIDATE", "CONSOLIDATE"} =>
              /\ \E j \in DOMAIN h.assets : h.assets[j].type = "SEGMENT"
              /\ \A j \in DOMAIN h.assets : h.assets[j].type = "WORKFLOW" => h.assets[j].def.trigger.norm # ""
         /\ h.verdicts[i].verdict = "RETIRE_CANDIDATE" =>
              \A j \in DOMAIN h.assets : h.assets[j].type = "WORKFLOW" /\ Names(h.assets[j], h.assets[i]) =>
                \E k \in DOMAIN h.assets \ {i} :
                  h.assets[k].type = h.assets[i].type /\ h.assets[k].name = h.assets[i].name

(* An account is augmented as it is only where the run that was joined failed no        *)
(* consent check, and where no workflow is kept as it is that runs on data which a      *)
(* failed check impairs (rollup_mode, _build_fix_first_map).                         *)
NoBlessingOverConsent ==
  \A a \in Jobs : Found(a) =>
    LET h == HeldBy(a)
        failed == {c \in DOMAIN ResultsOf(jobs[a].result) : ResultsOf(jobs[a].result)[c] = "FAIL"}
    IN failed \cap Consents # {} =>
         /\ h.mode # "AUGMENT"
         /\ \A i \in DOMAIN h.assets : h.assets[i].type = "WORKFLOW" => h.verdicts[i].verdict = "FIX_FIRST"

(* Of two assessments of an estate on which no workflows overlap, the one whose run did *)
(* no check worse is not told to rebuild more. Where they overlap a failed check can     *)
(* help: workflows that are to be fixed first no longer count as colliding. A check that *)
(* was not judged does no harm, as one that passed (load_dcs_join).                     *)
Harm(status) == CASE status = "WARN" -> 1 [] status = "FAIL" -> 2 [] OTHER -> 0
HarmOf(results, c) == IF c \in DOMAIN results THEN Harm(results[c]) ELSE 0
Rank == [m \in {"AUGMENT", "SELECTIVE_REBUILD", "REBUILD"} |->
           CASE m = "AUGMENT" -> 0 [] m = "SELECTIVE_REBUILD" -> 1 [] m = "REBUILD" -> 2]
BetterDataNeverJudgedWorse ==
  \A a, b \in Jobs : Found(a) /\ Found(b) =>
    LET good == HeldBy(a)
        bad == HeldBy(b)
        r == ResultsOf(jobs[a].result)
        s == ResultsOf(jobs[b].result)
    IN (\A c \in DOMAIN r \cup DOMAIN s : HarmOf(r, c) <= HarmOf(s, c)) /\ _overlap_clusters(good.assets) = {} =>
         /\ (good.mode = "INCOMPLETE") = (bad.mode = "INCOMPLETE")
         /\ good.mode # "INCOMPLETE" => Rank[good.mode] <= Rank[bad.mode]

(* The pages tell what was stored.  Coverage accounts for it: each asset is on one card *)
(* or on none for want of a stage, the cards share out the sixteen stages, and their    *)
(* gaps are those the pilots and the reports read. A report is given no assessment of   *)
(* which nothing is stored. And while nothing is on its way the pages and the pilots go  *)
(* by one assessment, and what is shown as up to date or as an incomplete map has been   *)
(* stored whole.                                                                        *)
PagesTellWhatIsStored ==
  /\ \A a \in Jobs : Found(a) =>
       LET h == HeldBy(a)
           page == build_coverage_payload(h)
       IN /\ Cardinality(page.unassigned) + SumFunction([k \in Cards |-> Cardinality(page.cards[k].assets)]) = Len(h.assets)
          /\ SumFunction([k \in Cards |-> page.cards[k].stages]) = Cardinality(Stages)
          /\ SumFunction([k \in Cards |-> page.cards[k].gaps]) = Cardinality(h.gaps) /\ page.gaps = h.gaps
          /\ build_lifecycle_summary(h).uncovered = Cardinality(page.gaps)
          /\ (run_phase_f_coverage(h.assets) = "succeeded") = (page.gaps = {})
  /\ \A s \in 1..scored : \A a \in resolve_architecture_assessment_for_run(s) : held[a] # {}
  /\ resolve_ui_status \in {"up_to_date", "incomplete_map"} =>
       /\ PilotsAssessment = find_latest_architecture_assessment
       /\ \A a \in PilotsAssessment : held[a] # {} /\ jobs[a].run = "succeeded"

---------------------------------------------------------------------------------
(* What is stored of an assessment was judged on the run that its result names.      *)
HeldAsJudged ==
  \A a \in Jobs :
    /\ held[a] # {} => held[a] = {Assessed(estate, ResultsOf(jobs[a].result))}
    /\ jobs[a].status = "absent" => held[a] = {}

======================================================================================
