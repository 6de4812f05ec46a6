------------------------------ MODULE AiSuggestions ------------------------------
(* Suggestions of the language model and the reports that show them                *)
(* (dataruns/ai, dataruns/reports): requests look for a saved suggestion, ask the   *)
(* model for one, save it, and attach it to a report.                               *)
(*                                                                                  *)
(* A finding stands for what content_hash is computed from: status, severity,       *)
(* summary, remedy and amount of a check; what else a context holds is fixed by      *)
(* the check.  AI is enabled, and prompts, policy and model stay the same.           *)
EXTENDS Integers, SequencesExt

CONSTANTS
  Asks,          \* requests under way at a time
  Checks,        \* checks of a DCS run
  Findings,      \* what a check that fails may have found
  Secret,        \* findings whose text still looks like a secret when scrubbed
  Clean,         \* result of a check that is no open issue
  Outcomes,      \* what a run may end with: status, headline score, findings
  Retries,       \* max_retries_clamped()
  BriefCap,      \* _MAX_AI_FIX_CHECKS
  MaxScores,     \* bound on runs scored
  MaxRequests,   \* bound on requests
  MaxReports,    \* bound on reports
  Nothing        \* null

ASSUME AiAssumption ==
  /\ Retries \in 1 .. 3
  /\ BriefCap \in Nat \ {0}
  /\ Secret \subseteq Findings
  /\ Clean \notin Findings /\ Nothing \notin Nat /\ MaxScores \in Nat
  /\ Outcomes \subseteq
       [ok : BOOLEAN, scored : BOOLEAN, found : [Checks -> Findings \cup {Clean}]]

VARIABLES
  dcs,       \* terminal score runs, oldest first
  saved,     \* rows of AiSuggestion in the order of updated_at
  reports,   \* rows of AssessmentReport
  asks,      \* requests
  requests   \* number of requests so far

aiVars == <<dcs, saved, reports, asks, requests>>

Fix == "fix_suggestion"
Narrative == "report_narrative"

(* `had' is history: the finding had a valid suggestion when the request loaded it. *)
(* `shown' is history: what its run has found since a report began to show it.      *)
Idle ==
  [pc |-> "idle", goal |-> "answer", context |-> Nothing, refresh |-> FALSE,
   tries |-> 0, answer |-> Nothing, had |-> FALSE, report |-> Nothing,
   named |-> FALSE, run |-> Nothing, shown |-> {}, todo |-> {},
   fixes |-> [c \in Checks |-> Nothing]]

(* A fingerprint and a content_hash stand for what they are computed from; a row is   *)
(* found by its fingerprint, and a fix by the hash of its finding too.                *)
(* mutant: a context is known by its check and run *)
MutantFingerprint(context) ==
  [task |-> context.task, subject |-> context.check, run |-> context.run]

compute_fingerprint(context) ==
  [task |-> context.task, subject |-> <<context.check, context.body>>, run |-> context.run]

compute_fix_content_hash(context) == <<context.check, context.body>>

Blank == <<>>

(* Rows of earlier versions have no content_hash, and may miss what the schema       *)
(* asks for today; they answered a finding of a run that is gone.                    *)
Legacy(check, finding, valid) ==
  LET context == [task |-> Fix, check |-> check, run |-> 0, body |-> finding]
  IN [task |-> Fix, check |-> check, fingerprint |-> compute_fingerprint(context),
      content_hash |-> Blank, valid |-> valid, of |-> context]

AiInit ==
  /\ dcs = <<>>
  /\ saved \in {<<>>} \cup {<<Legacy(c, f, v)>> : c \in Checks, f \in Findings, v \in BOOLEAN}
  /\ reports = <<>>
  /\ asks = [a \in Asks |-> Idle]
  /\ requests = 0

----------------------------------------------------------------------------------
(* A run ends, in whatever order runs were created, or a redelivered message has    *)
(* one scored again.  `at' orders by finished_at.                                   *)
NextScore == {at \in 1 .. MaxScores :
                /\ \A i \in DOMAIN dcs : dcs[i].at < at
                /\ at = 1 \/ \E i \in DOMAIN dcs : dcs[i].at = at - 1}

Score(r, outcome, at) ==
  LET row == [ok |-> outcome.ok, scored |-> outcome.scored, found |-> outcome.found,
              at |-> at]
  IN
  /\ dcs' = IF r \in DOMAIN dcs THEN [dcs EXCEPT ![r] = row] ELSE Append(dcs, row)
  /\ asks' = [a \in Asks |-> IF asks[a].run = r
                             THEN [asks[a] EXCEPT !.shown = @ \cup {outcome.found}] ELSE asks[a]]
  /\ reports' = [i \in DOMAIN reports |->
                   IF reports[i].run = r
                   THEN [reports[i] EXCEPT !.shown = @ \cup {outcome.found}] ELSE reports[i]]
  /\ UNCHANGED <<saved, requests>>

(* A run that fails may have its score already; a blocked run has none.              *)
Scores ==
  \E r \in 1 .. Len(dcs) + 1, outcome \in Outcomes, at \in NextScore : Score(r, outcome, at)

----------------------------------------------------------------------------------
(* The run that was named, or the newest one created; none is answered with 404.    *)
resolve_dcs_run_for_ai(named) ==
  IF named # Nothing THEN {named} \cap DOMAIN dcs ELSE {Len(dcs)} \cap DOMAIN dcs

_issue_base_fields(task, check, r) ==
  [task |-> task, check |-> check, run |-> r, body |-> dcs[r].found[check]]

(* Contexts: none if the check is no open issue of the run.                         *)
load_issue_for_ai(task, check, named) ==
  {_issue_base_fields(task, check, r) :
     r \in {r \in resolve_dcs_run_for_ai(named) : dcs[r].found[check] # Clean}}

project_report_narrative_context(r, found) ==
  [task |-> Narrative, check |-> Nothing, run |-> r, body |-> found]

build_report_narrative_projected(named) ==
  {project_report_narrative_context(r, dcs[r].found) : r \in resolve_dcs_run_for_ai(named)}

(* What the prompt is built from names its issues; the text that may hold a secret  *)
(* is left out of a narrative's rollup.                                             *)
ensure_safe_context(context) == context.task = Narrative \/ context.body \notin Secret

_valid_fix_payload(i) == saved[i].valid

(* Newest valid row of some; rows that miss the schema are passed over.              *)
_first_valid_soft(rows) ==
  {i \in rows : /\ _valid_fix_payload(i)
                /\ \A j \in rows : _valid_fix_payload(j) => j <= i}

FixRows(check) == {i \in DOMAIN saved : saved[i].task = Fix /\ saved[i].check = check}

(* mutant: rows of the same run only *)
MutantHashed(context) ==
  {i \in FixRows(context.check) :
     /\ saved[i].content_hash = compute_fix_content_hash(context)
     /\ saved[i].of.run = context.run}

Hashed(context) ==
  {i \in FixRows(context.check) :
     saved[i].content_hash = compute_fix_content_hash(context)}

BlankRows(check) == {i \in FixRows(check) : saved[i].content_hash = Blank}

get_cached_suggestion(context) ==
  {i \in DOMAIN saved : /\ saved[i].task = context.task
                        /\ saved[i].fingerprint = compute_fingerprint(context)}

----------------------------------------------------------------------------------
(* A valid suggestion tells how to fix just this finding, of whatever run.           *)
Told(context) ==
  \E i \in DOMAIN saved :
    /\ saved[i].task = Fix /\ saved[i].valid
    /\ saved[i].of.check = context.check /\ saved[i].of.body = context.body

(* A request goes on from a context it has loaded ...                                *)
Started(slot, context, pc) ==
  [slot EXCEPT !.pc = pc, !.context = context, !.tries = 0, !.answer = Nothing,
               !.had = Told(context)]

(* ... with the saved suggestions for the finding, unless they are to be renewed, ...*)
get_or_create_fix_suggestion(slot, context, refresh) ==
  [Started(slot, context, IF refresh THEN "gate" ELSE "soft") EXCEPT !.refresh = refresh]

(* ... or, for any other task, with the privacy gate.                                *)
get_or_create_explain_finding(context) == Started(Idle, context, "gate")
get_or_create_nba_blurb(context) == Started(Idle, context, "gate")
get_or_create_report_narrative(slot, context) == Started(slot, context, "gate")

Named == DOMAIN dcs \cup {Nothing}

Arrives(a) ==
  /\ asks[a].pc = "idle"
  /\ requests < MaxRequests
  /\ requests' = requests + 1
  /\ UNCHANGED <<dcs, saved, reports>>

(* FixSuggestionView *)
AskFix(a, check, named, refresh) ==
  /\ Arrives(a)
  /\ \E context \in load_issue_for_ai(Fix, check, named) :
       asks' = [asks EXCEPT ![a] = get_or_create_fix_suggestion(Idle, context, refresh)]

(* ExplainFindingView *)
AskExplain(a, check, named) ==
  /\ Arrives(a)
  /\ \E context \in load_issue_for_ai("explain_finding", check, named) :
       asks' = [asks EXCEPT ![a] = get_or_create_explain_finding(context)]

(* NbaBlurbView; the rank of the check in the plan does not change.                  *)
AskBlurb(a, check, named) ==
  /\ Arrives(a)
  /\ \E context \in load_issue_for_ai("nba_blurb", check, named) :
       asks' = [asks EXCEPT ![a] = get_or_create_nba_blurb(context)]

(* mutant: the narrative of the newest run *)
MutantNarrativeRun(named, report) == named

(* The run of a report, unless another one is named.                                 *)
NarrativeRun(named, report) ==
  IF named = Nothing /\ report # Nothing THEN reports[report].run ELSE named

(* ReportNarrativeView                                                               *)
AskNarrative(a, named, report) ==
  /\ Arrives(a)
  /\ \E context \in build_report_narrative_projected(NarrativeRun(named, report)) :
       asks' = [asks EXCEPT ![a] =
         get_or_create_report_narrative(
           [Idle EXCEPT !.goal = IF report = Nothing THEN "answer" ELSE "attach",
                        !.report = report, !.named = named # Nothing], context)]

Answer(row, stale) == [of |-> row.of, stale |-> stale, legacy |-> row.content_hash = Blank]

(* The soft path: a suggestion for the same finding, whatever run it was made for,  *)
(* else the newest one that does not tell its finding, marked stale.                *)
_soft_fix_suggestion_or_none(a) ==
  /\ asks[a].pc = "soft"
  /\ LET context == asks[a].context
         matched == _first_valid_soft(Hashed(context))
         legacy == _first_valid_soft(BlankRows(context.check))
     IN asks' = [asks EXCEPT ![a] =
          IF matched \cup legacy = {} THEN [@ EXCEPT !.pc = "gate"]
          ELSE [@ EXCEPT !.pc = "answered",
                  !.answer = IF matched # {}
                             THEN Answer(saved[CHOOSE i \in matched : TRUE], FALSE)
                             ELSE Answer(saved[CHOOSE i \in legacy : TRUE], TRUE)]]
  /\ UNCHANGED <<dcs, saved, reports, requests>>

(* The gate denies (an AiCall tells why), else a row of the same fingerprint that   *)
(* is valid answers, else the model is asked.                                       *)
GateAndCache(a) ==
  /\ asks[a].pc = "gate"
  /\ LET context == asks[a].context
         cached == {i \in get_cached_suggestion(context) :
                      saved[i].valid /\ ~asks[a].refresh}
     IN asks' = [asks EXCEPT ![a] =
          IF ~ensure_safe_context(context) THEN [@ EXCEPT !.pc = "refused"]
          ELSE IF cached = {} THEN [@ EXCEPT !.pc = "model"]
          ELSE [@ EXCEPT !.pc = "answered",
                         !.answer = Answer(saved[CHOOSE i \in cached : TRUE], FALSE)]]
  /\ UNCHANGED <<dcs, saved, reports, requests>>

(* The model's answer parses, is of the check asked about and leaks nothing; else   *)
(* it is asked again, a limited number of times; an error of the provider ends the  *)
(* request at once (in both cases an AiCall tells it failed).                       *)
complete_json(a) ==
  /\ asks[a].pc = "model"
  /\ \/ asks' = [asks EXCEPT ![a] = [@ EXCEPT !.pc = "save"]]
     \/ /\ asks[a].tries + 1 < Retries
        /\ asks' = [asks EXCEPT ![a] = [@ EXCEPT !.tries = asks[a].tries + 1]]
     \/ asks' = [asks EXCEPT ![a] = [@ EXCEPT !.pc = "refused"]]
  /\ UNCHANGED <<dcs, saved, reports, requests>>

(* The row of a fingerprint is written over; only a fix writes its content_hash.    *)
Upserted(context) ==
  LET hash == IF context.task = Fix THEN compute_fix_content_hash(context) ELSE Blank
  IN [task |-> context.task, check |-> context.check,
      fingerprint |-> compute_fingerprint(context), content_hash |-> hash,
      valid |-> TRUE, of |-> context]

upsert_ai_suggestion(a) ==
  /\ asks[a].pc = "save"
  /\ LET row == Upserted(asks[a].context)
         old == get_cached_suggestion(asks[a].context)
         others == IF old = {} THEN saved ELSE RemoveAt(saved, CHOOSE i \in old : TRUE)
     IN /\ saved' = Append(others, row)
        /\ asks' = [asks EXCEPT ![a] =
             [@ EXCEPT !.pc = "answered", !.answer = Answer(row, FALSE)]]
  /\ UNCHANGED <<dcs, reports, requests>>

----------------------------------------------------------------------------------
(* The run of a report: the one named, if it is scored, else the last one of the    *)
(* period that succeeded with a score.                                              *)
resolve_dcs_run_for_compose(named) ==
  IF named # Nothing THEN {r \in DOMAIN dcs : r = named /\ dcs[r].scored}
  ELSE LET inPeriod == {r \in DOMAIN dcs : dcs[r].ok /\ dcs[r].scored}
       IN {r \in inPeriod : \A q \in inPeriod : dcs[q].at <= dcs[r].at}

Fixed(slot) == {c \in Checks : slot.fixes[c] # Nothing}

OpenIssues(found) == {c \in Checks : found[c] # Clean}

(* _compose_assessment_report reads the run and its open issues; the brief of the   *)
(* overview then asks for a fix of each.                                            *)
Compose(a, named, brief) ==
  /\ Arrives(a)
  /\ \E r \in resolve_dcs_run_for_compose(named) :
       asks' = [asks EXCEPT ![a] =
         [Idle EXCEPT !.pc = "brief", !.run = r, !.shown = {dcs[r].found},
                      !.todo = IF brief THEN OpenIssues(dcs[r].found) ELSE {}]]

(* An issue that the run no longer has, or whose suggestion is refused, is left out. *)
collect_fix_suggestions_for_report(a) ==
  /\ asks[a].pc = "brief"
  /\ Cardinality(Fixed(asks[a])) < BriefCap
  /\ \E c \in asks[a].todo :
       LET slot == [asks[a] EXCEPT !.todo = @ \ {c}]
           contexts == load_issue_for_ai(Fix, c, asks[a].run)
       IN asks' = [asks EXCEPT ![a] =
            IF contexts = {} THEN slot
            ELSE get_or_create_fix_suggestion([slot EXCEPT !.goal = "brief"],
                   CHOOSE context \in contexts : TRUE, FALSE)]
  /\ UNCHANGED <<dcs, saved, reports, requests>>

Briefed(a) ==
  /\ asks[a].pc = "brief"
  /\ asks[a].todo = {} \/ Cardinality(Fixed(asks[a])) >= BriefCap

(* The report is stored ...                                                         *)
StoreReport(a) ==
  /\ Briefed(a)
  /\ Len(reports) < MaxReports
  /\ reports' = Append(reports,
       [run |-> asks[a].run, shown |-> asks[a].shown, fixes |-> asks[a].fixes,
        narrative |-> Nothing, named |-> FALSE])
  /\ asks' = [asks EXCEPT ![a] =
       [Idle EXCEPT !.pc = "stored", !.report = Len(reports) + 1, !.goal = "attach"]]
  /\ UNCHANGED <<dcs, saved, requests>>

(* ... and then gets its narrative, if nothing goes wrong.                          *)
attach_report_narrative_fail_open(a) ==
  /\ asks[a].pc = "stored"
  /\ \E context \in build_report_narrative_projected(NarrativeRun(Nothing, asks[a].report)) :
       asks' = [asks EXCEPT ![a] = get_or_create_report_narrative(asks[a], context)]
  /\ UNCHANGED <<dcs, saved, reports, requests>>

(* attach_narratives_to_report, or the text of an issue's fix in the brief; a       *)
(* refused request leaves both as they are.                                         *)
Deliver(a) ==
  /\ asks[a].pc \in {"answered", "refused"}
  /\ LET slot == asks[a]
         answered == slot.pc = "answered"
     IN /\ reports' = IF slot.goal = "attach" /\ answered
                      THEN [reports EXCEPT ![slot.report] =
                             [@ EXCEPT !.narrative = slot.answer, !.named = slot.named]]
                      ELSE reports
        /\ asks' = [asks EXCEPT ![a] =
             IF slot.goal # "brief" THEN Idle
             ELSE [Idle EXCEPT !.pc = "brief", !.run = slot.run, !.shown = slot.shown,
                     !.todo = slot.todo,
                     !.fixes = IF answered
                               THEN [slot.fixes EXCEPT ![slot.context.check] = slot.answer]
                               ELSE slot.fixes]]
  /\ UNCHANGED <<dcs, saved, requests>>

(* The process that answers is killed.                                              *)
Killed(a) ==
  /\ asks[a].pc # "idle"
  /\ asks' = [asks EXCEPT ![a] = Idle]
  /\ UNCHANGED <<dcs, saved, reports, requests>>

AiStep(a) ==
  \/ \E c \in Checks, named \in Named :
       \/ \E refresh \in BOOLEAN : AskFix(a, c, named, refresh)
       \/ AskExplain(a, c, named) \/ AskBlurb(a, c, named)
  \/ \E named \in Named, report \in DOMAIN reports \cup {Nothing} : AskNarrative(a, named, report)
  \/ \E named \in Named, brief \in BOOLEAN : Compose(a, named, brief)
  \/ _soft_fix_suggestion_or_none(a) \/ GateAndCache(a) \/ complete_json(a)
  \/ upsert_ai_suggestion(a) \/ collect_fix_suggestions_for_report(a)
  \/ attach_report_narrative_fail_open(a) \/ Deliver(a)

AiNext == Scores \/ \E a \in Asks : AiStep(a) \/ StoreReport(a) \/ Killed(a)

AiSpec == AiInit /\ [][AiNext]_aiVars

----------------------------------------------------------------------------------
(* An answer was written about the finding it is given for, or is stale and does not *)
(* tell; that of any other task is about the very context.                           *)
Fits(answer, context) ==
  /\ answer.of.task = context.task /\ answer.of.check = context.check
  /\ IF answer.stale THEN answer.legacy ELSE answer.of.body = context.body

(* A suggestion that is not marked stale was written about the finding it is shown  *)
(* for, whichever run, request or race made it; a stale one does not tell.          *)
AnswersFitTheFinding ==
  \A a \in Asks : asks[a].pc = "answered" => Fits(asks[a].answer, asks[a].context)

(* The model is not asked to fix what it has told how to fix, in whatever run, but  *)
(* on demand.                                                                       *)
FixesAreReused ==
  \A a \in Asks :
    asks[a].pc \in {"model", "save"} /\ asks[a].context.task = Fix /\ ~asks[a].refresh =>
      ~asks[a].had

NarrativeTells(report) ==
  report.narrative # Nothing /\ ~report.named =>
    report.narrative.of.run = report.run /\ report.narrative.of.body \in report.shown

FixesTell(report) ==
  \A c \in Checks :
    \/ report.fixes[c] = Nothing \/ report.fixes[c].stale
    \/ \E found \in report.shown : report.fixes[c].of.body = found[c]

(* What a report says beside its findings was written about findings its run had    *)
(* since the report was begun: its narrative, unless another run was named for it,  *)
(* and the fixes of its brief, unless they do not tell.                             *)
ReportsTellOneStory ==
  \A i \in DOMAIN reports : NarrativeTells(reports[i]) /\ FixesTell(reports[i])

----------------------------------------------------------------------------------
(* What makes these inductive: types, ...                                            *)
AiTasks == {Fix, Narrative, "explain_finding", "nba_blurb"}

Found == [Checks -> Findings \cup {Clean}]

Subjects == Checks \cup {Nothing}

Bodies == Findings \cup Found

RunType == [ok : BOOLEAN, scored : BOOLEAN, found : Found, at : Nat]

ContextType == [task : AiTasks, check : Subjects, run : Nat, body : Bodies]

(* ... rows that are filed under what they were written about, ...                   *)
Filed(row) ==
  /\ row.task = row.of.task /\ row.check = row.of.check
  /\ row.fingerprint = compute_fingerprint(row.of)
  /\ row.content_hash # Blank => row.content_hash = compute_fix_content_hash(row.of)

RowType ==
  {row \in [task : AiTasks, check : Subjects,
            fingerprint : [task : AiTasks, subject : Subjects \X Bodies, run : Nat],
            content_hash : {Blank} \cup (Subjects \X Bodies), valid : BOOLEAN,
            of : ContextType] : Filed(row)}

AnswerType == [of : ContextType, stale : BOOLEAN, legacy : BOOLEAN]

FixesType == [Checks -> AnswerType \cup {Nothing}]

ReportType ==
  [run : Nat, shown : SUBSET Found, fixes : FixesType,
   narrative : AnswerType \cup {Nothing}, named : BOOLEAN]

Working == {"soft", "gate", "model", "save", "answered", "refused"}

SlotType ==
  [pc : {"idle", "brief", "stored"} \cup Working, goal : {"answer", "attach", "brief"},
   context : ContextType \cup {Nothing}, refresh : BOOLEAN, tries : Nat,
   answer : AnswerType \cup {Nothing}, had : BOOLEAN, report : Nat \cup {Nothing},
   named : BOOLEAN, run : Nat \cup {Nothing}, shown : SUBSET Found, todo : SUBSET Checks,
   fixes : FixesType]

AiTypeOK ==
  /\ dcs \in Seq(RunType)
  /\ saved \in Seq(RowType)
  /\ reports \in Seq(ReportType)
  /\ asks \in [Asks -> SlotType]
  /\ requests \in Nat

(* ... and what a request and a report know of their run and of each other.           *)
RunShown(report) == report.run \in DOMAIN dcs /\ dcs[report.run].found \in report.shown

Answered(slot) ==
  slot.pc = "answered" =>
    /\ slot.answer \in AnswerType
    /\ Fits(slot.answer, slot.context)
    /\ slot.context.task # Fix => ~slot.answer.stale /\ slot.answer.of = slot.context

BriefTells(slot) ==
  /\ slot.run # Nothing => RunShown(slot)
  /\ slot.pc = "brief" => slot.run # Nothing
  /\ slot.goal = "brief" =>
       /\ slot.run # Nothing /\ slot.pc \in Working
       /\ slot.context.check \in Checks
       /\ \E found \in slot.shown : slot.context.body = found[slot.context.check]

AttachTells(slot) ==
  slot.goal = "attach" =>
    /\ slot.report \in DOMAIN reports
    /\ slot.pc \in Working => slot.context.task = Narrative
    /\ slot.pc \in Working /\ ~slot.named =>
         /\ slot.context.run = reports[slot.report].run
         /\ slot.context.body \in reports[slot.report].shown

SlotTells(slot) ==
  /\ slot.pc \in Working => slot.context \in ContextType
  /\ slot.pc = "soft" => slot.context.task = Fix
  /\ Answered(slot) /\ BriefTells(slot) /\ AttachTells(slot) /\ FixesTell(slot)

ReportTells(report) == RunShown(report) /\ NarrativeTells(report) /\ FixesTell(report)

AiInv ==
  /\ AiTypeOK
  /\ \A a \in Asks : SlotTells(asks[a])
  /\ \A i \in DOMAIN reports : ReportTells(reports[i])

(* A finding that had a suggestion keeps one until the request has looked for it.     *)
Reuses(slot) ==
  /\ slot.pc = "soft" => ~slot.refresh /\ (slot.had => Told(slot.context))
  /\ slot.pc \in {"gate", "model", "save"} /\ slot.context.task = Fix /\ ~slot.refresh =>
       ~slot.had

ReuseInv == \A a \in Asks : Reuses(asks[a])

=================================================================================
