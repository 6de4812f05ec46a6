---------------------------- MODULE FoundationGates ----------------------------
(* The seven foundation gates of a scoring run: authentication of Manago (FD-01)  *)
(* and Shopify with its scopes (FD-02), the ERP feed (FD-03), rate-limit headroom *)
(* (FD-04), history depth (FD-05), account topology (FD-06) and site tracking     *)
(* (FD-07). A context f holds what the run knows:                                 *)
(*   manago, shopify  links [on, settled, live, report, issues, auth, scopes,     *)
(*                    scopesOk, summary, days, budget, earliest, depth, meets]    *)
(*   topology, accounts, measurable, active, visits, cookie   of Manago           *)
(*   erp, erpOn, reachable, schema, utf8, rows                of the ERP feed     *)
(*   pages            what the scraped hosts answered; {} when none was scraped   *)
(*   need             days of history required                                   *)
(* A measurement is "yes", "no" or "none" (not taken); scopes is {} or {S} where S *)
(* is the set granted; a number that is not known is Unmeasured.                  *)
EXTENDS CheckRules, SequencesExt

Gates == {"FD-01", "FD-02", "FD-03", "FD-04", "FD-05", "FD-06", "FD-07"}
Unmeasured == 999

SHOPIFY_FD02_REQUIRED_SCOPES == {"customers", "orders"}

_issues_from_health(link) == IF link.report THEN link.issues ELSE {}

(* The preflight's answer, else the absence of an authentication issue.           *)
AuthOk(link) ==
  /\ "AUTH_FAILED" \notin _issues_from_health(link)
  /\ ~(link.report /\ link.auth = "no")

(* Neither a report nor a connector in a state that stands in for one.            *)
Unreported(link) == ~link.report /\ ~link.settled

evaluate_fd_01(f) ==
  FirstRule(<<
    <<~f.manago.on, "NOT_CONNECTED">>,
    <<f.manago.live # "none", IF f.manago.live = "yes" THEN "PASS" ELSE "FAIL">>,
    <<~AuthOk(f.manago), "FAIL">>,
    <<Unreported(f.manago), "UNKNOWN">>,
    <<TRUE, "PASS">> >>)

-----------------------------------------------------------------------------
(* Scopes: the connector's own list, else the preflight's; a write scope implies  *)
(* the read scope of its resource, so only resources are named.                   *)
_granted_scopes(link) == UNION link.scopes
_fd02_missing_scopes(link) == SHOPIFY_FD02_REQUIRED_SCOPES \ _granted_scopes(link)

evaluate_fd_02(f) ==
  LET s == f.shopify
      auth == CASE s.live = "none" -> AuthOk(s)
                [] OTHER -> s.live = "yes" /\ "AUTH_FAILED" \notin _issues_from_health(s)
  IN FirstRule(<<
       <<~s.on, "NOT_CONNECTED">>,
       <<~auth, "FAIL">>,
       <<s.scopes # {}, IF _fd02_missing_scopes(s) = {} THEN "PASS" ELSE "FAIL">>,
       <<s.report /\ ("SCOPES_MISSING" \in s.issues \/ s.scopesOk = "no"), "FAIL">>,
       <<TRUE, "UNKNOWN">> >>)

evaluate_fd_03(f) ==
  FirstRule(<<
    <<~f.erp \/ ~f.erpOn, "NOT_CONNECTED">>,
    <<"no" \in {f.reachable, f.schema, f.utf8} \/ f.rows = 0, "FAIL">>,
    <<f.reachable = "none" /\ f.rows = Unmeasured, "UNKNOWN">>,
    <<TRUE, "PASS">> >>)

-----------------------------------------------------------------------------
Connected(f) == {link \in {f.manago, f.shopify} : link.on}

(* A budget was not measured ("none"), has headroom ("room"), has not ("short") or *)
(* was exhausted ("hit"); the health report may say the latter too.               *)
HitLimit(link) == link.budget = "hit" \/ "RATE_LIMIT" \in _issues_from_health(link)

evaluate_fd_04(f) ==
  FirstRule(<<
    <<Connected(f) = {}, "NOT_CONNECTED">>,
    <<\E link \in Connected(f) : HitLimit(link) \/ link.budget = "short", "FAIL">>,
    <<\E link \in Connected(f) : link.budget = "none", "UNKNOWN">>,
    <<TRUE, "PASS">> >>)

(* One side with enough history is enough, and a bootstrap that went well counts  *)
(* as history of its window.                                                      *)
WindowEnough(f, link) == ~link.report \/ link.days = Unmeasured \/ link.days >= f.need
Imported(link) == link.report /\ link.summary \in {"ok", "degraded"}
Dated(link) == link.earliest \/ link.depth # Unmeasured
DeepEnough(f, link) ==
  \/ Imported(link) /\ WindowEnough(f, link)
  \/ /\ Dated(link)
     /\ \/ link.meets = "yes"
        \/ link.depth # Unmeasured /\ link.depth >= f.need
        \/ link.meets = "none" /\ link.earliest /\ WindowEnough(f, link)

evaluate_fd_05(f) ==
  FirstRule(<<
    <<Connected(f) = {}, "NOT_CONNECTED">>,
    <<\E link \in Connected(f) : DeepEnough(f, link), "PASS">>,
    <<\E link \in Connected(f) : Dated(link) \/ Imported(link), "FAIL">>,
    <<TRUE, "UNKNOWN">> >>)

evaluate_fd_06(f) ==
  FirstRule(<<
    <<~f.manago.on, "NOT_CONNECTED">>,
    <<f.topology = "no", "FAIL">>,
    <<f.topology = "yes" /\ f.accounts, "PASS">>,
    <<TRUE, "UNKNOWN">> >>)

(* Two ways to see the tracking code: signals of visits, and its markers on a page. *)
(* A page answers "marked", "clean", "wall" (a password page) or "error".          *)
Signals(f) == {f.active, f.visits, f.cookie} # {"none"}
BySignals(f) ==
  FirstRule(<<
    <<~Signals(f), IF f.measurable = "no" THEN "UNKNOWN" ELSE "none">>,
    <<f.measurable = "no", "UNKNOWN">>,
    <<f.active = "yes" \/ (f.visits = "yes" /\ f.cookie = "yes"), "PASS">>,
    <<TRUE, "FAIL">> >>)
ByPages(f) ==
  FirstRule(<<
    <<"marked" \in f.pages, "PASS">>,
    <<"clean" \in f.pages, "FAIL">>,
    <<TRUE, "UNKNOWN">> >>)

evaluate_fd_07(f) ==
  FirstRule(<<
    <<~f.manago.on, "NOT_CONNECTED">>,
    <<"PASS" \in {BySignals(f), ByPages(f)}, "PASS">>,
    <<"FAIL" \in {BySignals(f), ByPages(f)}, "FAIL">>,
    <<TRUE, "UNKNOWN">> >>)

-----------------------------------------------------------------------------
evaluate_foundation_gates(f) ==
  [g \in Gates |->
     CASE g = "FD-01" -> evaluate_fd_01(f)
       [] g = "FD-02" -> evaluate_fd_02(f)
       [] g = "FD-03" -> evaluate_fd_03(f)
       [] g = "FD-04" -> evaluate_fd_04(f)
       [] g = "FD-05" -> evaluate_fd_05(f)
       [] g = "FD-06" -> evaluate_fd_06(f)
       [] g = "FD-07" -> evaluate_fd_07(f)]

-----------------------------------------------------------------------------
(* Where the foundation gates' inputs come from: the health report of the import   *)
(* a run is scored on, the rate budgets, the depth of history, the tracking        *)
(* evidence and the map of Manago accounts, which the connector's configuration    *)
(* (the primary owner) decides. A world w holds                                    *)
(*   manago, shopify   [status, import, live, probe, ages]; import is {} or        *)
(*                     {[before, raised, contacts, orders, cut, days, scopes,      *)
(*                     seen]}: the issues found before, the error the import       *)
(*                     raised ("none"), rows, a truncated fetch, its window, the   *)
(*                     scopes granted and the call headroom observed               *)
(*   users, listed     the Manago users in the API's order, if it answered         *)
(*   slug              the users whose name fits the Shopify domain                *)
(*   activity          {} or {[visits, identified, monitored]}                     *)
(*   ingested          <<visits, identified visits>> among the imported events     *)
(*   pages, need       what the scraped hosts answered, the days required           *)
(* and a configuration c holds [owner, accounts, class]: the primary owner or      *)
(* Nobody, the rows [owner, inScope, class] of the account map, and a default.     *)

Nobody == "nobody"

-----------------------------------------------------------------------------
(* The health report of an import.                                                 *)

Warning(code) == [code |-> code, severity |-> "warn"]
Failure(code) == [code |-> code, severity |-> "error"]

(* Manago is not a shop: an empty window of transactions says nothing there.       *)
postflight_health(platform, i) ==
  {Warning(code) : code \in
     {c \in {"EMPTY_CONTACTS_WINDOW", "EMPTY_ORDERS_WINDOW", "PARTIAL_FETCH"} :
        \/ c = "EMPTY_CONTACTS_WINDOW" /\ i.contacts = 0
        \/ c = "EMPTY_ORDERS_WINDOW" /\ i.orders = 0 /\ platform # "manago"
        \/ c = "PARTIAL_FETCH" /\ i.cut}}

ImportIssues(platform, i) ==
  i.before \cup (IF i.raised = "none" THEN postflight_health(platform, i)
                 ELSE {Failure(i.raised)})

compute_summary_status(issues, succeeded) ==
  FirstRule(<<
    <<~succeeded \/ (\E x \in issues : x.severity = "error"), "error">>,
    <<\E x \in issues : x.severity = "warn", "degraded">>,
    <<TRUE, "ok">> >>)

-----------------------------------------------------------------------------
(* Rate budgets: what the import observed, else a probe. Shopify tells how many     *)
(* calls are left, of which the least counts; a probe of it answers "limited",      *)
(* "silent" (no header), "error", or calls "left" or "spent". Manago is probed with *)
(* three reads.                                                                     *)

BudgetOf(left) == IF left > 0 THEN "room" ELSE "hit"
Scarcest(S) == CHOOSE n \in S : \A o \in S : n <= o

measure_shopify_rate_budget(probe) ==
  CASE probe \in {"limited", "spent"} -> "hit" [] probe \in {"silent", "left"} -> "room"
    [] probe = "error" -> "short" [] probe = "unset" -> "none"

(* The answers of the burst up to the first that is not "ok".                      *)
measure_manago_rate_budget(answers) ==
  LET bad == {i \in DOMAIN answers : answers[i] # "ok"}
      stopped == IF bad = {} THEN "ok" ELSE answers[Scarcest(bad)]
  IN FirstRule(<<
       <<answers = <<>>, "none">>,
       <<stopped = "limited", "hit">>,
       <<1 \notin bad, "room">>,
       <<TRUE, "short">> >>)

_apply_rate_budget(platform, link) ==
  LET observed == UNION {i.seen : i \in link.import}
  IN IF link.status \notin {"connected", "degraded"} THEN "none"
     ELSE IF observed # {} THEN BudgetOf(Scarcest(observed))
     ELSE IF platform = "shopify" THEN measure_shopify_rate_budget(link.probe)
     ELSE measure_manago_rate_budget(link.probe)

(* History: days since the oldest contact or order the platform gave.              *)
compute_history_depth(link) == IF link.ages = {} THEN Unmeasured ELSE Max(link.ages)

-----------------------------------------------------------------------------
(* Tracking: recent activity, and when that is quiet the imported visits.          *)

YesNo(b) == IF b THEN "yes" ELSE "no"
Untracked == [measurable |-> "no", visits |-> "none", cookie |-> "none", active |-> "none"]

derive_tracking_from_recent_activity(a) ==
  [measurable |-> "yes", visits |-> YesNo(a.visits > 0),
   cookie |-> YesNo(a.monitored > 0 \/ a.identified > 0),
   active |-> YesNo(a.visits > 0 \/ a.monitored > 0 \/ a.identified > 0)]

_enrich_tracking_from_ingested_events(t, ingested) ==
  IF ingested[1] = 0 THEN t
  ELSE [t EXCEPT !.visits = "yes", !.active = "yes",
                 !.cookie = IF ingested[2] > 0 THEN "yes" ELSE t.cookie]

Tracking(w) ==
  IF w.activity = {} THEN Untracked
  ELSE LET t == derive_tracking_from_recent_activity(CHOOSE a \in w.activity : TRUE)
       IN IF t.active = "yes" THEN t
          ELSE _enrich_tracking_from_ingested_events(t, w.ingested)

-----------------------------------------------------------------------------
(* The account map.                                                                *)

VALID_MULTI_CLASSES == {"geo", "business", "segment"}
OwnersOf(w) ==
  LET first == {i \in DOMAIN w.users : \A j \in 1..(i - 1) : w.users[j] # w.users[i]}
      upTo(i) == {j \in first : j <= i}
  IN [k \in 1..Cardinality(first) |-> w.users[CHOOSE i \in first : Cardinality(upTo(i)) = k]]

(* Every user that is listed has a name (the loop skips the others).                *)
IsWorld(w) == w.users \in Seq(ToSet(w.users) \ {Nobody})

(* The configured owner, else the first account in scope.                          *)
preferred_owner_from_config(c) ==
  LET named == SelectSeq(c.accounts, LAMBDA row : row.inScope)
  IN IF c.owner # Nobody THEN c.owner
     ELSE IF named = <<>> THEN Nobody ELSE named[1].owner

AccountRow(owner, primary) ==
  [owner |-> owner, inScope |-> owner = primary,
   class |-> IF owner = primary THEN "single" ELSE "unknown"]
RowsFor(owners, primary) == [i \in DOMAIN owners |-> AccountRow(owners[i], primary)]

(* The account map is written anew: the class it was given before is gone.         *)
apply_primary_owner(c, primary, owners) ==
  LET all == IF primary \in ToSet(owners) THEN owners ELSE <<primary>> \o owners
  IN [c EXCEPT !.owner = primary, !.accounts = RowsFor(all, primary), !.class = "unknown"]

infer_primary_owner_from_shop_domain(w, owners) ==
  LET fit == ToSet(owners) \cap w.slug
  IN IF Cardinality(fit) = 1 THEN CHOOSE o \in fit : TRUE ELSE Nobody

(* The owner that is settled on for a configuration that was read: nobody if its     *)
(* primary is one of the users, else the only user, else, where it may be inferred,   *)
(* the only one that fits the shop's name.                                         *)
Settled(w, infer) ==
  LET owners == OwnersOf(w)
  IN IF w.manago.status \notin {"connected", "degraded"} \/ ~w.listed THEN Nobody
     ELSE IF Len(owners) = 1 THEN owners[1]
     ELSE IF infer THEN infer_primary_owner_from_shop_domain(w, owners) ELSE Nobody

(* Mutant: a primary owner that is there is settled again.                         *)
Mutant_ensure_manago_primary_owner(w, copy, infer) == Settled(w, infer)
ensure_manago_primary_owner(w, copy, infer) ==
  IF preferred_owner_from_config(copy) \in ToSet(OwnersOf(w)) THEN Nobody ELSE Settled(w, infer)

_needs_primary_owner_selection(owners, c) ==
  /\ Len(owners) > 1
  /\ preferred_owner_from_config(c) = Nobody
  /\ Cardinality({i \in DOMAIN c.accounts : c.accounts[i].inScope}) # 1

_configured_accounts_for_primary(owners, c) ==
  LET primary == preferred_owner_from_config(c)
  IN IF c.accounts = <<>> /\ Len(owners) > 1 /\ primary \in ToSet(owners)
     THEN RowsFor(owners, primary) ELSE c.accounts

(* One node for the client, and with several owners one for each of them.          *)
Enumerated(owners, class) ==
  LET own == IF Len(owners) = 1 /\ class = "unknown" THEN "single" ELSE class
      node(id, o, in) == [id |-> id, owner |-> o, inScope |-> in, class |-> own]
  IN IF owners = <<>> THEN {}
     ELSE {node("client", owners[1], Len(owners) = 1)}
            \cup (IF Len(owners) = 1 THEN {} ELSE {node("owner", o, TRUE) : o \in ToSet(owners)})

(* The account row of an owner, overlaid on every node of that owner: the client's *)
(* node is one of the first owner's.                                               *)
Overlaid(node, rows, class) ==
  LET mine == {i \in DOMAIN rows : rows[i].owner = node.owner}
      row == rows[Max(mine)]
  IN IF mine # {}
     THEN [node EXCEPT !.inScope = row.inScope,
                       !.class = IF row.class = "none" THEN class ELSE row.class]
     ELSE IF class # "unknown" THEN [node EXCEPT !.class = class] ELSE node

_merge_onboarding(nodes, rows, class) ==
  LET unseen == {i \in DOMAIN rows : \A n \in nodes : n.owner # rows[i].owner}
  IN {Overlaid(n, rows, class) : n \in nodes}
       \cup {[id |-> "sub", owner |-> rows[i].owner, inScope |-> rows[i].inScope,
              class |-> IF rows[i].class = "none" THEN class ELSE rows[i].class] : i \in unseen}

(* The map that is loaded for a run, {} when the loading failed.                   *)
AccountMap(w, c) ==
  LET listed == OwnersOf(w)
      rows == _configured_accounts_for_primary(listed, c)
      owners == IF listed = <<>> /\ c.owner # Nobody THEN <<c.owner>> ELSE listed
  IN IF ~w.listed \/ _needs_primary_owner_selection(listed, c) THEN {}
     ELSE _merge_onboarding(Enumerated(owners, c.class), rows, c.class)

InScope(accounts) == {a \in accounts : a.inScope}

evaluate_topology_ok(accounts) ==
  \/ Cardinality(InScope(accounts)) = 1
  \/ InScope(accounts) # {} /\ \A a \in InScope(accounts) : a.class \in VALID_MULTI_CLASSES

-----------------------------------------------------------------------------
(* The context the gates are evaluated in. Live authentication is asked only when   *)
(* the request for the run says so.                                                 *)

GateInput(w, platform, link, live) ==
  LET i == CHOOSE x \in link.import : TRUE
      given == link.import # {}
      issues == IF given THEN ImportIssues(platform, i) ELSE {}
  IN [on |-> link.status \in {"connected", "degraded"},
      settled |-> link.status \in {"connected", "degraded"},
      live |-> IF live THEN link.live ELSE "none",
      report |-> given, issues |-> {x.code : x \in issues},
      auth |-> IF given THEN YesNo("AUTH_FAILED" \notin {x.code : x \in i.before}) ELSE "none",
      scopes |-> IF given THEN {i.scopes} ELSE {},
      scopesOk |-> IF given THEN YesNo(Failure("SCOPES_MISSING") \notin i.before) ELSE "none",
      summary |-> IF given THEN compute_summary_status(issues, i.raised = "none") ELSE "none",
      days |-> IF given THEN i.days ELSE Unmeasured,
      budget |-> _apply_rate_budget(platform, link),
      earliest |-> link.ages # {}, depth |-> compute_history_depth(link),
      meets |-> YesNo(compute_history_depth(link) # Unmeasured
                        /\ compute_history_depth(link) >= w.need)]

build_foundation_context_for_company(w, c, erp, live) ==
  LET t == Tracking(w)
      accounts == AccountMap(w, c)
  IN [manago |-> GateInput(w, "manago", w.manago, live),
      shopify |-> GateInput(w, "shopify", w.shopify, live),
      topology |-> YesNo(evaluate_topology_ok(accounts)), accounts |-> accounts # {},
      measurable |-> t.measurable, active |-> t.active, visits |-> t.visits, cookie |-> t.cookie,
      erp |-> erp, erpOn |-> FALSE, reachable |-> "none", schema |-> "none", utf8 |-> "none",
      rows |-> Unmeasured, pages |-> w.pages, need |-> w.need]

(* The gates of a run, given what the platforms answer and the configuration.      *)
GatesOf(w, c, erp, live) ==
  evaluate_foundation_gates(build_foundation_context_for_company(w, c, erp, live))
=================================================================================
