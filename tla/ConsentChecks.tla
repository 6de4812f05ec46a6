----------------------------- MODULE ConsentChecks ------------------------------
(* Channel consent: the join of Manago contacts with Shopify customers on the     *)
(* link key or the address, the checks CC-01, CC-02, CC-03 and CC-05, the consent *)
(* plans of CC-01 and CC-02, and the write-back of CC-03 (stamp the contact whose *)
(* opt-in Shopify can prove). A universe u is a record                            *)
(*   on, executeOn   connected platforms; writing allowed for the company         *)
(*   manago   contacts [id, email, link, state, proven, modified, invalid, stamp] *)
(*   shopify  customers [id, email, state, level, at]                             *)
(* state, level and at are functions of the channel: "in", "out" or "none"; an    *)
(* opt-in level is recorded; the day of the consent, or 0. invalid is "none" when *)
(* the platform does not report it.                                               *)
EXTENDS CheckRules, FiniteSetsExt

CONSTANTS ConsentCap   \* rows a consent sample keeps

ConsentIds == {"CC-01", "CC-02", "CC-03", "CC-05"}
Channels == {"email", "sms"}
LagWarnDays == 1

-----------------------------------------------------------------------------
Linked(u) ==
  {[contact |-> c, customer |-> Newest(CustomersOf(u, c))]
     : c \in {d \in u.manago : CustomersOf(u, d) # {}}}

_quadrant(r, ch) ==
  LET s == r.customer.state[ch]  m == r.contact.state[ch]
  IN IF s = "none" \/ m = "none" THEN "unknown" ELSE s \o "_" \o m

Mismatched(u, ch) == {r \in Linked(u) : _quadrant(r, ch) \in {"in_out", "out_in"}}
Exposed(u, ch) == {r \in Linked(u) : _quadrant(r, ch) = "out_in"}

OptedIn(u) == {c \in u.manago : c.state["email"] = "in"}
Unproven(u) == {c \in OptedIn(u) : ~c.proven}

(* Shopify can prove the opt-in: it has the time of the consent, or it says       *)
(* subscribed and at which level.                                                 *)
HoldsEvidence(r) ==
  \/ r.customer.at["email"] # 0
  \/ r.customer.state["email"] = "in" /\ r.customer.level["email"]

EvidencedByShopify(u) == {r \in Linked(u) : r.contact \in Unproven(u) /\ HoldsEvidence(r)}

(* Days between the two sides' records of an opt-out both agree on. The lags of   *)
(* the gaps are listed too, but a gap has already failed the check.               *)
AgreedLags(u) ==
  {[r |-> x[1], ch |-> x[2], days |-> Apart(x[1].customer.at[x[2]], x[1].contact.modified)]
     : x \in {y \in Linked(u) \X Channels :
                /\ _quadrant(y[1], y[2]) = "out_out"
                /\ y[1].customer.at[y[2]] # 0
                /\ y[1].contact.modified # 0}}
(* The median is above the limit: more than half of the lags are, or half of them *)
(* and the two in the middle average above it.                                    *)
MedianAbove(lags, limit) ==
  LET n == Cardinality(lags)
      ranked(i) == CHOOSE d \in {l.days : l \in lags} :
                     /\ Cardinality({l \in lags : l.days < d}) < i
                     /\ Cardinality({l \in lags : l.days <= d}) >= i
  IN n > 0 /\ ranked((n + 1) \div 2) + ranked(n \div 2 + 1) > 2 * limit

-----------------------------------------------------------------------------
(* The checks.                                                                    *)

_require_consent_inputs(u, needBoth) ==
  IF needBoth
  THEN FirstRule(<<
         <<u.on \cap {"shopify", "manago_ai"} = {}, "NOT_CONNECTED">>,
         <<~({"shopify", "manago_ai"} \subseteq u.on), "UNKNOWN">>,
         <<u.shopify = {} \/ u.manago = {}, "UNKNOWN">>,
         <<TRUE, "ready">> >>)
  ELSE FirstRule(<<
         <<"manago_ai" \notin u.on, "NOT_CONNECTED">>,
         <<u.manago = {}, "UNKNOWN">>,
         <<TRUE, "ready">> >>)

Parity(u, ch) ==
  LET input == _require_consent_inputs(u, TRUE)
  IN FirstRule(<<
       <<input # "ready", input>>,
       <<Linked(u) = {}, "UNKNOWN">>,
       <<Exposed(u, ch) # {}, "FAIL">>,
       <<Mismatched(u, ch) # {}, "FAIL">>,
       <<TRUE, "PASS">> >>)
evaluate_cc_01(u) == Parity(u, "email")
evaluate_cc_02(u) == Parity(u, "sms")

evaluate_cc_03(u) ==
  LET input == _require_consent_inputs(u, FALSE)
      all == Cardinality(OptedIn(u))
      proven == all - Cardinality(Unproven(u))
  IN FirstRule(<<
       <<input # "ready", input>>,
       <<all = 0, "PASS">>,
       <<100 * proven >= 95 * all, "PASS">>,
       <<100 * proven >= 80 * all, "WARN">>,
       <<TRUE, "FAIL">> >>)

evaluate_cc_05(u) ==
  LET input == _require_consent_inputs(u, TRUE)
  IN FirstRule(<<
       <<input # "ready", input>>,
       <<Linked(u) = {}, "UNKNOWN">>,
       <<\E ch \in Channels : Mismatched(u, ch) # {}, "FAIL">>,
       <<\E r \in Linked(u) : r.contact.invalid = "yes" /\ r.customer.state["email"] = "in",
         "FAIL">>,
       <<MedianAbove(AgreedLags(u), LagWarnDays), "WARN">>,
       <<\A c \in u.manago : c.invalid = "none", "WARN">>,
       <<TRUE, "PASS">> >>)

ConsentResults(u) ==
  [c \in ConsentIds |->
     CASE c = "CC-01" -> evaluate_cc_01(u)
       [] c = "CC-02" -> evaluate_cc_02(u)
       [] c = "CC-03" -> evaluate_cc_03(u)
       [] c = "CC-05" -> evaluate_cc_05(u)]

-----------------------------------------------------------------------------
(* The rows that a score finds; the worklist shows them with masked addresses.    *)

PlanRow(r, ch) ==
  [contact |-> r.contact.id, email |-> Plain(r.contact.email), channel |-> ch,
   side |-> _quadrant(r, ch), proven |-> r.contact.proven,
   levelAndTime |-> r.customer.level[ch] /\ r.customer.at[ch] # 0]
PlanRows(u, ch) == {PlanRow(r, ch) : r \in Mismatched(u, ch)}

StampRows(u) ==
  {[contact |-> r.contact.id, email |-> Plain(r.contact.email)]
     : r \in FirstFew(ConsentCap, EvidencedByShopify(u),
                      LAMBDA a, b : a.contact.id < b.contact.id)}

MaskRows(rows) == {[r EXCEPT !.email = Mask(@)] : r \in rows}
ConsentEvidence(u) ==
  [cc01 |-> IF Listed(evaluate_cc_01(u), FALSE) THEN MaskRows(PlanRows(u, "email")) ELSE {},
   cc02 |-> IF Listed(evaluate_cc_02(u), FALSE) THEN MaskRows(PlanRows(u, "sms")) ELSE {},
   cc03 |-> IF Listed(evaluate_cc_03(u), FALSE) THEN MaskRows(StampRows(u)) ELSE {}]

NoConsentEvidence == [cc01 |-> {}, cc02 |-> {}, cc03 |-> {}]

-----------------------------------------------------------------------------
(* The plans of CC-01 and CC-02: never written, judged with the stamp that the    *)
(* newest contact snapshot shows.                                                 *)

Stamped(latest, row) ==
  \E c \in find_manago_contact(latest, row.contact, row.email) : c.stamp

Proposal(latest, row) ==
  FirstRule(<<
    <<row.side = "out_in", "FORCE_OPT_OUT">>,
    <<row.proven \/ Stamped(latest, row) \/ row.levelAndTime, "FORCE_OPT_IN">>,
    <<TRUE, "SKIP_UNEVIDENCED">> >>)

(* The rows of the last score or, when it left none, those of the universe the    *)
(* last good score judged.                                                        *)
ConsentPlan(ch, evidence, pinned, latest) ==
  LET scored == IF ch = "email" THEN evidence.cc01 ELSE evidence.cc02
      usable(rows) == {r \in rows : r.channel = ch /\ r.email # NoEmail
                                      /\ r.side \in {"in_out", "out_in"}}
      rows == IF usable(scored) # {} THEN usable(scored) ELSE usable(PlanRows(pinned, ch))
  IN {[contact |-> r.contact, proposed |-> Proposal(latest, r)]
        : r \in FirstFew(ConsentCap, rows, LAMBDA a, b : a.contact < b.contact)}

-----------------------------------------------------------------------------
(* The write-back of CC-03. Its approval tier is individual, so that only the     *)
(* first row is taken. Without a row, and with writing allowed, the first contact *)
(* that has no stamp is taken as a proof of the write path.                       *)

_cc03_sandbox_evidence_rows(latest) ==
  LET row(c) == [contact |-> c.id, email |-> c.email]
      unstamped == {c \in latest.manago : c.email # NoEmail /\ ~Stamped(latest, row(c))}
  IN IF unstamped = {} THEN {} ELSE {row(Earliest(unstamped))}

_cc03_evidence_rows(evidence, latest, executeOn) ==
  IF evidence.cc03 # {} THEN evidence.cc03
  ELSE IF executeOn THEN _cc03_sandbox_evidence_rows(latest) ELSE {}

CC03Intents(evidence, latest, executeOn) ==
  LET rows == _cc03_evidence_rows(evidence, latest, executeOn)
      first == FirstFew(1, rows, LAMBDA a, b : a.contact < b.contact)
  IN {[contact |-> r.contact, email |-> r.email]
        : r \in {x \in first : x.email # NoEmail /\ ~Stamped(latest, x)}}

StampAll(u, intents) ==
  [u EXCEPT !.manago =
     {IF \E i \in intents : i.contact = c.id THEN [c EXCEPT !.stamp = TRUE] ELSE c : c \in @}]
=================================================================================
