----------------------------- MODULE IdentityChecks -----------------------------
(* Customer identity: the join of Manago contacts with Shopify customers, the     *)
(* checks CI-01, CI-02, CI-03 and CI-05 on it, the merge plan, and the write-backs *)
(* of CI-01 (create the missing contact) and CI-05 (set the missing link key).    *)
(* A universe u is a record                                                       *)
(*   on      the connected platforms                                              *)
(*   manago  contacts [id, email, phone, link, events, buys, known]               *)
(*   shopify customers [id, email, guest]                                         *)
(*   others  how many more people both platforms hold, linked and clean           *)
(*   orders  [all, guest, guestMail], the counts CI-02 reads                      *)
(* in which an id also gives the place in the platform's list, and 0 stands for a *)
(* missing link key or phone.                                                     *)
EXTENDS CheckRules, FiniteSetsExt, SequencesExt

CONSTANTS
  SampleCap,     \* rows a check keeps as evidence
  BackfillCap    \* rows one CI-01 preview takes

IdentityIds == {"CI-01", "CI-02", "CI-03", "CI-05"}

-----------------------------------------------------------------------------
(* The join.                                                                      *)

Addresses(rows) == {Plain(c.email) : c \in rows} \ {NoEmail}
WithAddress(rows, e) == {c \in rows : Plain(c.email) = e}
Links(u) == {c.link : c \in u.manago} \ {0}
HoldersOf(u, link) == {c \in u.manago : c.link = link}
CustomerIds(u) == {s.id : s \in u.shopify}
RealCustomers(u, e) == {s \in WithAddress(u.shopify, e) : ~s.guest}

ReusedLinks(u) == {k \in Links(u) : Cardinality(HoldersOf(u, k)) > 1}
DanglingLinks(u) == Links(u) \ CustomerIds(u)
MatchedLinks(u) == Links(u) \cap CustomerIds(u)

ManagoCount(u) == Cardinality(u.manago) + u.others
ShopifyCount(u) == Cardinality(u.shopify) + u.others

(* One row per person. The key is the link, else the address, else the row; the   *)
(* list is sorted by class and then by address or place, and a key that is        *)
(* already listed drops the row.                                                  *)
LinkKey(n) == <<"link", n>>
Person(class, at, key, side, email, manago, shopify) ==
  [class |-> class, at |-> at, key |-> key, side |-> side, email |-> email,
   manago |-> manago, shopify |-> shopify]

PersonRows(u) ==
  LET onManago == Addresses(u.manago)
      onShopify == Addresses(u.shopify)
      contact(e) == Earliest(WithAddress(u.manago, e))
      customer(e) == Earliest(WithAddress(u.shopify, e))
  IN {Person(1, e, LinkKey(IF contact(e).link # 0 THEN contact(e).link ELSE customer(e).id),
             "both", e, contact(e).id, customer(e).id) : e \in onManago \cap onShopify}
     \cup {Person(2, e, IF contact(e).link # 0 THEN LinkKey(contact(e).link) ELSE <<"email", e>>,
                  "manago_only", e, contact(e).id, 0) : e \in onManago \ onShopify}
     \cup {Person(3, e, LinkKey(customer(e).id), "shopify_only", e, 0, customer(e).id)
             : e \in onShopify \ onManago}
     \cup {Person(4, s.id, LinkKey(s.id), "shopify_only", NoEmail, 0, s.id)
             : s \in WithAddress(u.shopify, NoEmail)}
     \cup {Person(5, c.id, IF c.link # 0 THEN LinkKey(c.link) ELSE <<"manago", c.id>>,
                  "manago_only", NoEmail, c.id, 0) : c \in WithAddress(u.manago, NoEmail)}

PersonBefore(p, q) == p.class < q.class \/ (p.class = q.class /\ p.at < q.at)

People(u) ==
  {p \in PersonRows(u) :
     \A q \in PersonRows(u) : q.key = p.key => ~PersonBefore(q, p)}

(* CI-05 may link the only contact of an address to its only real customer, when   *)
(* the contact has no link yet and no contact uses that customer's id.            *)
Linkable_inUse(u, e) ==
  /\ \E c \in u.manago : WithAddress(u.manago, e) = {c} /\ c.link = 0
  /\ \E s \in u.shopify : RealCustomers(u, e) = {s}
Linkable(u, e) ==
  /\ \E c \in u.manago : WithAddress(u.manago, e) = {c} /\ c.link = 0
  /\ \E s \in u.shopify : RealCustomers(u, e) = {s} /\ s.id \notin Links(u)

MissingLinks(u) ==
  {[manago |-> Earliest(WithAddress(u.manago, e)).id, email |-> e,
    shopify |-> Earliest(RealCustomers(u, e)).id]
     : e \in {a \in Addresses(u.manago) : Linkable(u, a)}}

-----------------------------------------------------------------------------
(* Duplicates and the merge plan.                                                 *)

Clusters(u) ==
  LET grouped(kind, values, members(_)) ==
        {[kind |-> kind, value |-> v, members |-> members(v)]
           : v \in {w \in values : Cardinality(members(w)) > 1}}
  IN grouped("externalId", Links(u), LAMBDA v : HoldersOf(u, v))
     \cup grouped("email", Addresses(u.manago), LAMBDA v : WithAddress(u.manago, v))
     \cup grouped("phone", {c.phone : c \in u.manago} \ {0},
                  LAMBDA v : {c \in u.manago : c.phone = v})

ExtraContacts(u) == MapThenSumSet(LAMBDA k : Cardinality(k.members) - 1, Clusters(u))

KindRank(kind) == IF kind = "externalId" THEN 1 ELSE IF kind = "email" THEN 2 ELSE 3
ClusterBefore(a, b) ==
  KindRank(a.kind) < KindRank(b.kind) \/ (a.kind = b.kind /\ a.value < b.value)

(* An email or a phone cluster that shares a contact with a planned one is left   *)
(* out; the externalId clusters come first and are all planned, then the email    *)
(* clusters, and two clusters of one kind share nobody.                           *)
Planned(u) ==
  LET of(kind) == {k \in Clusters(u) : k.kind = kind}
      apart(clusters, plan) ==
        {k \in clusters : \A p \in plan : p.members \cap k.members = {}}
      byLink == of("externalId")
      byEmail == apart(of("email"), byLink)
  IN byLink \cup byEmail \cup apart(of("phone"), byLink \cup byEmail)

(* The contact with more purchases, then more events, then the one whose link is  *)
(* the Shopify customer of its address, then the newer one.                       *)
Rank(u, c) ==
  <<c.buys, c.events,
    IF \E s \in WithAddress(u.shopify, Plain(c.email)) :
         s.id = c.link /\ Plain(c.email) # NoEmail THEN 1 ELSE 0,
    c.id>>
Outranks(r, q) ==
  \E i \in 1..4 : r[i] > q[i] /\ \A j \in 1..(i - 1) : r[j] = q[j]
Survivor(u, members) ==
  CHOOSE c \in members : \A d \in members \ {c} : Outranks(Rank(u, c), Rank(u, d))

SafetyClass(u, k) ==
  LET survivor == Survivor(u, k.members)
      loser == CHOOSE c \in k.members : c # survivor
  IN FirstRule(<<
       <<k.kind = "phone", "QUARANTINE">>,
       <<Cardinality(k.members) >= 3, "QUARANTINE">>,
       <<\E c \in k.members : ~c.known, "UNSAFE">>,
       <<survivor.link # 0 /\ loser.link # 0 /\ survivor.link # loser.link, "QUARANTINE">>,
       <<loser.events > 0 \/ loser.buys > 0, "MIGRATE_THEN_DELETE">>,
       <<TRUE, "SAFE_DELETE">> >>)

MergePlan(u) ==
  {[cluster |-> <<k.kind, k.value>>, survivor |-> Survivor(u, k.members).id,
    losers |-> {c.id : c \in k.members} \ {Survivor(u, k.members).id},
    class |-> SafetyClass(u, k)]
     : k \in FirstFew(SampleCap, Planned(u), ClusterBefore)}

-----------------------------------------------------------------------------
(* The checks.                                                                    *)

BothOn(u) == {"shopify", "manago_ai"} \subseteq u.on
NoneOn(u) == {"shopify", "manago_ai"} \cap u.on = {}

evaluate_ci_01(u) ==
  LET m == ManagoCount(u)  s == ShopifyCount(u)
      apart == Apart(m, s)
      larger == Above(Above(m, s), 1)
  IN FirstRule(<<
       <<NoneOn(u), "NOT_CONNECTED">>,
       <<~BothOn(u), "UNKNOWN">>,
       <<m = 0 /\ s = 0, "UNKNOWN">>,
       <<Percent(apart, larger, 10), "PASS">>,
       <<Percent(apart, larger, 25), "WARN">>,
       <<TRUE, "FAIL">> >>)

evaluate_ci_02(u) ==
  LET bare == u.orders.guest - u.orders.guestMail
  IN FirstRule(<<
       <<"shopify" \notin u.on, "NOT_CONNECTED">>,
       <<u.orders.all = 0, "UNKNOWN">>,
       <<~Percent(bare, u.orders.all, 5), "FAIL">>,
       <<~Percent(u.orders.guest, u.orders.all, 40), "WARN">>,
       <<TRUE, "PASS">> >>)

evaluate_ci_03(u) ==
  LET n == ManagoCount(u)
      clusters == Cardinality(Clusters(u))
      extra == ExtraContacts(u)
  IN FirstRule(<<
       <<"manago_ai" \notin u.on, "NOT_CONNECTED">>,
       <<n = 0, "UNKNOWN">>,
       <<~Percent(extra, n, 2) \/ clusters > 10, "FAIL">>,
       <<~Percent(extra, n, 1) \/ clusters > 0, "WARN">>,
       <<TRUE, "PASS">> >>)

WithLink(u) == Cardinality({c \in u.manago : c.link # 0}) + u.others

evaluate_ci_05(u) ==
  LET n == WithLink(u)
      matched == Cardinality(MatchedLinks(u)) + u.others
  IN FirstRule(<<
       <<NoneOn(u), "NOT_CONNECTED">>,
       <<~BothOn(u), "UNKNOWN">>,
       <<ManagoCount(u) = 0 \/ n = 0, "UNKNOWN">>,
       <<ReusedLinks(u) # {} \/ DanglingLinks(u) # {}, "FAIL">>,
       <<100 * matched >= 80 * n, "PASS">>,
       <<100 * matched >= 50 * n, "WARN">>,
       <<TRUE, "FAIL">> >>)

IdentityResults(u) ==
  [c \in IdentityIds |->
     CASE c = "CI-01" -> evaluate_ci_01(u)
       [] c = "CI-02" -> evaluate_ci_02(u)
       [] c = "CI-03" -> evaluate_ci_03(u)
       [] c = "CI-05" -> evaluate_ci_05(u)]

(* No link key is known on any contact: the UNKNOWN of CI-05 that is still listed *)
ColdEstate(u) == BothOn(u) /\ ManagoCount(u) > 0 /\ WithLink(u) = 0

-----------------------------------------------------------------------------
(* Evidence: what a score keeps of the universe it judged, addresses masked.      *)

_ci01_contact_mismatches(u) ==
  {[p EXCEPT !.email = Mask(p.email)]
     : p \in FirstFew(SampleCap, {p \in People(u) : p.side # "both"}, PersonBefore)}

_ci05_mismatches(u) ==
  FirstFew(SampleCap, MissingLinks(u), LAMBDA r, q : r.email < q.email)

IdentityEvidence(u) ==
  [ci01 |-> IF Listed(evaluate_ci_01(u), FALSE) THEN _ci01_contact_mismatches(u) ELSE {},
   ci05 |-> IF Listed(evaluate_ci_05(u), ColdEstate(u)) THEN _ci05_mismatches(u) ELSE {}]

NoIdentityEvidence == [ci01 |-> {}, ci05 |-> {}]

-----------------------------------------------------------------------------
(* Write-backs. An intent is an upsert [at, contact, email, link] in which         *)
(* contact 0 addresses the contact by its email.                                  *)

(* CI-01: the cap is applied before the rows that lack a customer are dropped,    *)
(* and a row without an address fails the guard (what is left is of class 3).     *)
CI01Intents(evidence) ==
  LET taken == FirstFew(BackfillCap, evidence.ci01, PersonBefore)
  IN {[at |-> p.at, contact |-> 0, email |-> p.email, link |-> p.shopify]
        : p \in {q \in taken : q.side = "shopify_only" /\ q.email # NoEmail}}

(* CI-05: the rows are judged again on the universe of the last good score, with  *)
(* the address that the contact has there.                                        *)
_ci05_filter_missing_rows(u, rows) ==
  {[at |-> Plain(c.email), contact |-> c.id, email |-> c.email,
    link |-> Earliest(RealCustomers(u, Plain(c.email))).id]
     : c \in {d \in u.manago :
                /\ d.id \in {r.manago : r \in rows}
                /\ d.email # NoEmail
                /\ Linkable(u, Plain(d.email))}}

(* When no row is left, the rows are built again from that universe.              *)
_ci05_evidence_rows(u, evidence) ==
  LET kept == _ci05_filter_missing_rows(u, evidence.ci05)
  IN IF kept # {} THEN kept
     ELSE _ci05_filter_missing_rows(u, _ci05_mismatches(u))

(* No two of these claims are for one key or one contact, and no key is in use.   *)
Distinct(u, claims) ==
  /\ \A i \in claims, j \in claims : i.link = j.link \/ i.contact = j.contact => i = j
  /\ \A i \in claims : i.link \notin Links(u)

IdentityIntents(check, evidence, pinned) ==
  CASE check = "CI-01" -> CI01Intents(evidence)
    [] check = "CI-05" -> _ci05_evidence_rows(pinned, evidence)
    [] OTHER -> {}

(* The platform's upserts, one after the other: the contact named by its id, else  *)
(* the first that has the address, takes the link key, and keeps that of the last *)
(* intent; for an address that nobody has the first intent creates a contact, with *)
(* an id after all the others.                                                    *)
Takes(contacts, i, c) ==
  IF i.contact # 0 THEN c.id = i.contact
  ELSE c.email = i.email /\ \A d \in contacts : d.email = i.email => c.id <= d.id
Unheld(contacts, intents) ==
  {i \in intents : i.contact = 0 /\ \A c \in contacts : c.email # i.email}
LastLink(intents) == (CHOOSE i \in intents : \A j \in intents : j.at <= i.at).link

Upsert(contacts, intents, c) ==
  LET given == {i \in intents : Takes(contacts, i, c)}
  IN IF given = {} THEN c ELSE [c EXCEPT !.link = LastLink(given)]
Create(contacts, intents) ==
  LET new == Unheld(contacts, intents)
      alike(i) == {j \in new : j.email = i.email}
  IN {NewContact(Max({0} \cup {c.id : c \in contacts}) + i.at, i.email, LastLink(alike(i)))
        : i \in {j \in new : \A k \in alike(j) : j.at <= k.at}}
UpsertAll(u, intents) ==
  [u EXCEPT !.manago = {Upsert(@, intents, c) : c \in @} \cup Create(@, intents)]
=================================================================================
