------------------------------- MODULE DriftChecks -------------------------------
(* The DRIFT checks: what a score measures of ages, shares and distributions over   *)
(* one import, and of the difference to the drift block of an earlier run. Of the   *)
(* rows u of an import,                                                            *)
(*   on, erp     the connected platforms; the ERP is in scope                      *)
(*   contacts    [id, state, out, at, made, link, email, seen, policies, tags,     *)
(*                funnels, fields, invalid, monitored, events]                     *)
(*   told, blob  Manago transactions, and the events of the window [id, kind, who, *)
(*                email, key, at, value, test]                                     *)
(*   orders      [id, email, at, state, test, cancelled, price, buyer]             *)
(*   customers   [id, at, made];  checkouts [id, token, email, at, done]           *)
(*   catalogue   tag -> contacts of the whole workspace, <<>> without one          *)
(*   recent, flowKeys, stats, common, levels, variants, goods, heartbeat           *)
(* A moment is how many hours ago it was, Undated without one; a day begins every  *)
(* 24 hours. Shares are in ten-thousandths and amounts in cents.                   *)
EXTENDS CheckRules, FiniteSetsExt, SequencesExt, Functions

CONSTANTS
  DriftSample,     \* segments a block keeps the population of
  MinOrders,       \* orders a baseline needs
  MinValues,       \* order values a baseline needs, and the truncation test
  DropRiskLimit    \* late events that fail LE-11

(* Rows are finitely many, populations are counts, and ages of syncs whole hours.   *)
IsRows(u) ==
  LET connectors == ToSet(u.heartbeat.connectors)
  IN /\ {"contacts", "told", "blob", "orders", "checkouts", "catalogue", "heartbeat"} \subseteq DOMAIN u
     /\ \A S \in {u.contacts, u.told, u.blob, u.orders, u.checkouts} : IsFiniteSet(S)
     /\ \A c \in u.contacts : IsFiniteSet(c.events)
     /\ \A t \in DOMAIN u.catalogue : u.catalogue[t] \in Nat
     /\ DOMAIN u.heartbeat.connectors \subseteq Nat /\ IsFiniteSet(DOMAIN u.heartbeat.connectors)
     /\ \A src \in {u.heartbeat.raw} \cup connectors :
          src.last \in Int /\ \A n \in DOMAIN src.domains : src.domains[n] \in Int
     /\ \A src \in connectors : src.changed \in Int

Undated == -1
DayLength == 24
_STALE_MONTHS == 24
_STALE_CART_DAYS == 14
_CI15_PAIR_LAG_DAYS == 30
_SP08_SHIFT_FAIL == 5000
_LE11_RACE_HOURS == 1
_SP12_SLA_DAYS == 90
_SP12_ARCHAEOLOGY_DAYS == 14 * 30
_BR02_SLA_HOURS == 24
_ME08_MIN_HISTORY_DAYS == 30
BR12_STALE_HOURS == 48

_CART_TYPES == {"CART"}
_VISIT_TYPES == {"VISIT"}

Day(at) == at \div DayLength
DatedRows(S) == {x \in S : x.at # Undated}
OlderThan(S, days) == {x \in DatedRows(S) : x.at > days * DayLength}
Part(S, whole) == Rounded(10000 * Cardinality(S), Above(Cardinality(whole), 1))
Bands(share, fail, warn) ==
  FirstRule(<< <<share >= fail, "FAIL">>, <<share >= warn, "WARN">>, <<TRUE, "PASS">> >>)

(* Paid, or without a financial state, and not a test.                             *)
Counted(u) == {o \in u.orders : ~o.test /\ o.state \in {"paid", "none"}}
Purchases_(u) == {e \in u.told : e.kind = "PURCHASE"}
Values(S) == {x \in S : x.value > 0}

(* Twice the median of the values of S.                                            *)
MedianTwice(S) ==
  LET q == SetToSortSeq(S, LAMBDA a, b : a.value < b.value \/ (a.value = b.value /\ a.id < b.id))
  IN IF S = {} THEN 0 ELSE q[(Len(q) + 1) \div 2].value + q[Len(q) \div 2 + 1].value

-----------------------------------------------------------------------------
(* Contacts: their states, how old they are and their consent.                     *)

_bucket_contact_state(c) ==
  FirstRule(<<
    <<c.invalid = "yes" \/ c.state = "blocked", "blocked">>,
    <<c.state = "resigned", "resigned">>,
    <<c.out = "yes" \/ c.state = "opted_out", "opt_out">>,
    <<c.out = "no" \/ c.state = "active", "opt_in">>,
    <<c.state = "none", "unknown">>,
    <<TRUE, "other">> >>)

Dead(u) == {c \in u.contacts : _bucket_contact_state(c) \in {"blocked", "resigned"}}

(* At least three dead contacts, half of them or more changed on one day.          *)
DeadCluster(u) ==
  LET spike == Max({0} \cup {Cardinality({c \in DatedRows(Dead(u)) : Day(c.at) = Day(d.at)}) :
                               d \in DatedRows(Dead(u))})
  IN Cardinality(Dead(u)) >= 3 /\ 2 * spike >= Cardinality(Dead(u))

(* A contact's consent is as old as its newest consent, else as the contact.       *)
ConsentAt(c) == IF c.seen = {} THEN c.at ELSE Min(c.seen)
Consents(u) == {[id |-> c.id, at |-> ConsentAt(c)] : c \in {x \in u.contacts : x.out = "no"}}

Pairs(u) ==
  {p \in DatedRows(u.contacts) \X DatedRows(u.customers) : p[1].link = p[2].id}

evaluate_ci_13(u) ==
  LET dead == Part(Dead(u), u.contacts)
  IN FirstRule(<<
       <<"manago_ai" \notin u.on, "NOT_CONNECTED">>,
       <<u.contacts = {}, "UNKNOWN">>,
       <<dead >= 4000 \/ (DeadCluster(u) /\ dead >= 2500), "FAIL">>,
       <<dead >= 2500 \/ DeadCluster(u), "WARN">>,
       <<TRUE, "PASS">> >>)

(* The days between a contact and its customer, rounded up when the contact is the   *)
(* older one.                                                                      *)
Lag(c, s) == IF c.at <= s.at THEN Day(s.at - c.at) ELSE Day(c.at - s.at + DayLength - 1)

evaluate_ci_15(u) ==
  LET old == Part(OlderThan(u.contacts, _STALE_MONTHS * 30), DatedRows(u.contacts))
      apart == Part({p \in Pairs(u) : Lag(p[1], p[2]) > _CI15_PAIR_LAG_DAYS}, Pairs(u))
  IN FirstRule(<<
       <<"manago_ai" \notin u.on, "NOT_CONNECTED">>,
       <<DatedRows(u.contacts) = {}, "UNKNOWN">>,
       <<TRUE, Bands(Above(old, apart), 5000, 3000)>> >>)

evaluate_cc_12(u) ==
  LET dated == DatedRows(Consents(u))
      old == {c \in dated : Day(c.at) > _STALE_MONTHS * 30}
      policies == UNION {c.policies : c \in {x \in u.contacts : x.out = "no"}}
      share == Part(old, dated)
  IN FirstRule(<<
       <<"manago_ai" \notin u.on, "NOT_CONNECTED">>,
       <<dated = {}, "UNKNOWN">>,
       <<share >= 4000, "FAIL">>,
       <<share >= 2500 \/ Cardinality(policies) >= 2, "WARN">>,
       <<TRUE, "PASS">> >>)

(* The platform's bounce rate, else the share of invalid addresses; dead contacts   *)
(* make it worse.                                                                  *)
evaluate_me_09(u) ==
  LET stated == u.stats.sent > 0
      rate == IF u.stats.bounce # Undated THEN u.stats.bounce
              ELSE Part({c \in u.contacts : c.invalid = "yes"}, u.contacts)
      dead == Part(Dead(u), u.contacts)
  IN FirstRule(<<
       <<"manago_ai" \notin u.on, "NOT_CONNECTED">>,
       <<~stated /\ \A c \in u.contacts : c.invalid = "unsaid", "UNKNOWN">>,
       <<rate >= 1000 \/ (rate >= 500 /\ dead >= 2500), "FAIL">>,
       <<rate >= 500 \/ dead >= 2500, "WARN">>,
       <<TRUE, "PASS">> >>)

-----------------------------------------------------------------------------
(* Carts and the volume of events.                                                 *)

Nested(u, kinds) ==
  UNION {{[e EXCEPT !.who = c.id, !.email = c.email] :
            e \in {x \in c.events : x.kind \in kinds}} : c \in u.contacts}
EmailOf(u, e) ==
  IF e.email # NoEmail THEN e.email
  ELSE LET of == {c \in u.contacts : c.id = e.who}
       IN IF of = {} THEN NoEmail ELSE Newest(of).email

(* The events of the window, and those nested in the contacts when it has no carts. *)
Carts(u) ==
  LET inBlob == {[e EXCEPT !.email = EmailOf(u, e)] : e \in {x \in u.blob : x.kind \in _CART_TYPES}}
  IN IF inBlob # {} THEN inBlob ELSE Nested(u, _CART_TYPES)

Done(u) == {k \in u.checkouts : k.done # Undated}
BoughtKeys(u) ==
  {e.key : e \in Purchases_(u)} \cup {o.id : o \in Counted(u)}
    \cup {k.id : k \in Done(u)} \cup {k.token : k \in Done(u)}
BoughtDays(u) ==
  {<<o.email, Day(o.at)>> : o \in DatedRows(Counted(u))} \cup {<<k.email, Day(k.done)>> : k \in Done(u)}
Converted(u, cart) ==
  \/ cart.key # 0 /\ cart.key \in BoughtKeys(u)
  \/ cart.email # NoEmail /\ cart.at # Undated /\ <<cart.email, Day(cart.at)>> \in BoughtDays(u)

evaluate_le_08(u) ==
  LET open == {c \in Carts(u) : ~Converted(u, c)}
  IN FirstRule(<<
       <<"manago_ai" \notin u.on, "NOT_CONNECTED">>,
       <<Carts(u) = {}, "UNKNOWN">>,
       <<TRUE, Bands(Part(OlderThan(open, _STALE_CART_DAYS), Carts(u)), 2000, 500)>> >>)

Recent(S) == {x \in DatedRows(S) : Day(x.at) <= 7}
Before(S) == {x \in DatedRows(S) : Day(x.at) \in 8..28}
Told(u) == Purchases_(u) \cup Carts(u)
Sold(u) == {o \in Counted(u) : ~o.cancelled} \cup {k \in u.checkouts : k.done = Undated}
_rate_delta(a, b) == IF a = b THEN 0 ELSE Rounded(10000 * Apart(a, b), Above(a, b))

SelfDelta(u) == _rate_delta(3 * Cardinality(Recent(Told(u))), Cardinality(Before(Told(u))))
CrossDelta(u) == _rate_delta(Cardinality(Recent(Told(u))), Cardinality(Recent(Sold(u))))

(* The week against the three before it, else against the shop; and how far that    *)
(* is from the last run's.                                                         *)
evaluate_le_13(u, d) ==
  LET own == IF Before(Told(u)) # {} THEN SelfDelta(u) ELSE d.cross
      primary == Max({own} \cup d.crossMoved)
  IN FirstRule(<<
       <<{"shopify", "manago_ai"} \cap u.on = {}, "NOT_CONNECTED">>,
       <<~({"shopify", "manago_ai"} \subseteq u.on), "UNKNOWN">>,
       <<Recent(Told(u)) \cup Recent(Sold(u)) \cup Before(Told(u)) = {}, "UNKNOWN">>,
       <<TRUE, Bands(primary, 3000, 300)>> >>)

(* An event that is older than its contact arrived before it.                      *)
Arrivals(u) ==
  LET made(e) == LET byId == {c \in u.contacts : c.id = e.who /\ c.made # Undated}
                     byMail == {c \in u.contacts : e.email # NoEmail /\ c.email = e.email
                                                   /\ c.made # Undated}
                 IN IF byId # {} THEN {Newest(byId).made}
                    ELSE IF byMail # {} THEN {Newest(byMail).made} ELSE {}
  IN {e \in DatedRows(u.told) : e.kind \in {"PURCHASE"} \cup _CART_TYPES
                            /\ \E m \in made(e) : e.at - m > _LE11_RACE_HOURS}

(* Orders of customers that are as new as the order, with and without a purchase.  *)
NewBuyers(u) ==
  {o \in DatedRows(Counted(u)) :
     \E s \in u.customers : /\ s.id = o.buyer /\ s.made # Undated
                            /\ Apart(s.made, o.at) <= _LE11_RACE_HOURS}
Lost(u) ==
  {o \in NewBuyers(u) :
     /\ o.id \notin {e.key : e \in Purchases_(u)}
     /\ o.email = NoEmail \/ <<o.email, Day(o.at)>> \notin
                               {<<e.email, Day(e.at)>> : e \in DatedRows(Purchases_(u))}}

evaluate_le_11(u) ==
  LET lost == Part(Lost(u), NewBuyers(u))
      risky == Cardinality(Arrivals(u))
      lifecycle == {e \in u.told : e.kind \in {"PURCHASE"} \cup _CART_TYPES}
  IN FirstRule(<<
       <<"manago_ai" \notin u.on, "NOT_CONNECTED">>,
       <<lifecycle = {} /\ Lost(u) = {} /\ "shopify" \notin u.on, "UNKNOWN">>,
       <<lost >= 2000 \/ risky >= DropRiskLimit, "FAIL">>,
       <<lost >= 500 \/ risky > 0, "WARN">>,
       <<TRUE, "PASS">> >>)

-----------------------------------------------------------------------------
(* Order values and baselines.                                                     *)

ShopValues(u) ==
  Values({[id |-> o.id, value |-> o.price] : o \in {x \in DatedRows(Counted(u)) : ~x.cancelled}})
ManagoValues(u) == Values({[id |-> e.id, value |-> e.value] : e \in {x \in Purchases_(u) : ~x.test}})
Odd(S) == {x \in S : x.value % 100 # 0}

evaluate_pt_14(u) ==
  LET ours == ManagoValues(u)
      theirs == ShopValues(u)
      unit == theirs # {} /\ \/ MedianTwice(ours) >= 50 * MedianTwice(theirs)
                             \/ 50 * MedianTwice(ours) <= MedianTwice(theirs)
      cut == /\ Cardinality(ours) >= MinValues /\ Cardinality(theirs) >= MinValues
             /\ Percent(Cardinality(Odd(ours)), Cardinality(ours), 5)
             /\ Percent(Cardinality(theirs \ Odd(theirs)), Cardinality(theirs), 80) /\ ~unit
  IN FirstRule(<<
       <<"manago_ai" \notin u.on, "NOT_CONNECTED">>,
       <<ours = {}, "UNKNOWN">>,
       <<unit \/ cut \/ Part({x \in ours : x.value >= 1000000}, ours) >= 1000, "FAIL">>,
       <<TRUE, "PASS">> >>)

Kept(u) == {o \in Counted(u) : ~o.cancelled}
Buyer(e) == IF e.email # NoEmail \/ e.who = 0 THEN e.email ELSE 100 + e.who
Bought(u) ==
  {[id |-> <<"order", o.id>>, by |-> o.email] : o \in Kept(u)}
    \cup {[id |-> <<"told", e.id>>, by |-> Buyer(e)] : e \in Purchases_(u)}

evaluate_me_08(u) ==
  LET moments == {x.at : x \in DatedRows(Kept(u)) \cup DatedRows(Purchases_(u))}
      deep == moments # {} /\ Day(Max(moments) - Min(moments)) >= _ME08_MIN_HISTORY_DAYS
      volume == Cardinality(Kept(u)) + Cardinality(Purchases_(u)) >= MinOrders
      values == Cardinality(ShopValues(u)) + Cardinality(ManagoValues(u)) >= MinValues
      repeat == \E a, b \in Bought(u) : a # b /\ a.by = b.by /\ a.by # NoEmail
      common == u.common # Undated /\ u.common >= _ME08_MIN_HISTORY_DAYS
  IN FirstRule(<<
       <<{"shopify", "manago_ai"} \cap u.on = {}, "NOT_CONNECTED">>,
       <<Kept(u) = {} /\ Purchases_(u) = {}, "UNKNOWN">>,
       <<~((deep \/ common) /\ volume /\ values), "FAIL">>,
       <<~repeat, "WARN">>,
       <<TRUE, "PASS">> >>)

-----------------------------------------------------------------------------
(* Segments, fields and visits.                                                    *)

_iter_segment_keys(c) == {<<"tag", t>> : t \in c.tags} \cup {<<"funnel", f>> : f \in c.funnels}

(* How many have each segment: the tags of the catalogue when there is one, funnels *)
(* always of the contacts.                                                         *)
Populations(u) ==
  LET counted == {k \in UNION {_iter_segment_keys(c) : c \in u.contacts} :
                    k[1] = "funnel" \/ u.catalogue = <<>>}
      listed == {<<"tag", t>> : t \in DOMAIN u.catalogue}
  IN [k \in counted \cup listed |->
        IF k \in listed THEN u.catalogue[k[2]]
        ELSE Cardinality({c \in u.contacts : k \in _iter_segment_keys(c)})]

(* The largest segments, of which the next run is told.                            *)
Sampled(pops) ==
  LET larger(a, b) == pops[a] > pops[b] \/ (pops[a] = pops[b] /\ a[2] < b[2])
                        \/ (pops[a] = pops[b] /\ a[2] = b[2] /\ a[1] = "tag" /\ b[1] # "tag")
  IN Restrict(pops, {k \in FirstFew(DriftSample, DOMAIN pops, larger) : pops[k] > 0})

(* Populations of a catalogue and of the imported contacts do not compare.         *)
Comparable(u, prior) == prior.pops = <<>> \/ prior.fromApi = (u.catalogue # <<>>)

(* Mutant: populations of any source compare.                                      *)
MutantShifted(u, prior) ==
  LET pops == Populations(u)
  IN {k \in DOMAIN pops \cap DOMAIN prior.pops :
        10000 * Apart(pops[k], prior.pops[k]) > _SP08_SHIFT_FAIL * prior.pops[k]}
Shifted(u, prior) ==
  LET pops == Populations(u)
  IN {k \in DOMAIN pops \cap DOMAIN prior.pops :
        /\ Comparable(u, prior)
        /\ 10000 * Apart(pops[k], prior.pops[k]) > _SP08_SHIFT_FAIL * prior.pops[k]}
Emptied(u, prior) ==
  LET pops == Populations(u)
  IN {k \in DOMAIN prior.pops : /\ k \in DOMAIN pops => pops[k] = 0
                                /\ Comparable(u, prior) \/ k[1] = "funnel"}
Everyone(u) ==
  {k \in DOMAIN Populations(u) :
     /\ u.contacts # {} /\ Populations(u)[k] >= Cardinality(u.contacts)
     /\ u.catalogue = <<>> \/ k[1] = "funnel"}

evaluate_sp_08(u, d) ==
  FirstRule(<<
    <<"manago_ai" \notin u.on, "NOT_CONNECTED">>,
    <<DOMAIN Populations(u) = {} /\ d.emptied = {}, "UNKNOWN">>,
    <<Everyone(u) # {} \/ d.emptied # {} \/ d.shifted # {}, "FAIL">>,
    <<TRUE, "PASS">> >>)

(* A field was written when one of its contacts was last changed, or at the date it *)
(* holds itself. Keys of workflow conditions have no age.                          *)
Written(u) ==
  UNION {{[key |-> <<"segment", k>>, at |-> c.at] : k \in _iter_segment_keys(c)}
           \cup {[key |-> <<"field", f.name>>, at |-> IF f.at # Undated THEN f.at ELSE c.at] :
                    f \in c.fields} : c \in u.contacts}
LastWritten(u) ==
  LET dated == DatedRows(Written(u))
  IN {w \in dated : \A v \in dated : v.key = w.key => w.at <= v.at}

evaluate_sp_12(u) ==
  LET fields == LastWritten(u)
      stale == Part(OlderThan(fields, _SP12_SLA_DAYS), fields)
      dug == OlderThan(fields, _SP12_ARCHAEOLOGY_DAYS) # {}
  IN FirstRule(<<
       <<"manago_ai" \notin u.on, "NOT_CONNECTED">>,
       <<fields = {} /\ u.flowKeys = {}, "UNKNOWN">>,
       <<stale >= 5000 \/ (dug /\ stale >= 2500), "FAIL">>,
       <<stale >= 2500 \/ dug, "WARN">>,
       <<TRUE, "PASS">> >>)

_is_identified_visit(e) == e.who # 0 \/ e.email # NoEmail

(* Visits of the window, else those nested in the contacts, and of the activity     *)
(* lists, of which every list but the anonymous names its visitor.                 *)
Visits(u) ==
  LET inBlob == {e \in u.blob : e.kind \in _VISIT_TYPES}
  IN (IF inBlob # {} THEN inBlob ELSE Nested(u, _VISIT_TYPES)) \cup u.recent

evaluate_ci_14(u) ==
  LET watched == {c \in u.contacts : c.monitored}
      named == {e \in Visits(u) : _is_identified_visit(e)}
      rate == IF Visits(u) # {} THEN Part(named, Visits(u)) ELSE Part(watched, u.contacts)
  IN FirstRule(<<
       <<"manago_ai" \notin u.on, "NOT_CONNECTED">>,
       <<Visits(u) = {} /\ watched = {}, "UNKNOWN">>,
       <<rate < 1500, "FAIL">>,
       <<rate < 3000, "WARN">>,
       <<TRUE, "PASS">> >>)

-----------------------------------------------------------------------------
(* The ERP: how fresh the stock is, and its heartbeat.                             *)

evaluate_br_02(u) ==
  LET shop == IF DatedRows(u.levels) # {} THEN DatedRows(u.levels) ELSE DatedRows(u.variants)
      late(S) == Part({x \in S : x.at > _BR02_SLA_HOURS}, S)
  IN FirstRule(<<
       <<~u.erp, "NOT_CONNECTED">>,
       <<shop = {} /\ DatedRows(u.goods) = {}, "UNKNOWN">>,
       <<TRUE, Bands(Above(late(shop), late(DatedRows(u.goods))), 3000, 1000)>> >>)

(* The hours since each domain of the ERP last synced: of the ingested ERP, then of *)
(* each connector that looks like one, which have the last word of a domain; a date *)
(* that is not of a domain counts as "default" unless there is one, and a connector *)
(* that says nothing counts by when its row was changed.                           *)
SyncAges(ages, src) ==
  LET told == Overlay(src.domains, ages)
  IN IF src.last = Undated THEN told ELSE Overlay(told, [default |-> src.last])
ConnectorAges(ages, src) ==
  IF SyncAges(ages, src) = <<>> THEN [connector_updated_at |-> src.changed] ELSE SyncAges(ages, src)
_erp_heartbeat_surfaces(u) ==
  FoldLeft(ConnectorAges, SyncAges(<<>>, u.heartbeat.raw), u.heartbeat.connectors)

Stalled(ages, prior) ==
  {n \in DOMAIN ages \cap DOMAIN prior.ages :
     Undated \notin {ages[n], prior.ages[n]} /\ ages[n] > prior.ages[n] + 24}

evaluate_br_12(u, d) ==
  LET silent == {n \in DOMAIN d.ages : d.ages[n] = Undated \/ d.ages[n] > BR12_STALE_HOURS}
  IN FirstRule(<<
       <<~u.erp, "NOT_CONNECTED">>,
       <<d.ages = <<>>, "UNKNOWN">>,
       <<silent # {}, "FAIL">>,
       <<d.stalled # {}, "WARN">>,
       <<TRUE, "PASS">> >>)

-----------------------------------------------------------------------------
NoPrior == [cross |-> Undated, pops |-> <<>>, fromApi |-> FALSE, ages |-> <<>>]

(* What a score stores for the runs after it, and what it says of the run before.   *)
build_drift_snapshot(u, prior) ==
  LET ages == _erp_heartbeat_surfaces(u)
  IN [cross |-> CrossDelta(u), pops |-> Sampled(Populations(u)), fromApi |-> u.catalogue # <<>>,
      ages |-> ages,
      crossMoved |-> IF prior.cross = Undated THEN {} ELSE {Apart(CrossDelta(u), prior.cross)},
      emptied |-> Emptied(u, prior), shifted |-> Shifted(u, prior), stalled |-> Stalled(ages, prior)]

DriftCheckIds == {"CI-13", "CI-14", "CI-15", "LE-08", "LE-11", "LE-13", "PT-14",
                  "SP-08", "SP-12", "CC-12", "ME-08", "ME-09", "BR-02", "BR-12"}

DriftVerdicts(u, d) ==
  [c \in DriftCheckIds |->
     CASE c = "CI-13" -> evaluate_ci_13(u) [] c = "CI-14" -> evaluate_ci_14(u)
       [] c = "CI-15" -> evaluate_ci_15(u) [] c = "LE-08" -> evaluate_le_08(u)
       [] c = "LE-11" -> evaluate_le_11(u) [] c = "LE-13" -> evaluate_le_13(u, d)
       [] c = "PT-14" -> evaluate_pt_14(u) [] c = "SP-08" -> evaluate_sp_08(u, d)
       [] c = "SP-12" -> evaluate_sp_12(u) [] c = "CC-12" -> evaluate_cc_12(u)
       [] c = "ME-08" -> evaluate_me_08(u) [] c = "ME-09" -> evaluate_me_09(u)
       [] c = "BR-02" -> evaluate_br_02(u) [] c = "BR-12" -> evaluate_br_12(u, d)]
=================================================================================
