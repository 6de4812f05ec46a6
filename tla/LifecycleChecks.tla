----------------------------- MODULE LifecycleChecks -----------------------------
(* Orders and the events that tell of them: the join of paid Shopify orders with   *)
(* Manago PURCHASE events, the checks LE-01 to LE-05 and LE-09, and the            *)
(* write-backs that ingest the missing purchases (LE-01 and LE-05) and returns     *)
(* (LE-09) or correct a value (LE-02). Of a universe u,                            *)
(*   on, executeOn   the connected platforms; writing allowed for the company      *)
(*   manago   contacts [id, email]                                                 *)
(*   sales    Shopify orders [id, number, email, gross, month, day, state, test]   *)
(*   events   Manago events [id, kind, key, spine, email, value, month, day, by]   *)
(*   month    the month a platform gives to an event that comes without a date     *)
(*   thin     far fewer return events than in the import before                    *)
(* An event's key is its externalId, else its transactionId, as spine says; by     *)
(* tells who made it. An id also gives the place in the platform's list.           *)
EXTENDS CheckRules, FiniteSetsExt, SequencesExt

CONSTANTS
  GapCap,       \* gaps a score lists
  IngestCap     \* events one LE-01 preview takes

LifecycleIds == {"LE-01", "LE-02", "LE-03", "LE-04", "LE-05", "LE-09"}
PlatformsOn(u) == {"shopify", "manago_ai"} \cap u.on

Paid(u) == {o \in u.sales : ~o.test /\ o.state = "paid"}
Returned(u) == {o \in u.sales : ~o.test /\ o.state \in {"refunded", "cancelled"}}
Purchases(u) == {e \in u.events : e.kind = "PURCHASE"}
Returns(u) == {e \in u.events : e.kind \in {"RETURN", "CANCELLATION"}}

-----------------------------------------------------------------------------
(* The join: by the order's id, else by its number (the last order of a number);   *)
(* what is left over is matched by address, day and value, order by order, each    *)
(* with the first event that fits.                                                 *)

Keyed_numberOnly(u, e) == {o \in Paid(u) : e.spine # "none" /\ o.number = e.key}
Keyed(u, e) ==
  LET byId == {o \in Paid(u) : e.spine # "none" /\ o.id = e.key}
  IN IF byId # {} THEN byId
     ELSE {o \in Paid(u) : e.spine # "none" /\ o.number = e.key}

KeyedPairs(u) ==
  {[event |-> e, order |-> Newest(Keyed(u, e))] : e \in {x \in Purchases(u) : Keyed(u, x) # {}}}

HeuristicPairs(u) ==
  LET keyed == KeyedPairs(u)
      loose == Purchases(u) \ {p.event : p \in keyed}
      orders == Paid(u) \ {p.order : p \in keyed}
      fits(o, e) == /\ o.email # NoEmail /\ o.email = e.email /\ o.gross = e.value
                    /\ o.day = 0 \/ o.day = e.day
      step(pairs, o) ==
        LET free == {e \in loose \ {p.event : p \in pairs} : fits(o, e)}
        IN IF free = {} THEN pairs ELSE pairs \cup {[event |-> Earliest(free), order |-> o]}
  IN FoldLeft(step, {}, SetToSortSeq(orders, LAMBDA a, b : a.id < b.id))

_reconcile_order_events(u) == KeyedPairs(u) \cup HeuristicPairs(u)

ShopifyOnly(u) == Paid(u) \ {p.order : p \in _reconcile_order_events(u)}
ManagoOnly(u) ==
  {e.key : e \in {x \in Purchases(u) \ {p.event : p \in _reconcile_order_events(u)} :
                    x.spine # "none"}}

(* One row per order, that of its event whose value is furthest off; the rows are  *)
(* listed by how far, and then by the first event of the order that is off.        *)
Off(p) == Apart(p.order.gross, p.event.value)
OffPairs(u) == {p \in KeyedPairs(u) : Off(p) > 0}
_value_mismatches_from_events(u) ==
  {p \in OffPairs(u) :
     \A q \in OffPairs(u) : q.order = p.order =>
       Off(q) < Off(p) \/ (Off(q) = Off(p) /\ p.event.id <= q.event.id)}
FirstOff(u, p) == Earliest({q.event : q \in {r \in OffPairs(u) : r.order = p.order}}).id
FurtherOff(u, p, q) ==
  Off(p) > Off(q) \/ (Off(p) = Off(q) /\ FirstOff(u, p) < FirstOff(u, q))

(* Events of one externalId or, for the others, of one address, day and value.     *)
DuplicateClusters(u) ==
  LET group(e) == IF e.spine = "externalId" THEN <<e.key>> ELSE <<e.email, e.day, e.value>>
      keys == {group(e) : e \in {x \in Purchases(u) :
                 x.spine = "externalId" \/ x.email # NoEmail \/ x.day # 0 \/ x.value # 0}}
      members(k) == {e \in Purchases(u) : group(e) = k}
  IN {members(k) : k \in {l \in keys : Cardinality(members(l)) > 1}}

Gross(orders) == MapThenSumSet(LAMBDA o : o.gross, orders)
Value(events) == MapThenSumSet(LAMBDA e : e.value, events)
OfMonth(rows, m) == {r \in rows : r.month = m}

(* Two amounts are more than 2% apart.                                             *)
Diverges(a, b) == ~Percent(Apart(a, b), Above(Above(a, b), 1), 2)

-----------------------------------------------------------------------------
(* The checks.                                                                     *)

BothPlatforms(u) == Cardinality(PlatformsOn(u)) = 2
NeitherStatus(u) == IF PlatformsOn(u) = {} THEN "NOT_CONNECTED" ELSE "UNKNOWN"
Empty(u) == Paid(u) = {} /\ Purchases(u) = {}
Months(u) == {r.month : r \in Paid(u) \cup Purchases(u)}

evaluate_le_01(u) ==
  FirstRule(<<
    <<~BothPlatforms(u), NeitherStatus(u)>>,
    <<Empty(u), "UNKNOWN">>,
    <<\/ Diverges(Cardinality(Paid(u)), Cardinality(Purchases(u)))
      \/ \E m \in Months(u) : Diverges(Cardinality(OfMonth(Paid(u), m)),
                                       Cardinality(OfMonth(Purchases(u), m))), "FAIL">>,
    <<TRUE, "PASS">> >>)

evaluate_le_02(u) ==
  FirstRule(<<
    <<~BothPlatforms(u), NeitherStatus(u)>>,
    <<Empty(u), "UNKNOWN">>,
    <<\/ Diverges(Gross(Paid(u)), Value(Purchases(u)))
      \/ \E m \in Months(u) : Diverges(Gross(OfMonth(Paid(u), m)),
                                       Value(OfMonth(Purchases(u), m))), "FAIL">>,
    <<TRUE, "PASS">> >>)

evaluate_le_03(u) ==
  LET all == Cardinality(Purchases(u))
      named == Cardinality({e \in Purchases(u) : e.spine = "externalId"})
  IN FirstRule(<<
       <<"manago_ai" \notin u.on, "NOT_CONNECTED">>,
       <<all = 0, "UNKNOWN">>,
       <<100 * named >= 95 * all, "PASS">>,
       <<100 * named >= 80 * all, "WARN">>,
       <<TRUE, "FAIL">> >>)

evaluate_le_04(u) ==
  LET all == Cardinality(Purchases(u))
      clusters == DuplicateClusters(u)
      extra == MapThenSumSet(LAMBDA k : Cardinality(k) - 1, clusters)
  IN FirstRule(<<
       <<"manago_ai" \notin u.on, "NOT_CONNECTED">>,
       <<all = 0, "UNKNOWN">>,
       <<~Percent(extra, all, 2) \/ Cardinality(clusters) > 10, "FAIL">>,
       <<clusters # {}, "WARN">>,
       <<TRUE, "PASS">> >>)

evaluate_le_05(u) ==
  FirstRule(<<
    <<~BothPlatforms(u), NeitherStatus(u)>>,
    <<Empty(u), "UNKNOWN">>,
    <<ShopifyOnly(u) # {} \/ ManagoOnly(u) # {}, "FAIL">>,
    <<TRUE, "PASS">> >>)

ReturnIds(u) == {o.id : o \in Returned(u)}
ToldReturns(u) == {e.key : e \in {x \in Returns(u) : x.spine # "none"}}

evaluate_le_09(u) ==
  LET none == Returns(u) = {} /\ Returned(u) # {}
      missing == ReturnIds(u) \ ToldReturns(u)
  IN FirstRule(<<
       <<~BothPlatforms(u), NeitherStatus(u)>>,
       <<Returned(u) = {} /\ Returns(u) = {}, "PASS">>,
       <<u.thin /\ (missing # {} \/ none), "UNKNOWN">>,
       <<none \/ missing # {} \/ ToldReturns(u) \ ReturnIds(u) # {}, "FAIL">>,
       <<Diverges(Gross(Returned(u)), Value(Returns(u))), "WARN">>,
       <<TRUE, "PASS">> >>)

LifecycleResults(u) ==
  [c \in LifecycleIds |->
     CASE c = "LE-01" -> evaluate_le_01(u)
       [] c = "LE-02" -> evaluate_le_02(u)
       [] c = "LE-03" -> evaluate_le_03(u)
       [] c = "LE-04" -> evaluate_le_04(u)
       [] c = "LE-05" -> evaluate_le_05(u)
       [] c = "LE-09" -> evaluate_le_09(u)]

-----------------------------------------------------------------------------
(* Evidence. A gap row of LE-01 has the order's id only; one of LE-05 has the      *)
(* amount too. other says that there are rows of another kind.                     *)

GapRows(u) == FirstFew(GapCap, ShopifyOnly(u), LAMBDA a, b : a.id < b.id)

LifecycleEvidence(u) ==
  [le01 |-> IF Listed(evaluate_le_01(u), FALSE) THEN {o.id : o \in GapRows(u)} ELSE {},
   other |-> Listed(evaluate_le_01(u), FALSE),
   le05 |-> IF Listed(evaluate_le_05(u), FALSE)
            THEN {[order |-> o.id, gross |-> o.gross] : o \in GapRows(u)} ELSE {},
   le02 |-> IF Listed(evaluate_le_02(u), FALSE)
            THEN {[order |-> p.order.id, key |-> p.event.key, gross |-> p.order.gross]
                    : p \in FirstFew(GapCap, _value_mismatches_from_events(u),
                                     LAMBDA p, q : FurtherOff(u, p, q))} ELSE {},
   le09 |-> IF Listed(evaluate_le_09(u), FALSE)
            THEN FirstFew(GapCap, ReturnIds(u) \ ToldReturns(u), LAMBDA a, b : a < b) ELSE {}]

NoLifecycleEvidence ==
  [le01 |-> {}, other |-> FALSE, le05 |-> {}, le02 |-> {}, le09 |-> {}]

-----------------------------------------------------------------------------
(* Write-backs. The address and the amount of an order are looked up among the     *)
(* imported orders, whatever has become of the order since it was listed; without  *)
(* an address the event cannot be addressed.                                       *)

Imported(latest, id) == {o \in latest.sales : o.id = id}

Ingest(kind, order, email, value) ==
  [at |-> order, op |-> "ingest", kind |-> kind, key |-> order, email |-> email, value |-> value]

(* listed is the amount of the row, a set of at most one.                          *)
_enrich_le01_row(latest, id, listed) ==
  {Ingest("PURCHASE", id, o.email, IF listed = {} THEN o.gross ELSE CHOOSE a \in listed : TRUE)
     : o \in {x \in Imported(latest, id) : x.email # NoEmail}}

(* Without any listed row, and with writing allowed, LE-01 invents rows from the   *)
(* first imported orders, as a proof of the write path.                            *)
_le01_sandbox_evidence_rows(latest) ==
  UNION {_enrich_le01_row(latest, o.id, {})
           : o \in FirstFew(IngestCap, {x \in latest.sales : x.email # NoEmail},
                            LAMBDA a, b : a.id < b.id)}

_le01_evidence_rows(evidence, latest, executeOn) ==
  IF evidence.le01 # {}
  THEN UNION {_enrich_le01_row(latest, id, {})
                : id \in FirstFew(IngestCap, evidence.le01, LAMBDA a, b : a < b)}
  ELSE IF ~evidence.other /\ executeOn THEN _le01_sandbox_evidence_rows(latest)
  ELSE {}

_le05_evidence_rows(evidence, latest) ==
  UNION {_enrich_le01_row(latest, r.order, {r.gross}) : r \in evidence.le05}

(* LE-02 resends the event with the amount the score compared it with; it names    *)
(* the contact that the imported event named, so that it needs no address.         *)
_le02_evidence_rows(evidence) ==
  {[at |-> r.order, op |-> "correct", kind |-> "PURCHASE", key |-> r.key, value |-> r.gross]
     : r \in evidence.le02}

(* LE-09: cancelled in the imported or in the pinned order wins over refunded.     *)
_resolve_le09_event_type_purchase(pinned, latest, id) == "PURCHASE"
_resolve_le09_event_type(pinned, latest, id) ==
  IF \E o \in Imported(pinned, id) \cup Imported(latest, id) : o.state = "cancelled"
  THEN "CANCELLATION" ELSE "RETURN"
_le09_evidence_rows(evidence, pinned, latest) ==
  {Ingest(_resolve_le09_event_type(pinned, latest, o.id), o.id, o.email, o.gross)
     : o \in {x \in latest.sales : x.id \in evidence.le09 /\ x.email # NoEmail}}

(* The platform appends an ingested event, whatever it holds, under its month; it  *)
(* updates the first event of the given externalId, and only such a one.           *)
Tell(u, i, by) ==
  [id |-> Max({0} \cup {e.id : e \in u.events}) + i.at, kind |-> i.kind, key |-> i.key,
   spine |-> "externalId", email |-> i.email, value |-> i.value, month |-> u.month,
   day |-> 0, by |-> by]
Corrects(u, i, e) ==
  LET told == {x \in Purchases(u) : x.spine = "externalId" /\ x.key = i.key}
  IN i.op = "correct" /\ e \in told /\ \A x \in told : e.id <= x.id

TellAll(u, intents, by) ==
  [u EXCEPT !.events =
     {IF \E i \in intents : Corrects(u, i, e)
      THEN [e EXCEPT !.value = (CHOOSE i \in intents : Corrects(u, i, e)).value]
      ELSE e : e \in @}
     \cup {Tell(u, i, by) : i \in {j \in intents : j.op = "ingest"}}]
=================================================================================
