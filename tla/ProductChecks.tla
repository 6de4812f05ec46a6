------------------------------ MODULE ProductChecks ------------------------------
(* Products and money: the checks PT-01 (the products of events are in the         *)
(* catalog), PT-03 (the catalog holds the active assortment) and PT-04 (what a     *)
(* contact is said to be worth is what the customer paid, net of refunds), and     *)
(* the write-backs of PT-03 (publish the missing products) and PT-04 (stamp the    *)
(* net value). Of a universe u,                                                    *)
(*   catalog   Manago products [id, on, archived, bare]; manyCatalogs says that    *)
(*             there are several and none is the default                           *)
(*   shelf     Shopify products [id, on, bare, variants]                           *)
(*   lines     <<product, variant>> of the orders; mentioned: ids that events name *)
(*   manago    contacts [id, email, link, worth], worth 0 without a stamp          *)
(*   shopify   customers [id, email]                                               *)
(*   sales     orders [email, gross, charged, state, whole, back, currency, test]  *)
(*   events    as in LifecycleChecks                                               *)
(* The customers of a universe have an address each, which tells their orders.       *)
(* An order was charged when it was paid or refunded, and whole when all of it was *)
(* refunded; back is the amount that went back, or Unknown.                        *)
EXTENDS CheckRules, FiniteSetsExt

CONSTANTS ProductCap   \* rows a product sample keeps

ProductIds == {"PT-01", "PT-03", "PT-04"}
Unknown == 99

ProductBoth(u) == {"shopify", "manago_ai"} \subseteq u.on
ProductNeither(u) ==
  IF {"shopify", "manago_ai"} \cap u.on = {} THEN "NOT_CONNECTED" ELSE "UNKNOWN"

-----------------------------------------------------------------------------
(* The catalog join. Products are invented from the order lines only when Shopify  *)
(* gave no product at all.                                                         *)

_manago_product_in_assortment(p) == p.on /\ ~p.archived

ActiveOnShelf(u) ==
  IF u.shelf # {} THEN {p.id : p \in {x \in u.shelf : x.on}} ELSE {l[1] : l \in u.lines}
Variants(u) ==
  (UNION {p.variants : p \in {x \in u.shelf : x.on}}) \cup {l[2] : l \in u.lines}
Assortment(u) == {p.id : p \in {x \in u.catalog : _manago_product_in_assortment(x)}}

MissingProducts(u) == IF u.catalog = {} THEN {} ELSE ActiveOnShelf(u) \ Assortment(u)
SurplusProducts(u) == IF u.catalog = {} THEN {} ELSE Assortment(u) \ ActiveOnShelf(u)
BareProducts(u) == {p \in u.catalog : _manago_product_in_assortment(p) /\ p.bare}

(* What the events' ids are looked up in: the catalog, else the shelf.             *)
Resolvable(u) ==
  IF u.catalog # {} THEN {p.id : p \in u.catalog}
  ELSE IF Variants(u) # {} THEN Variants(u) ELSE ActiveOnShelf(u)

evaluate_pt_01(u) ==
  FirstRule(<<
    <<"manago_ai" \notin u.on, "NOT_CONNECTED">>,
    <<u.mentioned = {}, "UNKNOWN">>,
    <<u.catalog = {} /\ u.lines = {} /\ ActiveOnShelf(u) = {}, "UNKNOWN">>,
    <<u.mentioned \ Resolvable(u) # {}, "FAIL">>,
    <<TRUE, "PASS">> >>)

evaluate_pt_03(u) ==
  FirstRule(<<
    <<~ProductBoth(u), ProductNeither(u)>>,
    <<u.catalog = {}, "UNKNOWN">>,
    <<MissingProducts(u) # {} \/ SurplusProducts(u) # {} \/ BareProducts(u) # {}, "FAIL">>,
    <<TRUE, "PASS">> >>)

-----------------------------------------------------------------------------
(* Net value. What an order contributes, and whether that can be certified.        *)

Money(paid, refunded, certain) == [paid |-> paid, refunded |-> refunded, certain |-> certain]

shopify_order_net_contribution(o) ==
  FirstRule(<<
    <<o.test \/ ~o.charged \/ o.gross = 0, Money(0, 0, TRUE)>>,
    <<o.back # Unknown /\ o.back > o.gross, Money(o.gross, o.gross, FALSE)>>,
    <<o.back # Unknown, Money(o.gross, o.back, TRUE)>>,
    <<o.state = "refunded" /\ o.whole, Money(o.gross, o.gross, TRUE)>>,
    <<o.state \in {"refunded", "cancelled"}, Money(o.gross, 0, FALSE)>>,
    <<TRUE, Money(o.gross, 0, TRUE)>> >>)

SalesOf(u, s) == {o \in u.sales : o.email # NoEmail /\ o.email = s.email}
SumOf(u, s, part(_)) ==
  MapThenSumSet(LAMBDA o : part(shopify_order_net_contribution(o)), SalesOf(u, s))

(* Purchases of a contact (the platform files an event under the first contact of  *)
(* its address), the same key or the same day and value told once.                 *)
FiledUnder(u, c) ==
  {e \in u.events : e.kind = "PURCHASE" /\ e.email # NoEmail /\ e.email = c.email
                      /\ \A d \in u.manago : d.email = c.email => c.id <= d.id}
Told(e) == IF e.spine # "none" THEN <<"key", e.key>> ELSE <<"day", e.day, e.value>>
Deduped(u, c) ==
  MapThenSumSet(LAMBDA e : e.value,
    {e \in FiledUnder(u, c) : \A f \in FiledUnder(u, c) : Told(f) = Told(e) => e.id <= f.id})

WithinTwoPercent(a, b) == Percent(Apart(a, b), Above(Above(a, b), 1), 2)

(* One row per contact that has a customer.                                        *)
TruthRow(u, c) ==
  LET s == Newest(CustomersOf(u, c))
      refunded == SumOf(u, s, LAMBDA k : k.refunded)
      net == SumOf(u, s, LAMBDA k : k.paid) - refunded
      certain == \A o \in SalesOf(u, s) : shopify_order_net_contribution(o).certain
      mixed == Cardinality({o.currency : o \in SalesOf(u, s)}) > 1
      governed == c.worth # 0 /\ WithinTwoPercent(c.worth, net) /\ certain /\ ~mixed
  IN [contact |-> c.id, email |-> Mask(Plain(c.email)), net |-> net,
      certain |-> certain, mixed |-> mixed, governed |-> governed,
      blind |-> ~governed /\ refunded > 0 /\ Deduped(u, c) > net,
      failing |-> ~governed /\ (~WithinTwoPercent(Deduped(u, c), net) \/ ~certain \/ mixed)]

TruthRows(u) == {TruthRow(u, c) : c \in {d \in u.manago : CustomersOf(u, d) # {}}}

evaluate_pt_04(u) ==
  FirstRule(<<
    <<~ProductBoth(u), ProductNeither(u)>>,
    <<(u.shopify = {} /\ u.sales = {}) \/ (u.manago = {} /\ u.events = {}), "UNKNOWN">>,
    <<TruthRows(u) = {}, "UNKNOWN">>,
    <<\E r \in TruthRows(u) : r.failing \/ r.blind, "FAIL">>,
    <<TRUE, "PASS">> >>)

ProductResults(u) ==
  [c \in ProductIds |->
     CASE c = "PT-01" -> evaluate_pt_01(u)
       [] c = "PT-03" -> evaluate_pt_03(u)
       [] c = "PT-04" -> evaluate_pt_04(u)]

-----------------------------------------------------------------------------
(* Evidence and write-backs.                                                       *)

_pt04_mismatch_rows(u) ==
  FirstFew(ProductCap, {r \in TruthRows(u) : r.failing \/ r.blind},
           LAMBDA a, b : (a.failing /\ ~b.failing)
                           \/ (a.failing = b.failing /\ a.contact < b.contact))

ProductEvidence(u) ==
  [pt04 |-> IF Listed(evaluate_pt_04(u), FALSE) THEN _pt04_mismatch_rows(u) ELSE {}]
NoProductEvidence == [pt04 |-> {}]

(* PT-03 is read from the universe of the last good score, without regard to what  *)
(* the last run listed. The missing products come first under the cap; surplus     *)
(* products are planned, and never written, because archiving is not enabled.      *)
_pt03_evidence_rows(u) ==
  LET missing == FirstFew(ProductCap, MissingProducts(u), <)
      surplus == FirstFew(ProductCap, SurplusProducts(u), <)
      row(id, action, ready) == [product |-> id, action |-> action, ready |-> ready]
  IN {row(id, "UPSERT_FROM_SHOPIFY", ~u.manyCatalogs) : id \in missing}
     \cup {row(id, "ARCHIVE_FLAG", FALSE) : id \in surplus}

PT03Intents(pinned) ==
  {[at |-> r.product, product |-> r.product, 
    bare |-> \A p \in pinned.shelf : p.id = r.product => p.bare]
     : r \in {x \in _pt03_evidence_rows(pinned) : x.ready}}

(* PT-04: a value that is not certain, mixes currencies or is nothing is refused.   *)
(* The contact of the row gives the address that its mask hides, and the first     *)
(* contact of that id or address must not show the value already.                  *)
_pt04_stamp_reject_reason(r) == ~r.certain \/ r.mixed \/ r.net = 0

PT04Intents(evidence, latest) ==
  {[at |-> r.contact, contact |-> r.contact, net |-> r.net]
     : r \in {x \in evidence.pt04 :
                /\ ~_pt04_stamp_reject_reason(x)
                /\ \A d \in find_manago_contact(latest, x.contact, NoEmail) :
                     \A c \in find_manago_contact(latest, x.contact, d.email) :
                       c.worth # x.net}}

(* The platform's side: an imported product is active, and keeps its archive flag; *)
(* the stamp goes to the contact of that id.                                       *)
Published(catalog, i) ==
  [id |-> i.product, on |-> TRUE, bare |-> i.bare,
   archived |-> \E p \in catalog : p.id = i.product /\ p.archived]
PublishAll(u, intents) ==
  [u EXCEPT !.catalog = {p \in @ : \A i \in intents : p.id # i.product}
                          \cup {Published(@, i) : i \in intents}]

StampWorth(u, intents) ==
  [u EXCEPT !.manago =
     {IF \E i \in intents : i.contact = c.id
      THEN [c EXCEPT !.worth = (CHOOSE i \in intents : i.contact = c.id).net]
      ELSE c : c \in @}]
=================================================================================
