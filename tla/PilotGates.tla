------------------------------- MODULE PilotGates -------------------------------
(* The twelve supplemental gates of the pilots. They are evaluated on demand, never *)
(* count in the score, and read facts f:                                           *)
(*   manago, shopify  the platform was connected when the run was scored           *)
(*   lists            list name -> set of rows, for the lists the run's snapshot    *)
(*                    holds; a list that is there and empty is an answer           *)
(*   malformed        the lists that hold something, but not one row               *)
(*   raw              the contacts of Manago's newest import                       *)
(*   identity         the contacts of the run's identity join that are Manago's    *)
(*   today                                                                         *)
(* A contact is [id, mail, invalid, doi, created, buys, rfm, dates]: the kind of    *)
(* address ("none" without one), Manago's invalid flag, which of "confirmed" and    *)
(* "not_confirmed" its opt-in fields say, its day or 0, whether it bought ("unsaid" *)
(* when no field says so), whether it has an RFM segment, and whether each of its   *)
(* date details can be read. Other rows are described at the gate that reads them. *)
EXTENDS CheckRules, Integers

Supplementals == {"BR-03", "BR-09", "CC-06", "CI-08", "LE-07", "LE-10",
                  "PT-05", "PT-06", "PT-11", "PT-13", "SP-04", "SP-10"}
ErpSensitive == {"BR-09", "PT-06"}

(* A quantity or a price that a row does not give.                                 *)
Unknown == 999

(* Facts hold finitely many rows, with whole ids and days.                          *)
IsFacts(f) ==
  /\ {"lists", "raw", "identity", "today"} \subseteq DOMAIN f
  /\ IsFiniteSet(f.raw) /\ IsFiniteSet(f.identity)
  /\ f.today \in Int /\ \A c \in f.raw : c.created \in Int
  /\ \A name \in DOMAIN f.lists :
       /\ IsFiniteSet(f.lists[name])
       /\ \A row \in f.lists[name] :
            /\ row.id \in Int
            /\ name = "manago_contacts" => row.created \in Int

SP10_FAIL_MISSING_RFM_SHARE == 10
LE07_FAIL_CAPTURE_RATE == 70
LE10_FAIL_OTHER_SHARE == 25
PT05_FAIL_PRICE_REL_DIFF == 5
PT11_FAIL_INCOMPLETE_SHARE == 10
BR09_FAIL_MISSING_INPUT_SHARE == 10
CC06_CONFIRMATION_WINDOW_DAYS == 2
CC06_FAIL_STUCK_SHARE == 5

-----------------------------------------------------------------------------
(* A list the snapshot does not give counts against the platform it comes from when *)
(* that one is not connected; otherwise nothing is known.                          *)

_load_list_input(f, name) == IF name \in DOMAIN f.lists THEN f.lists[name] ELSE {}
(* Mutant: a list that is not there is taken for an empty one.                     *)
MutantGiven(f, name) == TRUE
Given(f, name) == name \in DOMAIN f.lists

Absent(f, platform) ==
  IF (platform = "manago" /\ ~f.manago) \/ (platform = "shopify" /\ ~f.shopify)
  THEN "NOT_CONNECTED" ELSE "UNKNOWN"

(* Of two lists, Shopify's is looked at first.                                     *)
OneAbsent(f, theirs, ours) ==
  IF (~Given(f, theirs) /\ ~f.shopify) \/ (~Given(f, ours) /\ ~f.manago)
  THEN "NOT_CONNECTED" ELSE "UNKNOWN"

-----------------------------------------------------------------------------
(* Contacts (CI-08, CC-06): the snapshot's list, else the newest import, else the    *)
(* identity join, which holds addresses only.                                      *)

ContactSource(f) ==
  FirstRule(<<
    <<Given(f, "manago_contacts") \/ "manago_contacts" \in f.malformed, "snapshot">>,
    <<f.raw # {}, "import">>,
    <<f.identity # {}, "identity">>,
    <<TRUE, "none">> >>)

_load_manago_contacts(f) ==
  CASE ContactSource(f) = "snapshot" -> _load_list_input(f, "manago_contacts")
    [] ContactSource(f) = "import" -> f.raw
    [] OTHER -> f.identity

(* A plain address is none of malformed, misspelt and disposable.                  *)
_classify_email(c) == IF c.invalid \/ c.mail # "plain" THEN "bad" ELSE "good"

evaluate_ci08(f) ==
  LET contacts == _load_manago_contacts(f)
      mailed == {c \in contacts : c.mail # "none"}
  IN FirstRule(<<
       <<contacts = {}, Absent(f, "manago")>>,
       <<mailed = {}, "UNKNOWN">>,
       <<\E c \in mailed : _classify_email(c) = "bad", "FAIL">>,
       <<TRUE, "PASS">> >>)

_is_not_confirmed(c) == "not_confirmed" \in c.doi
_is_confirmed(c) == "confirmed" \in c.doi
Stuck(f, c) == c.created # 0 /\ c.created + CC06_CONFIRMATION_WINDOW_DAYS <= f.today

(* The share is of all contacts, those of unknown age too.                         *)
evaluate_cc06(f) ==
  LET contacts == _load_manago_contacts(f)
      waiting == {c \in contacts : _is_not_confirmed(c)}
      undated == {c \in waiting : c.created = 0}
      stuck == {c \in waiting : Stuck(f, c)}
  IN FirstRule(<<
       <<contacts = {}, Absent(f, "manago")>>,
       <<ContactSource(f) = "identity", "UNKNOWN">>,
       <<\A c \in contacts : ~_is_not_confirmed(c) /\ ~_is_confirmed(c), "UNKNOWN">>,
       <<waiting # {} /\ undated = waiting, "UNKNOWN">>,
       <<~Percent(Cardinality(stuck), Cardinality(contacts), CC06_FAIL_STUCK_SHARE), "FAIL">>,
       <<undated # {}, "UNKNOWN">>,
       <<TRUE, "PASS">> >>)

-----------------------------------------------------------------------------
(* Segments: buyers without an RFM segment (SP-10), date details that cannot be     *)
(* read (SP-04).                                                                   *)

evaluate_sp10(f) ==
  LET contacts == _load_list_input(f, "manago_contacts")
      buyers == {c \in contacts : c.buys = "yes"}
      missing == {c \in buyers : ~c.rfm}
  IN FirstRule(<<
       <<~Given(f, "manago_contacts"), Absent(f, "manago")>>,
       <<contacts # {} /\ \A c \in contacts : c.buys = "unsaid", "UNKNOWN">>,
       <<~Percent(Cardinality(missing), Cardinality(buyers), SP10_FAIL_MISSING_RFM_SHARE), "FAIL">>,
       <<TRUE, "PASS">> >>)

evaluate_sp04(f) ==
  LET contacts == _load_list_input(f, "manago_contacts")
  IN FirstRule(<<
       <<~Given(f, "manago_contacts"), Absent(f, "manago")>>,
       <<\E c \in contacts : "bad" \in c.dates, "FAIL">>,
       <<contacts # {} /\ \A c \in contacts : c.dates = {}, "UNKNOWN">>,
       <<TRUE, "PASS">> >>)

-----------------------------------------------------------------------------
(* Coupons (PT-13): a Manago coupon [id, code] must be a usable code of Shopify's    *)
(* [id, code, usable]; code 0 is none, and the last row of a code counts.          *)

evaluate_pt13(f) ==
  LET coupons == _load_list_input(f, "manago_coupons")
      codes == _load_list_input(f, "shopify_discount_codes")
      rows(code) == {x \in codes : x.code = code /\ code # 0}
      sound(c) == rows(c.code) # {} /\ Newest(rows(c.code)).usable
  IN FirstRule(<<
       <<~Given(f, "manago_coupons") \/ ~Given(f, "shopify_discount_codes"),
         OneAbsent(f, "shopify_discount_codes", "manago_coupons")>>,
       <<\E c \in coupons : ~sound(c), "FAIL">>,
       <<TRUE, "PASS">> >>)

(* Carts (LE-07): [id, email] of abandoned checkouts, [id, email, cart] of events.   *)
evaluate_le07(f) ==
  LET abandoned == _load_list_input(f, "shopify_abandoned_checkouts")
      seen == {e.email : e \in {x \in _load_list_input(f, "manago_cart_events") : x.cart}}
      emails == {a.email : a \in abandoned} \ {NoEmail}
      captured == Cardinality(emails \cap seen)
  IN FirstRule(<<
       <<~Given(f, "shopify_abandoned_checkouts") \/ ~Given(f, "manago_cart_events"),
         OneAbsent(f, "shopify_abandoned_checkouts", "manago_cart_events")>>,
       <<\E a \in abandoned : a.email = NoEmail, "FAIL">>,
       <<100 * captured < LE07_FAIL_CAPTURE_RATE * Cardinality(emails), "FAIL">>,
       <<TRUE, "PASS">> >>)

(* Event types (LE-10): [id, type, changed, reservation].                          *)
evaluate_le10(f) ==
  LET events == _load_list_input(f, "manago_events")
      other == {e \in events : e.type = "OTHER"}
  IN FirstRule(<<
       <<~Given(f, "manago_events"), Absent(f, "manago")>>,
       <<~Percent(Cardinality(other), Cardinality(events), LE10_FAIL_OTHER_SHARE), "FAIL">>,
       <<\E e \in events : e.changed \/ (e.type = "PURCHASE" /\ e.reservation), "FAIL">>,
       <<TRUE, "PASS">> >>)

-----------------------------------------------------------------------------
(* Products. Manago's [id, ids, price, discount, qty, whole] are joined to the       *)
(* Shopify rows [id, ids, price or qty] by the first of their ids that one has; the *)
(* first row of an id counts.                                                      *)

Joined(rows, p) ==
  LET known == {i \in DOMAIN p.ids : \E s \in rows : p.ids[i] \in s.ids}
      first == CHOOSE i \in known : \A j \in known : i <= j
  IN IF known = {} THEN {} ELSE {Earliest({s \in rows : p.ids[first] \in s.ids})}

evaluate_pt05(f) ==
  LET manago == _load_list_input(f, "manago_products")
      shopify == _load_list_input(f, "shopify_products")
      priced(p) == {s \in Joined(shopify, p) : p.price # Unknown /\ s.price # Unknown}
      upside(p) == Unknown \notin {p.price, p.discount} /\ p.discount > p.price
      away(p) == \E s \in priced(p) :
                   ~Percent(Apart(p.price, s.price), Above(s.price, 1), PT05_FAIL_PRICE_REL_DIFF)
  IN FirstRule(<<
       <<~Given(f, "manago_products") \/ ~Given(f, "shopify_products"),
         OneAbsent(f, "shopify_products", "manago_products")>>,
       <<\E p \in manago : upside(p) \/ away(p), "FAIL">>,
       <<manago \cup shopify # {} /\ \A p \in manago : priced(p) = {}, "UNKNOWN">>,
       <<TRUE, "PASS">> >>)

(* A row of the inventory without a quantity is not there.                         *)
evaluate_pt06(f) ==
  LET manago == _load_list_input(f, "manago_products")
      inventory == _load_list_input(f, "shopify_inventory")
      stocked(p) == Joined({s \in inventory : s.qty # Unknown}, p)
      compared(p) == p.qty # Unknown /\ stocked(p) # {}
      wrong(p) == \/ p.qty # Unknown /\ p.qty < 0
                  \/ \E s \in stocked(p) : s.qty < 0 \/ (compared(p) /\ p.qty # s.qty)
  IN FirstRule(<<
       <<~Given(f, "manago_products") \/ ~Given(f, "shopify_inventory"),
         OneAbsent(f, "shopify_inventory", "manago_products")>>,
       <<\E p \in manago : wrong(p), "FAIL">>,
       <<manago \cup inventory # {} /\ \A p \in manago : ~compared(p), "UNKNOWN">>,
       <<TRUE, "PASS">> >>)

(* Too many rows that lack an attribute (PT-11), or replenishment data (BR-09).     *)
TooManyPartial(rows, limit) ==
  ~Percent(Cardinality({p \in rows : ~p.whole}), Cardinality(rows), limit)

evaluate_pt11(f) ==
  LET products == _load_list_input(f, "manago_products")
  IN FirstRule(<<
       <<~Given(f, "manago_products"), Absent(f, "manago")>>,
       <<TooManyPartial(products, PT11_FAIL_INCOMPLETE_SHARE), "FAIL">>,
       <<TRUE, "PASS">> >>)

evaluate_br09(f) ==
  LET products == _load_list_input(f, "replenishment_products")
  IN FirstRule(<<
       <<~Given(f, "replenishment_products"), "UNKNOWN">>,
       <<TooManyPartial(products, BR09_FAIL_MISSING_INPUT_SHARE), "FAIL">>,
       <<TRUE, "PASS">> >>)

(* Products shown on an active surface [id, stock] (BR-03).                        *)
evaluate_br03(f) ==
  LET shown == _load_list_input(f, "active_surface_products")
  IN FirstRule(<<
       <<~Given(f, "active_surface_products"), Absent(f, "manago")>>,
       <<\E p \in shown : p.stock # Unknown /\ p.stock <= 0, "FAIL">>,
       <<\E p \in shown : p.stock = Unknown, "UNKNOWN">>,
       <<TRUE, "PASS">> >>)

-----------------------------------------------------------------------------
(* Two of the gates need the ERP and are not connected without it.                 *)
Evaluated(check, f) ==
  CASE check = "BR-03" -> evaluate_br03(f) [] check = "BR-09" -> evaluate_br09(f)
    [] check = "CC-06" -> evaluate_cc06(f) [] check = "CI-08" -> evaluate_ci08(f)
    [] check = "LE-07" -> evaluate_le07(f) [] check = "LE-10" -> evaluate_le10(f)
    [] check = "PT-05" -> evaluate_pt05(f) [] check = "PT-06" -> evaluate_pt06(f)
    [] check = "PT-11" -> evaluate_pt11(f) [] check = "PT-13" -> evaluate_pt13(f)
    [] check = "SP-04" -> evaluate_sp04(f) [] check = "SP-10" -> evaluate_sp10(f)

run_supplemental_check(check, erp, f) ==
  IF check \in ErpSensitive /\ ~erp THEN "NOT_CONNECTED" ELSE Evaluated(check, f)

run_supplemental_checks(checks, erp, f) ==
  [c \in checks \cap Supplementals |-> run_supplemental_check(c, erp, f)]

(* What a pilot's supplemental gates say, given the stored statuses.               *)
supplemental_readiness_for_use_case(required, stored) ==
  [not_evaluated |-> required \ DOMAIN stored,
   blocked_by |-> {c \in required \cap DOMAIN stored : stored[c] # "PASS"},
   ready |-> \A c \in required : c \in DOMAIN stored /\ stored[c] = "PASS"]
=================================================================================
