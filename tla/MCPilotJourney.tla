----------------------------- MODULE MCPilotJourney -----------------------------
(* Small deployments for PilotJourney, in families: what the platforms answer and    *)
(* how the owner is configured; scores; the pilots' gates; the way from a score to   *)
(* an activated handoff; the workflow's graph; and the race for a handoff.           *)
EXTENDS PilotJourney

-----------------------------------------------------------------------------
(* Rows for the DRIFT checks: a healthy estate and what makes each check speak up.  *)

Days(n) == n * DayLength
Member(id, email) ==
  [id |-> id, state |-> "active", out |-> "no", at |-> Days(10), made |-> Days(60), link |-> id,
   email |-> email, seen |-> {Days(30)}, policies |-> {"v1"}, tags |-> {}, funnels |-> {},
   fields |-> {}, invalid |-> "no", monitored |-> FALSE, events |-> {}]
Happened(id, kind, who, key, at, value) ==
  [id |-> id, kind |-> kind, who |-> who, email |-> NoEmail, key |-> key, at |-> at,
   value |-> value, test |-> FALSE]
Order(id, email, at, price) ==
  [id |-> id, email |-> email, at |-> at, state |-> "paid", test |-> FALSE, cancelled |-> FALSE,
   price |-> price, buyer |-> 1]
Customer(id) == [id |-> id, at |-> Days(12), made |-> Days(50)]
Checkout(id, at, done) == [id |-> id, token |-> 50 + id, email |-> 2, at |-> at, done |-> done]

Tagged == {[Member(1, 1) EXCEPT !.tags = {1}, !.funnels = {7}],
           [Member(2, 2) EXCEPT !.tags = {1}, !.fields = {[name |-> "size", at |-> Undated]}],
           Member(3, 3)}
Healthy ==
  [on |-> {}, erp |-> FALSE, contacts |-> Tagged,
   told |-> {Happened(1, "PURCHASE", 1, 11, Days(3), 1050), Happened(2, "PURCHASE", 1, 12, Days(40), 2050),
             Happened(3, "PURCHASE", 2, 13, Days(9), 2050), Happened(4, "PURCHASE", 2, 14, Days(10), 2050),
             Happened(5, "PURCHASE", 2, 15, Days(11), 2050)},
   blob |-> {Happened(9, "VISIT", 1, 0, Days(1), 0)},
   orders |-> {Order(11, 1, Days(3), 1050), Order(12, 1, Days(40), 2050)},
   customers |-> {Customer(1), Customer(2)}, checkouts |-> {}, catalogue |-> <<>>, recent |-> {},
   flowKeys |-> {}, stats |-> [sent |-> 0, bounce |-> Undated], common |-> Undated,
   levels |-> {[id |-> 1, at |-> 5]}, variants |-> {}, goods |-> {[id |-> 1, at |-> 5]},
   heartbeat |-> [raw |-> [domains |-> "stock" :> 5, last |-> Undated], connectors |-> <<>>]]

People(S) == [Healthy EXCEPT !.contacts = S]
Blocked(id, at) == [Member(id, id) EXCEPT !.state = "blocked", !.at = at]
Cart(id, key, at) == Happened(id, "CART", 2, key, at, 100)
Carting(S) == [Healthy EXCEPT !.blob = S]
Erp(domains, last, connectors) ==
  [Healthy EXCEPT !.heartbeat = [raw |-> [domains |-> domains, last |-> last], connectors |-> connectors]]
Priced(S) == {[e EXCEPT !.value = 5000] : e \in S}

DriftVariants ==
  {Healthy, People({}), People({Member(1, 1), Blocked(2, Days(3)), Blocked(3, Undated)}),
   People({Blocked(n, Days(3)) : n \in 1..3} \cup {Member(n, n) : n \in 4..9}),
   People({Blocked(n, Days(3)) : n \in 1..3} \cup {Member(n, n) : n \in 11..19} \cup {Member(1, 9), Member(2, 8)}),
   People({[Member(1, 1) EXCEPT !.state = "resigned", !.invalid = "yes"],
           [Member(2, 2) EXCEPT !.out = "yes"], [Member(3, 3) EXCEPT !.out = "unsaid", !.state = "none"]}),
   People({[Member(1, 1) EXCEPT !.at = Days(800), !.seen = {}], [Member(2, 2) EXCEPT !.at = Days(700)],
           [Member(3, 3) EXCEPT !.policies = {"v2"}]}),
   People({[Member(1, 1) EXCEPT !.at = Days(42)], [Member(2, 2) EXCEPT !.at = Days(42) + 1]}),
   People({[Member(n, n) EXCEPT !.at = Undated, !.seen = {}, !.invalid = "unsaid"] : n \in 1..2}),
   People({[Member(1, 1) EXCEPT !.tags = {3}, !.at = Days(500)], [Member(2, 2) EXCEPT !.tags = {7}],
           [Member(3, 3) EXCEPT !.tags = {4}], [Member(4, 4) EXCEPT !.tags = {5}],
           [Member(5, 5) EXCEPT !.fields = {[name |-> "since", at |-> Days(95)]}]}),
   People({[Member(1, 1) EXCEPT !.tags = {6}], [Member(2, 2) EXCEPT !.tags = {6}]}),
   People({[Member(1, 1) EXCEPT !.events = {Cart(20, 0, Days(20))}], [Member(2, 2) EXCEPT !.events = {Happened(21, "VISIT", 0, 0, 3, 0)}]}),
   [Healthy EXCEPT !.stats = [sent |-> 9, bounce |-> 600]], [Healthy EXCEPT !.stats = [sent |-> 9, bounce |-> 1200]],
   [Healthy EXCEPT !.blob = {}], [Healthy EXCEPT !.blob = {}, !.contacts = {[Member(1, 1) EXCEPT !.monitored = TRUE]}],
   [Healthy EXCEPT !.blob = {}, !.recent = {Happened(n, "VISIT", 0, 0, 1, 0) : n \in 30..34} \cup {Happened(35, "VISIT", 7, 0, 1, 0)}],
   Carting({Cart(20, 11, Days(20)), Cart(21, 77, Days(20)), Cart(22, 53, Days(20))}),
   [Carting({Cart(20, 0, Days(20)), Cart(21, 0, Days(2))}) EXCEPT !.checkouts = {Checkout(3, Days(20), Days(20)), Checkout(4, Days(2), Undated)}],
   [Healthy EXCEPT !.told = {}, !.orders = {}], [Healthy EXCEPT !.told = {}], [Healthy EXCEPT !.orders = {}, !.common = 90],
   [Healthy EXCEPT !.told = {Happened(1, "PURCHASE", 1, 11, Days(3), 105000), Happened(2, "PURCHASE", 2, 12, Days(40), 205000)}],
   [Healthy EXCEPT !.told = Priced(@), !.orders = @ \cup {Order(13, 2, Days(9), 1999)}],
   [Healthy EXCEPT !.told = {[e EXCEPT !.test = TRUE] : e \in @}],
   [Healthy EXCEPT !.orders = {[Order(11, 1, Days(3), 1050) EXCEPT !.cancelled = TRUE], [Order(12, 1, Days(40), 5) EXCEPT !.state = "refunded"]}],
   [Healthy EXCEPT !.contacts = {[Member(1, 1) EXCEPT !.made = Days(2)], [Member(2, 2) EXCEPT !.made = Days(9) - 1]}],
   [Healthy EXCEPT !.orders = @ \cup {Order(16, 3, Days(50) + 1, 990)}],
   [Healthy EXCEPT !.levels = {}, !.variants = {[id |-> 1, at |-> 25], [id |-> 2, at |-> 24]}],
   [Healthy EXCEPT !.levels = {}, !.goods = {}],
   Erp(<<>>, Undated, <<>>), Erp(<<>>, 60, <<>>), Erp("stock" :> Undated, Undated, <<>>),
   Erp(<<>>, Undated, <<[domains |-> <<>>, last |-> Undated, changed |-> 7]>>),
   Erp("stock" :> 60, 3, <<[domains |-> "stock" :> 4, last |-> 90, changed |-> 7]>>)}

(* Estates that follow one another: as it was, with the catalogue ingested, after a  *)
(* segment was emptied, and two days later without a sync.                          *)
Listed_ == [Healthy EXCEPT !.catalogue = (1 :> 40) @@ (2 :> 0)]
DriftSequel ==
  {Healthy, Listed_, [Listed_ EXCEPT !.catalogue = (1 :> 4) @@ (2 :> 9)],
   People({Member(1, 1), [Member(2, 2) EXCEPT !.tags = {1}]}),
   [Erp("stock" :> 32, Undated, <<>>) EXCEPT !.orders = {}]}

-----------------------------------------------------------------------------
MCChecks == Gates \cup {"CI-01", "LE-01", "LE-02", "LE-04", "PT-04", "SP-08", "CC-03", "ME-02", "BR-01"}
MCDimension ==
  [c \in MCChecks |->
     CASE c \in Gates -> "00" [] c = "CI-01" -> "01" [] c \in {"LE-01", "LE-02", "LE-04"} -> "02"
       [] c = "PT-04" -> "03" [] c = "SP-08" -> "04" [] c = "CC-03" -> "05"
       [] c = "ME-02" -> "06" [] c = "BR-01" -> "07"]
MCWeight ==
  [c \in MCChecks |-> CASE c \in Gates -> 0 [] c = "LE-01" -> 6 [] c = "LE-04" -> 3 [] OTHER -> 2]
MCShare ==
  [d \in {"01", "02", "03", "04", "05", "06", "07"} |->
     CASE d \in {"01", "02", "05"} -> 18 [] d = "03" -> 14 [] d = "04" -> 12 [] OTHER -> 10]

-----------------------------------------------------------------------------
(* Worlds.                                                                         *)
Import == [before |-> {}, raised |-> "none", contacts |-> 2, orders |-> 2, cut |-> FALSE,
           days |-> 365, scopes |-> {"customers", "orders"}, seen |-> {}]
Link(probe) == [status |-> "connected", import |-> {Import}, live |-> "yes", probe |-> probe,
                ages |-> {400}]
World ==
  [manago |-> Link(<<"ok", "ok", "ok">>), shopify |-> Link("left"),
   users |-> <<"anna">>, listed |-> TRUE, slug |-> {},
   activity |-> {[visits |-> 3, identified |-> 1, monitored |-> 1]}, ingested |-> <<0, 0>>,
   pages |-> {}, need |-> 365]
Importing(w, i) == [w EXCEPT !.shopify.import = {i}]
Team(w) == [w EXCEPT !.users = <<"anna", "boris">>]
Named(w) == [Team(w) EXCEPT !.slug = {"boris"}]
Quiet(w) == [w EXCEPT !.activity = {[visits |-> 0, identified |-> 0, monitored |-> 0]}]

Asking(checks) == [checks |-> checks, erp |-> FALSE]
AsksAll == {[checks |-> Supplementals, erp |-> erp] : erp \in BOOLEAN}
Plain0 == [owner |-> Nobody, key |-> FALSE, accounts |-> <<>>, class |-> "unknown"]
Geo == [owner |-> Nobody, key |-> FALSE, class |-> "geo",
        accounts |-> <<[owner |-> "anna", inScope |-> TRUE, class |-> "geo"],
                       [owner |-> "boris", inScope |-> TRUE, class |-> "geo"],
                       [owner |-> "carla", inScope |-> FALSE, class |-> "none"]>>]

Variants ==
  {World, Team(World), Named(World), Quiet(World),
   [Quiet(World) EXCEPT !.ingested = <<2, 1>>], [Quiet(World) EXCEPT !.ingested = <<2, 0>>],
   [World EXCEPT !.activity = {}, !.pages = {"wall", "marked"}],
   [World EXCEPT !.activity = {}, !.pages = {"clean"}],
   [World EXCEPT !.listed = FALSE], [World EXCEPT !.users = <<>>],
   [World EXCEPT !.manago.status = "error", !.shopify.status = "error"],
   [World EXCEPT !.manago.live = "no"],
   [World EXCEPT !.manago.probe = <<"ok", "limited">>], [World EXCEPT !.manago.probe = <<"error">>],
   [World EXCEPT !.manago.probe = <<>>], [World EXCEPT !.shopify.probe = "spent"],
   [World EXCEPT !.shopify.probe = "error", !.shopify.live = "error"],
   [World EXCEPT !.shopify.import = {}, !.shopify.ages = {}, !.manago.import = {}, !.manago.ages = {}],
   [World EXCEPT !.manago.ages = {90}, !.shopify.ages = {90, 30},
                 !.shopify.import = {[Import EXCEPT !.days = 90]},
                 !.manago.import = {[Import EXCEPT !.days = 90]}],
   Importing(World, [Import EXCEPT !.orders = 0, !.cut = TRUE, !.seen = {0, 2}]),
   Importing(World, [Import EXCEPT !.raised = "RATE_LIMIT"]),
   Importing(World, [Import EXCEPT !.raised = "AUTH_FAILED"]),
   Importing(World, [Import EXCEPT !.before = {Failure("AUTH_FAILED")}, !.raised = "AUTH_FAILED"]),
   Importing(World, [Import EXCEPT !.before = {Failure("SCOPES_MISSING")}, !.scopes = {"orders"}])}

-----------------------------------------------------------------------------
(* Results of the other checks.                                                    *)
Result(status) ==
  [status |-> status, amount |-> 0, currency |-> "none",
   reason |-> IF status \in ELIGIBLE_STATUSES THEN "none" ELSE "MISSING_INPUT"]
Sound == [c \in MCChecks \ Gates |-> Result("PASS")]
With(results, c, status) == [results EXCEPT ![c] = Result(status)]
Worth(results, c, amount, currency) ==
  [results EXCEPT ![c] = [Result("FAIL") EXCEPT !.amount = amount, !.currency = currency]]
Grades ==
  {Sound, With(Sound, "CC-03", "FAIL"), With(Sound, "CC-03", "WARN"),
   With(Sound, "CC-03", "UNKNOWN"), With(Sound, "LE-02", "UNKNOWN"), With(Sound, "LE-04", "UNKNOWN"),
   With(With(Sound, "CI-01", "FAIL"), "CC-03", "FAIL"),
   With(With(Sound, "CI-01", "FAIL"), "CC-03", "WARN"),
   Worth(Worth(Sound, "LE-04", 5, "eur"), "PT-04", 7, "eur"),
   Worth(Worth(Sound, "LE-04", 5, "eur"), "LE-02", 7, "usd"),
   [c \in MCChecks \ Gates |-> Result("FAIL")], [c \in MCChecks \ Gates |-> Result("UNKNOWN")],
   [c \in MCChecks \ Gates |-> Result(IF c \in {"CI-01", "LE-01"} THEN "FAIL" ELSE "UNKNOWN")]}

-----------------------------------------------------------------------------
(* What the pilots' gates read.                                                    *)
Person(id) == [id |-> id, mail |-> "plain", invalid |-> FALSE, doi |-> {"confirmed"},
               created |-> 1, buys |-> "yes", rfm |-> TRUE, dates |-> {"good"}]
Facts == [Nothing EXCEPT !.manago = TRUE, !.shopify = TRUE, !.today = 9, !.raw = {Person(1)}]
Holding(name, rows) == [Facts EXCEPT !.lists = name :> rows]
Two(n, a, m, b) == (n :> a) @@ (m :> b)
Raw(people) == [Facts EXCEPT !.raw = people]
Listing(people) == Holding("manago_contacts", people)
Goods(p, name, s) == [Facts EXCEPT !.lists = Two("manago_products", p, name, s)]
Item(price, qty) == [id |-> 1, ids |-> <<7, 8>>, price |-> price, discount |-> Unknown,
                     qty |-> qty, whole |-> TRUE]
Ware(price) == [id |-> 1, ids |-> {8}, price |-> price]
Stock(qty) == [id |-> 1, ids |-> {8}, qty |-> qty]
Event(id, type) == [id |-> id, type |-> type, changed |-> FALSE, reservation |-> FALSE]
Seen(id, email) == [id |-> id, email |-> email, cart |-> TRUE]
Coupons(c, s) == [Facts EXCEPT !.lists = Two("manago_coupons", c, "shopify_discount_codes", s)]
CartLists(a, e) == [Facts EXCEPT !.lists = Two("shopify_abandoned_checkouts", a, "manago_cart_events", e)]
Code(id, code, usable) == [id |-> id, code |-> code, usable |-> usable]

FactVariants ==
  {Facts, Nothing, Raw({}), [Raw({}) EXCEPT !.identity = {Person(1)}],
   Raw({[Person(1) EXCEPT !.mail = "disposable"], Person(2)}), Raw({[Person(1) EXCEPT !.mail = "none"]}),
   Raw({[Person(1) EXCEPT !.invalid = TRUE]}),
   Raw({[Person(1) EXCEPT !.doi = {"not_confirmed"}], Person(2)}),
   Raw({[Person(1) EXCEPT !.doi = {"not_confirmed"}, !.created = 8], Person(2)}),
   Raw({[Person(1) EXCEPT !.doi = {"not_confirmed"}, !.created = 0],
        [Person(2) EXCEPT !.doi = {"not_confirmed"}, !.created = 8]}),
   Raw({[Person(1) EXCEPT !.doi = {}]}),
   [Facts EXCEPT !.malformed = {"manago_contacts"}],
   Listing({}), Listing({Person(1), [Person(2) EXCEPT !.rfm = FALSE, !.dates = {"good", "bad"}]}),
   Listing({[Person(1) EXCEPT !.buys = "unsaid", !.dates = {}]}),
   Listing({Person(1), [Person(2) EXCEPT !.buys = "no", !.rfm = FALSE]}),
   Coupons({}, {}), Coupons({[id |-> 1, code |-> 4]}, {Code(1, 4, FALSE), Code(2, 4, TRUE)}),
   Coupons({[id |-> 1, code |-> 4]}, {Code(1, 4, TRUE), Code(2, 4, FALSE)}),
   Coupons({[id |-> 1, code |-> 0]}, {Code(1, 0, TRUE)}),
   Holding("manago_coupons", {}), [Holding("manago_coupons", {}) EXCEPT !.shopify = FALSE],
   CartLists({[id |-> 1, email |-> 1], [id |-> 2, email |-> 2]}, {Seen(1, 1), Seen(2, 2)}),
   CartLists({[id |-> 1, email |-> 1], [id |-> 2, email |-> 2]}, {Seen(1, 1), [Seen(2, 2) EXCEPT !.cart = FALSE]}),
   CartLists({[id |-> 1, email |-> NoEmail]}, {}),
   Holding("manago_events", {Event(1, "CART"), Event(2, "PURCHASE")}),
   Holding("manago_events", {Event(1, "CART"), Event(2, "OTHER")}),
   Holding("manago_events", {[Event(1, "PURCHASE") EXCEPT !.reservation = TRUE]}),
   Goods({Item(100, 3)}, "shopify_products", {Ware(104)}), Goods({Item(100, 3)}, "shopify_products", {Ware(110)}),
   Goods({[Item(100, 3) EXCEPT !.discount = 120]}, "shopify_products", {Ware(100)}),
   Goods({Item(100, 3)}, "shopify_products", {}),
   Goods({Item(100, 3)}, "shopify_inventory", {Stock(3)}), Goods({Item(100, 3)}, "shopify_inventory", {Stock(2)}),
   Goods({Item(100, -1)}, "shopify_inventory", {Stock(Unknown)}), Goods({}, "shopify_inventory", {}),
   Goods({[Item(100, 3) EXCEPT !.whole = FALSE]}, "shopify_inventory", {[Stock(3) EXCEPT !.ids = {7}]}),
   Holding("replenishment_products", {[id |-> 1, whole |-> TRUE]}),
   Holding("replenishment_products", {[id |-> 1, whole |-> FALSE], [id |-> 2, whole |-> TRUE]}),
   Holding("active_surface_products", {[id |-> 1, stock |-> 3]}),
   Holding("active_surface_products", {[id |-> 1, stock |-> Unknown], [id |-> 2, stock |-> 0]}),
   Holding("active_surface_products", {[id |-> 1, stock |-> Unknown]})}

-----------------------------------------------------------------------------
(* Blueprints: the built-in ones are chains; the others are what editing could make. *)
Node(type, next) == [type |-> type, next |-> next, consent |-> FALSE]
Chain == 1 :> Node("TRIGGER", <<2>>) @@ 2 :> [Node("CONDITION", <<3>>) EXCEPT !.consent = TRUE]
           @@ 3 :> Node("FINISH", <<>>)
Tests == {"data_gates_pass", "consent_branching", "terminal_reachable", "no_orphan_nodes",
          "collision_policy", "measurement_wired", "rollback_defined"}
Modes == {"AUGMENT", "SELECTIVE_REBUILD", "REBUILD"}
Pilot == [nodes |-> Chain, audience |-> TRUE, collision |-> TRUE, metric |-> TRUE, strategy |-> TRUE,
          tests |-> Tests, minimum |-> 80, min_dcs |-> 70,
          checks |-> {"CC-03", "CC-06", "CI-08"}, modes |-> Modes]
Drawn(nodes) == [Pilot EXCEPT !.nodes = nodes]
Forked(next2, next3) ==
  1 :> Node("TRIGGER", <<2, 3>>) @@ 2 :> Node("MESSAGE", next2) @@ 3 :> Node("MESSAGE", next3)
    @@ 4 :> Node("FINISH", <<>>)
Blueprints ==
  {Pilot, Drawn(<<>>), Drawn(1 :> Node("MESSAGE", <<>>)),
   Drawn(Forked(<<4>>, <<4>>)), Drawn(Forked(<<3>>, <<2>>)), Drawn(Forked(<<4>>, <<2, 4>>)),
   Drawn(Forked(<<4, 3>>, <<2, 4>>)), Drawn(Forked(<<4>>, <<9>>)), Drawn(Forked(<<>>, <<>>)),
   Drawn([Chain EXCEPT ![1].type = "START"]), Drawn([Chain EXCEPT ![1].type = "START", ![3].next = <<1>>]),
   Drawn([Chain EXCEPT ![2].consent = FALSE]), [Drawn([Chain EXCEPT ![2].type = "WAIT"]) EXCEPT !.audience = FALSE],
   [Pilot EXCEPT !.collision = FALSE], [Pilot EXCEPT !.metric = FALSE], [Pilot EXCEPT !.strategy = FALSE],
   [Pilot EXCEPT !.tests = @ \cup {"new_test"}], [Pilot EXCEPT !.checks = {"CC-03"}]}

-----------------------------------------------------------------------------
(* The families.                                                                   *)
Found(w, results, facts) == [world |-> w, results |-> results, facts |-> facts, rows |-> {}]
Measuring(w, u) == [Found(w, Sound, Facts) EXCEPT !.rows = {u}]
Enforced == [architecture |-> TRUE, checks |-> TRUE, qa |-> TRUE]
Deployment ==
  [finds |-> {Found(World, Sound, Facts)}, start |-> Plain0, modes |-> {"AUGMENT"},
   require |-> Enforced, blueprint |-> Pilot, asks |-> {}, erp |-> FALSE, live |-> FALSE,
   limits |-> [runs |-> 1, scores |-> 1, ends |-> 2, evals |-> 0, builds |-> 0, qas |-> 0, posts |-> 0,
              calls |-> 0]]
Limited(d, runs_, scores_, evals_, builds_, qas_, posts_) ==
  [d EXCEPT !.limits = [runs |-> runs_, scores |-> scores_, ends |-> runs_ + scores_ - 1, evals |-> evals_, builds |-> builds_,
                        qas |-> qas_, posts |-> posts_, calls |-> 0]]

OfGates ==
  {[Deployment EXCEPT !.finds = {Found(w, Sound, Facts)}, !.start = c, !.live = live, !.erp = live,
                      !.limits.calls = IF live THEN 0 ELSE 1] :
     w \in Variants, c \in {Plain0, Geo, apply_primary_owner(Plain0, "boris", <<"anna", "boris">>)},
     live \in BOOLEAN}
    \cup {[Limited(Deployment, 2, 1, 0, 0, 0, 0) EXCEPT
             !.finds = {Found(Team(World), Sound, Facts), Found(Named(World), Sound, Facts)}]}
    \cup {[Limited(Deployment, 2, 1, 0, 0, 0, 0) EXCEPT
             !.start = apply_primary_owner(Plain0, "anna", <<"anna", "boris">>),
             !.finds = {Found(Named(World), Sound, Facts)}]}
(* Requests that save the configuration beside each other and a run: of two users one  *)
(* fits the shop, and the other may have been chosen.                               *)
Chosen == apply_primary_owner([Plain0 EXCEPT !.key = TRUE], "anna", <<"anna", "boris">>)
Owners(d, worlds) == [d EXCEPT !.modes = {}, !.finds = {Found(w, Sound, Facts) : w \in worlds}]
OfOwners ==
  UNION {{[Owners(Deployment, {Named(World)}) EXCEPT !.start = c, !.limits.calls = 2],
          [Owners(Limited(Deployment, 1, 2, 0, 0, 0, 0), {Named(World), World}) EXCEPT
             !.start = c, !.limits.calls = 1]} : c \in {Plain0, Chosen}}
OfScores ==
  {[Limited(Deployment, 2, 1, 0, 0, 0, 0) EXCEPT
      !.finds = {Found(World, r, Facts) : r \in Grades} \cup {Found(Quiet(World), Sound, Facts)},
      !.erp = erp, !.modes = {}, !.limits.ends = 1] : erp \in BOOLEAN}
    \cup {[Limited(Deployment, 2, 2, 0, 0, 0, 0) EXCEPT
             !.finds = {Found(World, r, Facts) : r \in {Sound, With(Sound, "CC-03", "FAIL")}},
             !.modes = {}]}
OfPilotGates ==
  {[Limited(Deployment, 1, 1, 1, 0, 0, 0) EXCEPT
      !.finds = {Found(World, Sound, f)}, !.asks = AsksAll, !.modes = {}] : f \in FactVariants}
(* A second run beside the evaluation and the build, and two evaluations at once.    *)
Flow(limited) ==
  [limited EXCEPT
     !.finds = {Found(World, Sound, Facts),
                Found(World, With(Sound, "CC-03", "WARN"), Raw({[Person(1) EXCEPT !.mail = "disposable"]}))},
     !.asks = {Asking({"CI-08"}), Asking({"CC-06", "CI-08"})}, !.limits.ends = 1]
OfFlow == {[Flow(Limited(Deployment, 2, 1, 1, 1, 1, 0)) EXCEPT !.asks = {Asking({"CC-06", "CI-08"})}],
           Flow(Limited(Deployment, 1, 1, 2, 1, 1, 0))}
OfWorkflows ==
  {[Limited(Deployment, 1, 1, 0, 1, 1, 0) EXCEPT !.blueprint = b] : b \in Blueprints}
Demo(qa) == [architecture |-> FALSE, checks |-> FALSE, qa |-> qa]
OfStaging ==
  {[Limited(Deployment, 1, 1, 1, 1, 2, 2) EXCEPT
      !.blueprint = b, !.require = Demo(qa), !.asks = {Asking({"CI-08", "CC-06"})}, !.modes = {},
      !.finds = {Found(World, Sound, Raw({[Person(1) EXCEPT !.mail = "none"]}))}] :
     b \in {Pilot, [Pilot EXCEPT !.metric = FALSE]}, qa \in BOOLEAN}

(* One run on each estate, and runs that follow one another, fail and start over.    *)
Apart_ == [World EXCEPT !.manago.status = "error"]
OfDrift ==
  {[Deployment EXCEPT !.finds = {Measuring(World, u)}, !.modes = {}, !.erp = erp] :
     u \in DriftVariants, erp \in BOOLEAN}
    \cup {[Deployment EXCEPT !.finds = {Measuring(w, Healthy)}, !.modes = {}] :
            w \in {Apart_, [Apart_ EXCEPT !.shopify.status = "error"], [World EXCEPT !.shopify.status = "error"]}}
    \cup {[Limited(Deployment, 2, 1, 0, 0, 0, 0) EXCEPT
             !.finds = {Measuring(World, u) : u \in pair}, !.modes = {}, !.erp = TRUE, !.limits.ends = 2] :
            pair \in {p \in SUBSET DriftSequel : Cardinality(p) = 2}}

MCDeployments == OfDrift \cup OfGates \cup OfOwners \cup OfScores \cup OfPilotGates \cup OfFlow \cup OfWorkflows \cup OfStaging
=================================================================================
