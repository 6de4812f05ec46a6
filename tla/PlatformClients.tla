----------------------------- MODULE PlatformClients -----------------------------
(* What an import gets from Shopify and Manago (connectors/shopify/client.py,          *)
(* connectors/manago_ai/client.py): which surfaces an import cannot do without, which   *)
(* may fail and be told of, what is kept of a surface that breaks off, and the request   *)
(* budget that FD-04 judges (dcs/rate_budget.py).                                       *)
(*                                                                                     *)
(* The platform answers a request with rows and with the headroom it has left, or with   *)
(* none.  Rows are members of small sets; the rest of a payload is left out.             *)
EXTENDS Integers, FiniteSets, FiniteSetsExt, Sequences, SequencesExt

CONSTANTS
  BatchSize,    \* contacts that one listById asks for (50)
  ChunkDays,    \* days of one request for changed contacts (30)
  StatsCap,     \* workflows whose statistics are asked for (25)
  SampleCap,    \* customers whose metafields are sampled (15)
  LocationCap,  \* locations of one inventory request (10)
  None          \* null

ASSUME ClientsAssumption ==
  BatchSize \in Nat \ {0} /\ ChunkDays \in Nat \ {0} /\ StatsCap \in Nat /\ SampleCap \in Nat /\ LocationCap \in Nat \ {0}

(* The parts of a sequence, of at most n each.                                          *)
Chunks(s, n) == [k \in 1 .. (Len(s) + n - 1) \div n |-> SubSeq(s, (k - 1) * n + 1, Min({k * n, Len(s)}))]

First(s, n) == SubSeq(s, 1, Min({n, Len(s)}))

---------------------------------------------------------------------------------
(* Shopify                                                                            *)

(* An answer is [ok, items, left]: `left' is None when the call-limit header is missing. *)
Breaks(answers) == \E k \in DOMAIN answers : ~answers[k].ok
Items(answers) == FlattenSeq([k \in DOMAIN answers |-> answers[k].items])
Lefts(answers) == {answers[k].left : k \in DOMAIN answers} \ {None}

(* A page that fails is an error of the whole resource: its pages are lost, and so is the *)
(* headroom they told of.                                                               *)
_fetch_paginated_resource(answers, budget) ==
  IF Breaks(answers)
  THEN [ok |-> FALSE, items |-> <<>>, budget |-> budget]
  ELSE [ok |-> TRUE, items |-> Items(answers), budget |-> budget \cup Lefts(answers)]

(* Open checkouts, then closed ones; what was collected before an error is kept.        *)
_fetch_abandoned_checkouts(shop, budget) ==
  LET open == _fetch_paginated_resource(shop.open, budget)
      closed == _fetch_paginated_resource(shop.closed, open.budget)
  IN IF ~open.ok THEN [items |-> <<>>, error |-> TRUE, budget |-> budget]
     ELSE [items |-> open.items \o closed.items, error |-> ~closed.ok, budget |-> closed.budget]

(* The levels of the locations, in chunks; the chunks before an error are kept.          *)
_fetch_inventory_levels(shop, budget) ==
  LET locations == _fetch_paginated_resource(shop.locations, budget)
      chunks == Chunks(locations.items, LocationCap)
      answers == [k \in DOMAIN chunks |-> shop.levels[k]]
      good == {k \in DOMAIN answers : \A j \in 1 .. k : answers[j].ok}
      kept == [k \in 1 .. Cardinality(good) |-> answers[k]]
  IN IF ~locations.ok \/ locations.items = <<>>
     THEN [items |-> <<>>, error |-> TRUE, budget |-> locations.budget]
     ELSE [items |-> Items(kept), error |-> kept # answers, budget |-> locations.budget \cup Lefts(kept)]

(* Metafields of the first customers, up to the first that fails; nothing tells of it.   *)
SampledMetafields(shop, customers, budget) ==
  LET asked == [k \in DOMAIN First(customers, SampleCap) |-> shop.metafields[k]]
      good == {k \in DOMAIN asked : \A j \in 1 .. k : asked[j].ok}
      kept == [k \in 1 .. Cardinality(good) |-> asked[k]]
  IN [items |-> Items(kept), budget |-> budget \cup Lefts(kept)]

(* The observation with the least headroom, if a header was seen at all.                *)
merge_shopify_call_limit(seen) ==
  IF seen = {} THEN None ELSE [remaining |-> Min(seen), hit_rate_limit |-> Min(seen) <= 0]

ShopifyFetch(shop) ==
  LET customers == _fetch_paginated_resource(shop.customers, {})
      orders == _fetch_paginated_resource(shop.orders, customers.budget)
      products == _fetch_paginated_resource(shop.products, orders.budget)
      checkouts == _fetch_abandoned_checkouts(shop, products.budget)
      inventory == _fetch_inventory_levels(shop, checkouts.budget)
      metafields == SampledMetafields(shop, customers.items, inventory.budget)
      gaps == [products |-> ~products.ok, checkouts |-> checkouts.error, inventory |-> inventory.error]
  IN IF ~customers.ok \/ ~orders.ok THEN [ok |-> FALSE]
     ELSE [ok |-> TRUE,
           rows |-> [customers |-> customers.items, orders |-> orders.items,
                     products |-> products.items, checkouts |-> checkouts.items,
                     inventory |-> inventory.items, metafields |-> metafields.items],
           told |-> {surface \in DOMAIN gaps : gaps[surface]},
           budget |-> merge_shopify_call_limit(metafields.budget)]

---------------------------------------------------------------------------------
(* Manago                                                                            *)

(* An answer is [is, items] with is one of ok, failed and throttled (HTTP 429).  The      *)
(* counter is what an import adds up over its requests, here over some that are made one   *)
(* after the other.                                                                     *)
NoRequests == [sampled |-> 0, ok |-> 0, hit |-> FALSE]

_post_manago(answers, counter) ==
  [sampled |-> counter.sampled + Len(answers),
   ok |-> counter.ok + Cardinality({k \in DOMAIN answers : answers[k].is = "ok"}),
   hit |-> counter.hit \/ \E k \in DOMAIN answers : answers[k].is = "throttled"]

(* Requests one after the other, up to the first that is not answered.                  *)
Posted(answers, counter) ==
  LET good == {k \in DOMAIN answers : \A j \in 1 .. k : answers[j].is = "ok"}
      made == [k \in 1 .. Min({Cardinality(good) + 1, Len(answers)}) |-> answers[k]]
  IN [ok |-> Cardinality(good) = Len(answers), items |-> Items([k \in 1 .. Cardinality(good) |-> answers[k]]),
      counter |-> _post_manago(made, counter)]

(* The thirty-day pieces of a window: each starts where the one before it ends, and a person *)
(* changed at that moment is in both.                                                    *)
_chunk_time_range(from, to) ==
  IF to <= from THEN <<[from |-> from, to |-> to]>>
  ELSE [k \in 1 .. (to - from + ChunkDays - 1) \div ChunkDays |->
          [from |-> from + (k - 1) * ChunkDays, to |-> Min({from + k * ChunkDays, to})]]

(* A trouble [at, is] is the request of a series that is not answered; at = 0 is none.    *)
Outcome(trouble, k) == IF trouble.at = k THEN trouble.is ELSE "ok"

Changed(manago, owner, piece) ==
  {c \in manago.people : c.owner = owner /\ c.day \in piece.from .. piece.to}

(* The ids of all pieces, each once, in an order that nothing depends on.                  *)
_list_modified_contact_ids(manago, owner, counter) ==
  LET pieces == _chunk_time_range(manago.from, manago.to)
      ids(k) == SetToSeq({c.id : c \in Changed(manago, owner, pieces[k])})
      listed == Posted([k \in DOMAIN pieces |-> [is |-> Outcome(manago.listed, k), items |-> ids(k)]], counter)
  IN [listed EXCEPT !.items = SetToSeq(ToSet(@))]

(* mutant: the last batch is asked for only when it is a full one *)
Mutant_fetch_contacts_by_id(manago, ids, counter) ==
  Posted([k \in 1 .. Len(ids) \div BatchSize |->
            [is |-> Outcome(manago.bodies, k), items |-> SubSeq(ids, (k - 1) * BatchSize + 1, k * BatchSize)]], counter)

_fetch_contacts_by_id(manago, ids, counter) ==
  LET batches == Chunks(ids, BatchSize)
  IN Posted([k \in DOMAIN batches |-> [is |-> Outcome(manago.bodies, k), items |-> batches[k]]], counter)

(* A surface the import can do without: no rows, and a note.                             *)
Optional(answer, counter) ==
  [items |-> IF answer.is = "ok" THEN answer.items ELSE <<>>, note |-> answer.is # "ok",
   counter |-> _post_manago(<<answer>>, counter)]

_fetch_workflows(manago, counter) == Optional(manago.workflows, counter)
_fetch_contact_tags(manago, counter) == Optional(manago.tags, counter)
_fetch_email_global_stats(manago, counter) == Optional(manago.email, counter)

(* The v3 catalogue is asked for outside _post_manago: a 429 is a note like any other.   *)
_fetch_product_catalogs_v3(manago, counter) ==
  IF manago.catalogs = None THEN [items |-> <<>>, note |-> TRUE, counter |-> counter]
  ELSE [items |-> IF manago.catalogs.is = "ok" THEN manago.catalogs.items ELSE <<>>,
        note |-> manago.catalogs.is # "ok",
        counter |-> [_post_manago(<<manago.catalogs>>, counter) EXCEPT !.hit = counter.hit]]

(* A feed that is not XML has no products, and no note; nor has an entry without an id.   *)
_parse_product_feed_xml(feed) ==
  IF feed.is = "malformed" THEN <<>> ELSE SelectSeq(feed.items, LAMBDA product : product # None)

(* The feed is not counted as a request.                                                 *)
_fetch_catalog_products(manago) ==
  [items |-> IF manago.feed = None \/ manago.feed.is \in {"failed", "throttled"} THEN <<>>
             ELSE _parse_product_feed_xml(manago.feed),
   note |-> manago.feed = None \/ manago.feed.is \in {"failed", "throttled"}]

(* Statistics of the first workflows; one that fails has a row that says so.             *)
_fetch_workflow_stats(manago, workflows, counter) ==
  LET asked == First(workflows, StatsCap)
  IN [items |-> [k \in DOMAIN asked |-> [workflow |-> asked[k], stats_ok |-> Outcome(manago.stats, k) = "ok"]],
      counter |-> _post_manago([k \in DOMAIN asked |-> [is |-> Outcome(manago.stats, k)]], counter)]

(* FD-04: a throttled import has no headroom, and one no request of which was answered.   *)
build_manago_rate_budget(counter) ==
  [safe_request_budget |-> counter.ok, hit_rate_limit |-> counter.hit,
   headroom_ok |-> ~counter.hit /\ counter.ok > 0]

(* The owner whose contacts are fetched: the one chosen for the connector, else the first   *)
(* in scope, else the first user the platform lists.                                      *)
_preferred_owner_from_config(config) ==
  LET scoped == SelectSeq(config.accounts, LAMBDA a : a.in_scope /\ a.owner # "")
  IN IF config.owner # "" THEN config.owner ELSE IF scoped # <<>> THEN Head(scoped).owner ELSE ""

OwnerFrom(config, users) ==
  LET preferred == _preferred_owner_from_config(config)
  IN IF preferred # "" THEN preferred ELSE IF users # <<>> THEN Head(users) ELSE None

(* The users are asked for in any case; without an owner there is no import.              *)
_resolve_owner(manago, counter) ==
  [owner |-> IF manago.users.is = "ok" THEN OwnerFrom(manago.config, manago.users.items) ELSE None,
   counter |-> _post_manago(<<manago.users>>, counter)]

(* Purchases, or the other events, of the window, found among those of the contacts.       *)
_TRANSACTION_EVENT_TYPES == {"PURCHASE", "TRANSACTION"}

_extract_external_events(manago, ids, transactions) ==
  {e \in UNION {c.events : c \in {x \in manago.people : x.id \in ToSet(ids)}} :
     e.day \in manago.from .. manago.to /\ (transactions <=> e.type \in _TRANSACTION_EVENT_TYPES)}

(* The ids of who changed, then the people; the first request that fails ends the import.    *)
_fetch_contacts(manago, owner) ==
  LET ids == _list_modified_contact_ids(manago, owner.owner, owner.counter)
  IN IF ids.ok THEN _fetch_contacts_by_id(manago, ids.items, ids.counter) ELSE ids

(* What the import gets besides its contacts: no surface of it fails the import.              *)
WithSurfaces(manago, contacts) ==
  LET catalogs == _fetch_product_catalogs_v3(manago, contacts.counter)
      products == _fetch_catalog_products(manago)
      workflows == _fetch_workflows(manago, catalogs.counter)
      stats == _fetch_workflow_stats(manago, workflows.items, workflows.counter)
      tags == _fetch_contact_tags(manago, stats.counter)
      email == _fetch_email_global_stats(manago, tags.counter)
      notes == [catalogs |-> catalogs.note, products |-> products.note, workflows |-> workflows.note,
                tags |-> tags.note, email |-> email.note]
  IN [ok |-> TRUE,
      rows |-> [contacts |-> contacts.items, catalogs |-> catalogs.items, products |-> products.items,
                workflows |-> workflows.items, stats |-> stats.items, tags |-> tags.items,
                email |-> email.items,
                transactions |-> _extract_external_events(manago, contacts.items, TRUE),
                events |-> _extract_external_events(manago, contacts.items, FALSE)],
      told |-> {surface \in DOMAIN notes : notes[surface]},
      budget |-> build_manago_rate_budget(email.counter)]

ManagoFetch(manago) ==
  LET owner == _resolve_owner(manago, NoRequests)
      contacts == _fetch_contacts(manago, owner)
      failed(counter) == [ok |-> FALSE, budget |-> build_manago_rate_budget(counter)]
  IN IF owner.owner = None THEN failed(owner.counter)
     ELSE IF ~contacts.ok THEN failed(contacts.counter)
     ELSE WithSurfaces(manago, contacts)

(* FD-04 reads the budget of the health report.                                          *)
budget_has_headroom(budget) ==
  budget # None /\ ~budget.hit_rate_limit
    /\ IF "headroom_ok" \in DOMAIN budget THEN budget.headroom_ok ELSE budget.remaining > 0

---------------------------------------------------------------------------------
(* What the answers of a platform look like.                                            *)

(* Rows, and the headroom its header tells of, which is never negative.                    *)
IsPage(answer) ==
  answer.ok \in BOOLEAN /\ answer.items \in Seq(ToSet(answer.items)) /\ answer.left \in Nat \cup {None}

IsPages(answers) == answers \in Seq(ToSet(answers)) /\ \A k \in DOMAIN answers : IsPage(answers[k])

(* Every request is answered: those of the inventory and of the metafields too.              *)
IsShop(shop) ==
  /\ \A resource \in {"customers", "orders", "products", "open", "closed", "locations"} : IsPages(shop[resource])
  /\ \A k \in DOMAIN Chunks(Items(shop.locations), LocationCap) : IsPage(shop.levels[k])
  /\ \A k \in 1 .. SampleCap : IsPage(shop.metafields[k])

(* A person has an id of their own; only the catalogues and the feed may not be configured.    *)
IsEstate(manago) ==
  /\ manago.from \in Int /\ manago.to \in Int
  /\ IsFiniteSet(manago.people)
  /\ \A c \in manago.people : c.day \in Int
  /\ \A c, d \in manago.people : c.id = d.id => c = d
  /\ None \notin {manago.workflows, manago.tags, manago.email}
  /\ manago.feed = None \/ manago.feed.is \in {"ok", "failed", "throttled", "malformed"}

---------------------------------------------------------------------------------
(* Properties of a fetch.                                                              *)

(* An import that succeeds has all customers and orders of the shop, and every surface of      *)
(* which something is missing is told of in its notes (shopify/client.py:174).              *)
TellsGapsOfShop(shop, f) ==
  LET chunks == Chunks(Items(shop.locations), LocationCap)
      whole(rows, answers) == ~Breaks(answers) /\ rows = Items(answers)
  IN f.ok =>
       /\ whole(f.rows.customers, shop.customers) /\ whole(f.rows.orders, shop.orders)
       /\ "products" \in f.told \/ whole(f.rows.products, shop.products)
       /\ \/ "checkouts" \in f.told
          \/ /\ ~Breaks(shop.open) /\ ~Breaks(shop.closed)
             /\ f.rows.checkouts = Items(shop.open) \o Items(shop.closed)
       /\ "inventory" \in f.told \/ whole(f.rows.inventory, [k \in DOMAIN chunks |-> shop.levels[k]])

ShopifyTellsItsGaps(shop) == TellsGapsOfShop(shop, ShopifyFetch(shop))

(* ... all people of the owner that changed in the window, each once, with all their purchases   *)
(* of it, and notes of what is missing besides.  A feed that cannot be read is the exception:    *)
(* it gives neither products nor a note (manago_ai/client.py:684).                           *)
TellsGapsOfManago(manago, f) ==
  LET people == {c \in manago.people : c.owner = OwnerFrom(manago.config, manago.users.items)
                                        /\ c.day \in manago.from .. manago.to}
      whole(surface) == manago[surface] # None /\ manago[surface].is = "ok" /\ f.rows[surface] = manago[surface].items
  IN f.ok =>
       /\ ToSet(f.rows.contacts) = {c.id : c \in people}
       /\ Len(f.rows.contacts) = Cardinality(people)
       /\ f.rows.transactions \cup f.rows.events
            = {e \in UNION {c.events : c \in people} : e.day \in manago.from .. manago.to}
       /\ \A surface \in {"catalogs", "workflows", "tags", "email"} : surface \in f.told \/ whole(surface)
       /\ "products" \in f.told \/ (manago.feed # None /\ manago.feed.is \in {"ok", "malformed"})

ManagoTellsItsGaps(manago) == TellsGapsOfManago(manago, ManagoFetch(manago))

(* A request of Manago's main interface that is throttled leaves no headroom for FD-04, although   *)
(* the import goes on without the surface (manago_ai/client.py:501).                            *)
ManagoThrottlingIsSeen(manago) ==
  LET f == ManagoFetch(manago)
      asked == {manago.users.is} \cup {manago[s].is : s \in {"workflows", "tags", "email"}}
                 \cup {Outcome(manago.stats, k) : k \in DOMAIN First(f.rows.workflows, StatsCap)}
  IN (f.ok /\ "throttled" \in asked) => ~budget_has_headroom(f.budget)

(* So does a shop whose call limit is spent at any page of a resource that was read whole.        *)
ShopifyThrottlingIsSeen(shop) ==
  LET f == ShopifyFetch(shop)
  IN (f.ok /\ 0 \in Lefts(shop.customers) \cup Lefts(shop.orders)) => ~budget_has_headroom(f.budget)
=================================================================================
