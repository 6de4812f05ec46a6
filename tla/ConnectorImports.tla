----------------------------- MODULE ConnectorImports -----------------------------
(* Imports of the two platforms into the contacts and orders of one company: the fresh   *)
(* imports of a DCS score (dcs/fresh_import.py, dcs/contact_sync.py) and bootstrap         *)
(* imports, both run_import of connectors/import_data.py, and what the score then reads      *)
(* (dcs/snapshot.py, dcs/identity_join.py, dcs/lifecycle_join.py).  Importers share the      *)
(* rows, the snapshots and the Shopify token, while the platforms change, the access token  *)
(* expires and an admin reconnects and disconnects.                                        *)
(*                                                                                        *)
(* What one fetch makes of a platform's answers is PlatformClients; here it is judged in     *)
(* behaviours of its own (`answers'), in which no importer works.                          *)
(* A platform shows a view: the people changed and the orders created in the window.  What   *)
(* a run's row, its claim and its superseding do is in DcsRuns and ConnectorBootstrap.       *)
EXTENDS PlatformClients

CONSTANTS
  Importers,   \* Celery worker slots
  Views,       \* what each platform may show: [Platforms -> sets of views]
  Attempts,    \* requests for one refresh (_REFRESH_RETRY_ATTEMPTS)
  MaxImports,  \* bound on scores and bootstraps started
  MaxMoves,    \* bound on what happens outside the imports
  MaxFaults,   \* bound on faults
  Answers      \* how each platform may answer one fetch: [Platforms -> sets of answers]

ASSUME ImportsAssumption == Attempts \in Nat \ {0} /\ MaxImports \in Nat /\ MaxMoves \in Nat /\ MaxFaults \in Nat

PersonType == [id : STRING, email : STRING, phone : STRING, link : STRING]
OrderType ==
  [id : STRING, buyer : STRING, email : STRING, status : STRING, cancelled : BOOLEAN, test : BOOLEAN]

(* A platform shows an order once.                                                        *)
OnceEach(ordered) == \A o1, o2 \in ordered : o1.id = o2.id => o1 = o2

ASSUME ViewsAssumption ==
  \A p \in {"shopify", "manago_ai"} : \A v \in Views[p] :
    v \in [people : SUBSET PersonType, orders : SUBSET OrderType] /\ OnceEach(v.orders)

ASSUME AnswersAssumption ==
  (\A shop \in Answers["shopify"] : IsShop(shop)) /\ \A manago \in Answers["manago_ai"] : IsEstate(manago)

VARIABLES
  shown,      \* what each platform shows now
  connector,  \* the connector of each platform: its row (0: none), its status, its newest snapshots
  token,      \* Shopify refresh token: the one that is good, the one stored, whether access expired,
              \* and (history) whether the answer to a refresh was ever lost
  contacts,   \* Contact rows of each platform, by external id
  orders,     \* Order rows of each platform, by external id
  importer,   \* what each slot works on
  left,       \* imports, moves and faults that the bounds leave
  answers     \* the answers of a platform to one fetch, or None: importers are at work

importVars == <<shown, connector, token, contacts, orders, importer, left, answers>>

Platforms == {"shopify", "manago_ai"}

---------------------------------------------------------------------------------
(* Rows of a person and of an order, with "" for what is absent.                             *)

(* status_map of the connectors; a status it does not list stays as it came.                *)
apply_status_map(status) ==
  IF status \in {"paid", "partially_paid", "PURCHASE"} THEN "paid"
  ELSE IF status \in {"refunded", "partially_refunded"} THEN "refunded"
  ELSE IF status \in {"voided", "pending", "CANCELLED"} THEN "failed"
  ELSE status

(* The contact an order is bound to: its buyer, or on Shopify the guest of its address.     *)
BoundTo(p, o) ==
  IF o.buyer # "" THEN o.buyer
  ELSE IF p = "shopify" /\ o.email # "" THEN "email:" \o o.email ELSE ""

IdsOf(people) == {c.id : c \in people}

(* mutant: only guests get a contact of their own *)
MutantWithOrderContacts(p, people, ordered) ==
  LET missing == {BoundTo(p, o) : o \in {x \in ordered : x.buyer = ""}} \ (IdsOf(people) \cup {""})
  IN people \cup {[id |-> i, email |-> (CHOOSE o \in ordered : BoundTo(p, o) = i).email, phone |-> "", link |-> ""] : i \in missing}

(* Contacts that only orders name are made up from the first such order.                    *)
WithOrderContacts(p, people, ordered) ==
  LET missing == {BoundTo(p, o) : o \in ordered} \ (IdsOf(people) \cup {""})
  IN people \cup {[id |-> i, email |-> (CHOOSE o \in ordered : BoundTo(p, o) = i).email, phone |-> "", link |-> ""] : i \in missing}

UpsertContacts(rows, people) ==
  [i \in DOMAIN rows \cup IdsOf(people) |->
     IF i \in IdsOf(people)
     THEN LET c == CHOOSE x \in people : x.id = i
          IN [email |-> c.email, phone |-> c.phone, link |-> c.link, excluded |-> FALSE]
     ELSE rows[i]]

(* By id, else by an address: the contacts of an order, of which the first is taken.         *)
HoldersOf(p, o, rows) ==
  LET id == BoundTo(p, o)
      named == {i \in DOMAIN rows : rows[i].email = id}
  IN IF id = "" THEN {}
     ELSE IF id \in DOMAIN rows THEN {id}
     ELSE IF named # {} THEN named
     ELSE {i \in DOMAIN rows : o.email # "" /\ rows[i].email = o.email}

UpsertOrders(p, rows, ordered, people) ==
  LET kept == {o \in ordered : HoldersOf(p, o, people) # {}}
  IN [i \in DOMAIN rows \cup IdsOf(kept) |->
        IF i \in IdsOf(kept)
        THEN LET o == CHOOSE x \in kept : x.id = i
             IN [contact |-> CHOOSE h \in HoldersOf(p, o, people) : TRUE,
                 status |-> apply_status_map(o.status)]
        ELSE rows[i]]

(* sync_contacts_to_snapshot: what is not in the pin is tombstoned, what is back restored.   *)
(* mutant: a pin without people is taken for one that could not be loaded *)
Mutant_sync_contacts_to_snapshot(rows, live) ==
  IF live = {} THEN rows ELSE [i \in DOMAIN rows |-> [rows[i] EXCEPT !.excluded = i \notin live]]

sync_contacts_to_snapshot(rows, live) ==
  [i \in DOMAIN rows |-> [rows[i] EXCEPT !.excluded = i \notin live]]

---------------------------------------------------------------------------------
(* Snapshots.  An import that succeeds keeps what it fetched, one that fails an empty raw,    *)
(* and a token refresh the connector's settings, without a raw.                             *)

Fetched(people, ordered) == [kind |-> "fetched", people |-> people, orders |-> ordered]
Empty == [kind |-> "empty", people |-> {}, orders |-> {}]
Settings == [kind |-> "settings", people |-> {}, orders |-> {}]

(* The version is the maximum read plus one, without a lock: two may be given the same.      *)
AddSnapshot(c, version, snap) ==
  IF version > c.version THEN [c EXCEPT !.version = version, !.newest = {snap}]
  ELSE IF version = c.version THEN [c EXCEPT !.newest = @ \cup {snap}] ELSE c

(* mutant: the newest snapshots of the connector, whoever imported them *)
Mutant_snapshot_data_for_platform(c, pin) == c.newest

(* The pinned snapshot, when its connector is still there; else one of the newest.           *)
_snapshot_data_for_platform(c, pin) ==
  IF pin # None /\ pin.row = c.row THEN {pin.snap} ELSE c.newest

(* Whose contacts CI-* judge: the snapshot's, empty or not; else the live rows.              *)
_load_platform_contacts(snaps, rows) ==
  IF snaps = {} THEN {{i \in DOMAIN rows : ~rows[i].excluded}}
  ELSE {IF s.kind = "settings" THEN {i \in DOMAIN rows : ~rows[i].excluded} ELSE IdsOf(s.people) : s \in snaps}

(* The orders LE-* take for paid: those of the raw payload, without test and cancelled ones. *)
_shopify_orders_from_raw(ordered) ==
  {o.id : o \in {x \in ordered : x.status \in {"paid", "partially_paid"} /\ ~x.cancelled /\ ~x.test}}

(* Manago's purchases of the payload, whatever becomes of their contacts.                    *)
_manago_purchases_from_raw(ordered) == {o.id : o \in {x \in ordered : x.status \in {"PURCHASE", "TRANSACTION"}}}

(* Without orders in the payload they are those of all rows.                                *)
_shopify_orders_from_db(rows) == {i \in DOMAIN rows : rows[i].status = "paid"}
_manago_purchases_from_db(rows, people) ==
  {i \in DOMAIN rows : rows[i].status = "paid" /\ ~people[rows[i].contact].excluded}

Purchases(p, s) ==
  IF s.orders = {}
  THEN IF p = "shopify" THEN _shopify_orders_from_db(orders[p]) ELSE _manago_purchases_from_db(orders[p], contacts[p])
  ELSE IF p = "shopify" THEN _shopify_orders_from_raw(s.orders) ELSE _manago_purchases_from_raw(s.orders)

---------------------------------------------------------------------------------
(* Importers                                                                           *)

Away ==
  [kind |-> "none", pc |-> "idle", todo |-> <<>>, row |-> 0, token |-> 0, attempt |-> 0, people |-> {}, orders |-> {},
   version |-> 0, pins |-> [p \in Platforms |-> None], alone |-> FALSE,
   judged |-> [p \in Platforms |-> None]]

Init ==
  /\ shown \in {s \in [Platforms -> UNION {Views[p] : p \in Platforms}] : \A p \in Platforms : s[p] \in Views[p]}
  /\ connector = [p \in Platforms |-> [row |-> 1, status |-> "connected", version |-> 0, newest |-> {}]]
  /\ token = [good |-> 1, stored |-> 1, expired |-> FALSE, lost |-> FALSE]
  /\ contacts = [p \in Platforms |-> <<>>]
  /\ orders = [p \in Platforms |-> <<>>]
  /\ importer = [i \in Importers |-> Away]
  /\ \/ answers = None /\ left = [imports |-> MaxImports, moves |-> MaxMoves, faults |-> MaxFaults]
     \/ /\ \E p \in Platforms : \E a \in Answers[p] : answers = [platform |-> p, given |-> a]
        /\ left = [imports |-> 0, moves |-> 0, faults |-> 0]

IsConnected(p) == connector[p].row # 0 /\ connector[p].status = "connected"
At(i, pc) == importer[i].pc = pc
Platform(i) == Head(importer[i].todo)
Becomes(i, r) == importer' = [importer EXCEPT ![i] = r]
Goes(i, pc) == Becomes(i, [importer[i] EXCEPT !.pc = pc])
Faults == left.faults > 0 /\ left' = [left EXCEPT !.faults = @ - 1]

(* An importer is alone (a history variable) when no other has worked since it started.      *)
StartAs(i, r) ==
  importer' = [j \in Importers |->
    IF j = i THEN [r EXCEPT !.alone = \A k \in Importers \ {i} : importer[k].pc = "idle"]
    ELSE [importer[j] EXCEPT !.alone = FALSE]]

(* Shopify first.                                                                         *)
_connected_connectors ==
  IF ~IsConnected("shopify") THEN IF IsConnected("manago_ai") THEN <<"manago_ai">> ELSE <<>>
  ELSE IF IsConnected("manago_ai") THEN <<"shopify", "manago_ai">> ELSE <<"shopify">>

StartScore(i) ==
  LET todo == _connected_connectors
  IN /\ At(i, "idle") /\ left.imports > 0
     /\ left' = [left EXCEPT !.imports = @ - 1]
     /\ StartAs(i, [Away EXCEPT !.kind = "score", !.pc = IF todo = <<>> THEN "covered" ELSE "token",
                                !.todo = todo, !.token = token.stored])
     /\ UNCHANGED <<shown, connector, token, contacts, orders>>

StartBootstrap(i, p) ==
  /\ At(i, "idle") /\ left.imports > 0 /\ IsConnected(p)
  /\ left' = [left EXCEPT !.imports = @ - 1]
  /\ StartAs(i, [Away EXCEPT !.kind = "bootstrap", !.pc = "token", !.todo = <<p>>, !.token = token.stored])
  /\ UNCHANGED <<shown, connector, token, contacts, orders>>

(* ensure_fresh_shopify_token holds a lock on the connector's row while it asks Shopify: who   *)
(* writes the row, or a snapshot of it, waits.                                            *)
Locked(p) == p = "shopify" /\ \E i \in Importers : importer[i].pc = "refresh"

EnsureToken(i) ==
  LET p == Platform(i)
  IN /\ At(i, "token") /\ ~Locked(p)
     /\ Becomes(i, IF p = "shopify" /\ connector[p].row = 0 THEN [importer[i] EXCEPT !.pc = "failed"]
                   ELSE IF p = "shopify" /\ token.expired THEN [importer[i] EXCEPT !.pc = "refresh", !.attempt = 1]
                   ELSE [importer[i] EXCEPT !.pc = "people", !.token = 0])
     /\ UNCHANGED <<shown, connector, token, contacts, orders, left>>

(* mutant: the token of the row that was read when the importer started *)
MutantRefreshToken(i) == importer[i].token

RefreshToken(i) == token.stored

(* The good token is traded for the next one; another one is answered with 401, inactive.     *)
refresh_offline_access_token(i) ==
  /\ At(i, "refresh")
  /\ IF RefreshToken(i) # token.good
     THEN Goes(i, "expired") /\ UNCHANGED <<connector, token>>
     ELSE /\ Becomes(i, [importer[i] EXCEPT !.pc = "people", !.token = 0, !.attempt = 0])
          /\ token' = [token EXCEPT !.good = @ + 1, !.stored = token.good + 1, !.expired = FALSE]
          /\ connector' = [connector EXCEPT !["shopify"] = AddSnapshot(@, @.version + 1, Settings)]
  /\ UNCHANGED <<shown, contacts, orders, left>>

(* A busy shop or a timeout is asked again with the same token, a few times; the last failure  *)
(* fails the import and leaves the connector's status as it is.                            *)
_post_form_with_retry(i) ==
  /\ At(i, "refresh")
  /\ Faults
  /\ \/ UNCHANGED token
     \/ RefreshToken(i) = token.good /\ token' = [token EXCEPT !.good = @ + 1, !.lost = TRUE]
  /\ Becomes(i, IF importer[i].attempt < Attempts THEN [importer[i] EXCEPT !.attempt = @ + 1]
                ELSE [importer[i] EXCEPT !.pc = "failed"])
  /\ UNCHANGED <<shown, connector, contacts, orders>>

(* mark_shopify_auth_expired, in a transaction of its own.                                 *)
MarkExpired(i) ==
  /\ At(i, "expired") /\ ~Locked("shopify")
  /\ Goes(i, "failed")
  /\ connector' = IF connector["shopify"].row = 0 THEN connector ELSE [connector EXCEPT !["shopify"].status = "error"]
  /\ UNCHANGED <<shown, token, contacts, orders, left>>

(* run_import reads the connector's row, whatever its status, and fetches: first the        *)
(* customers, or the ids of the contacts that changed, ...                                *)
FetchPeople(i) ==
  /\ At(i, "people")
  /\ Becomes(i, IF connector[Platform(i)].row = 0 THEN [importer[i] EXCEPT !.pc = "failed"]
                ELSE [importer[i] EXCEPT !.pc = "orders", !.row = connector[Platform(i)].row,
                                         !.people = shown[Platform(i)].people])
  /\ UNCHANGED <<shown, connector, token, contacts, orders, left>>

(* ... then the orders, or the contacts by id, with the purchases among their events.        *)
FetchOrders(i) ==
  LET p == Platform(i)
      now == shown[p]
      bodies == {c \in now.people : c.id \in IdsOf(importer[i].people)}
  IN /\ At(i, "orders")
     /\ Becomes(i, [importer[i] EXCEPT !.pc = "version",
                      !.people = IF p = "shopify" THEN @ ELSE bodies,
                      !.orders = IF p = "shopify" THEN now.orders
                                 ELSE {o \in now.orders : o.buyer \in IdsOf(bodies)}])
     /\ UNCHANGED <<shown, connector, token, contacts, orders, left>>

FetchFails(i) ==
  /\ At(i, "people") \/ At(i, "orders")
  /\ Faults
  /\ Goes(i, "failing")
  /\ UNCHANGED <<shown, connector, token, contacts, orders>>

(* One transaction reads the version, writes contacts, orders and metrics, and the snapshot.  *)
ReadVersion(i) ==
  /\ At(i, "version")
  /\ Becomes(i, [importer[i] EXCEPT !.pc = "commit", !.version = connector[Platform(i)].version + 1])
  /\ UNCHANGED <<shown, connector, token, contacts, orders, left>>

(* The snapshot refers to the row that was read: without it all is undone.                  *)
Commit(i) ==
  LET p == Platform(i)
      r == importer[i]
      people == UpsertContacts(contacts[p], WithOrderContacts(p, r.people, r.orders))
      snap == Fetched(r.people, r.orders)
  IN /\ At(i, "commit") /\ ~Locked(p)
     /\ IF connector[p].row # r.row
        THEN Goes(i, "failed") /\ UNCHANGED <<connector, contacts, orders>>
        ELSE /\ contacts' = [contacts EXCEPT ![p] = people]
             /\ orders' = [orders EXCEPT ![p] = UpsertOrders(p, orders[p], r.orders, people)]
             /\ connector' = [connector EXCEPT ![p] = AddSnapshot(@, r.version, snap)]
             /\ Becomes(i, IF r.kind = "score"
                           THEN [r EXCEPT !.pc = "sync", !.pins[p] = [row |-> r.row, snap |-> snap]]
                           ELSE Away)
     /\ UNCHANGED <<shown, token, left>>

(* The failure snapshot is the newest one then, with an empty payload.                      *)
FailImport(i) ==
  LET p == Platform(i)
  IN /\ At(i, "failing") /\ ~Locked(p)
     /\ Goes(i, "failed")
     /\ connector' = IF connector[p].row # importer[i].row THEN connector
                     ELSE [connector EXCEPT ![p] = AddSnapshot(@, @.version + 1, Empty)]
     /\ UNCHANGED <<shown, token, contacts, orders, left>>

(* DcsFreshImportError fails the score, as it fails a bootstrap.                           *)
GiveUp(i) ==
  /\ At(i, "failed")
  /\ Becomes(i, Away)
  /\ UNCHANGED <<shown, connector, token, contacts, orders, left>>

(* The health report, then the sync with the snapshot of this import, if it can be loaded.   *)
Sync(i) ==
  LET p == Platform(i)
      r == importer[i]
  IN /\ At(i, "sync")
     /\ contacts' = IF connector[p].row # r.row THEN contacts
                    ELSE [contacts EXCEPT ![p] = sync_contacts_to_snapshot(@, IdsOf(r.people))]
     /\ Becomes(i, [r EXCEPT !.todo = Tail(@), !.pc = IF Len(r.todo) > 1 THEN "token" ELSE "covered",
                             !.people = {}, !.orders = {}, !.version = 0, !.row = 0])
     /\ UNCHANGED <<shown, connector, token, orders, left>>

(* assert_fresh_imports_cover_connected                                                  *)
IsCovered(i) == \A p \in Platforms : IsConnected(p) => importer[i].pins[p] # None

AssertCovered(i) ==
  /\ At(i, "covered")
  /\ Goes(i, IF IsCovered(i) THEN "freeze" ELSE "failed")
  /\ UNCHANGED <<shown, connector, token, contacts, orders, left>>

(* build_dcs_run_snapshot, one platform after the other.                                  *)
Judged(i, p) ==
  LET snaps == _snapshot_data_for_platform(connector[p], importer[i].pins[p])
  IN {[row |-> connector[p].row, people |-> c, purchases |-> o] :
        c \in _load_platform_contacts(snaps, contacts[p]),
        o \in {Purchases(p, s) : s \in IF snaps = {} THEN {Empty} ELSE snaps}}

Freeze(i, p) ==
  /\ At(i, "freeze")
  /\ p = IF importer[i].judged["shopify"] = None THEN "shopify" ELSE "manago_ai"
  /\ \E judged \in Judged(i, p) :
       Becomes(i, [importer[i] EXCEPT !.judged[p] = judged, !.pc = IF p = "shopify" THEN "freeze" ELSE "frozen"])
  /\ UNCHANGED <<shown, connector, token, contacts, orders, left>>

Finish(i) ==
  /\ At(i, "frozen")
  /\ Becomes(i, Away)
  /\ UNCHANGED <<shown, connector, token, contacts, orders, left>>

Kill(i) ==
  /\ importer[i].pc \notin {"idle", "frozen"}
  /\ Faults
  /\ Becomes(i, Away)
  /\ UNCHANGED <<shown, connector, token, contacts, orders>>

---------------------------------------------------------------------------------
(* Outside the imports                                                                 *)

Moves == left.moves > 0 /\ left' = [left EXCEPT !.moves = @ - 1]

PlatformChanges(p) ==
  /\ Moves
  /\ \E view \in Views[p] \ {shown[p]} : shown' = [shown EXCEPT ![p] = view]
  /\ UNCHANGED <<connector, token, contacts, orders, importer>>

TokenExpires ==
  /\ Moves
  /\ ~token.expired
  /\ token' = [token EXCEPT !.expired = TRUE]
  /\ UNCHANGED <<shown, connector, contacts, orders, importer>>

(* The callback of a Shopify connect, or a Manago connect: a row that is there is updated.    *)
Connect(p) ==
  /\ Moves /\ ~Locked(p)
  /\ connector' = [connector EXCEPT ![p] =
       LET c == IF @.row # 0 THEN [@ EXCEPT !.status = "connected"]
                ELSE [row |-> left.moves + 1, status |-> "connected", version |-> 0, newest |-> {}]
       IN AddSnapshot(c, c.version + 1, Settings)]
  /\ token' = IF p = "shopify" THEN [token EXCEPT !.good = @ + 1, !.stored = token.good + 1, !.expired = FALSE] ELSE token
  /\ UNCHANGED <<shown, contacts, orders, importer>>

(* The row goes, and its snapshots with it.                                              *)
Disconnect(p) ==
  /\ Moves /\ ~Locked(p)
  /\ connector[p].row # 0
  /\ connector' = [connector EXCEPT ![p] = [row |-> 0, status |-> "none", version |-> 0, newest |-> {}]]
  /\ UNCHANGED <<shown, token, contacts, orders, importer>>

Work ==
  \/ \E i \in Importers :
       \/ StartScore(i) \/ EnsureToken(i) \/ refresh_offline_access_token(i) \/ _post_form_with_retry(i) \/ MarkExpired(i) \/ FetchPeople(i)
       \/ FetchOrders(i) \/ FetchFails(i) \/ ReadVersion(i) \/ Commit(i) \/ FailImport(i) \/ GiveUp(i)
       \/ Sync(i) \/ AssertCovered(i) \/ Finish(i) \/ Kill(i)
       \/ \E p \in Platforms : StartBootstrap(i, p) \/ Freeze(i, p)
  \/ TokenExpires
  \/ \E p \in Platforms : PlatformChanges(p) \/ Connect(p) \/ Disconnect(p)

Next == Work /\ UNCHANGED answers

ImportsSpec == Init /\ [][Next]_importVars

---------------------------------------------------------------------------------
(* Properties                                                                          *)

Scored(i) == importer[i].kind = "score"

(* No purchase of a pin is lost on the way to the rows: an order whose customer or guest is    *)
(* known is there, of a contact that is there, and of its own buyer when no other importer     *)
(* has worked meanwhile - although the customer may not be among the customers fetched         *)
(* (import_data.py, _with_shopify_order_contacts).                                          *)
OrdersReachTheirBuyer ==
  \A i \in Importers : \A p \in Platforms :
    importer[i].pins[p] # None =>
      \A o \in importer[i].pins[p].snap.orders :
        BoundTo(p, o) # "" =>
          /\ o.id \in DOMAIN orders[p]
          /\ orders[p][o.id].contact \in DOMAIN contacts[p]
          /\ importer[i].alone => orders[p][o.id].contact = BoundTo(p, o)

(* Two scores at once, and a bootstrap among them, do not mix what they judge: as long as the  *)
(* connector is the one imported, a score judges the people, and the purchases if there are    *)
(* any, of its own import, whatever is imported since (pins.py, identity_join.py,              *)
(* lifecycle_join.py).                                                                  *)
UniverseIsItsOwn ==
  \A i \in Importers : \A p \in Platforms :
    LET r == importer[i]
    IN (r.judged[p] # None /\ r.pins[p] # None /\ r.judged[p].row = r.pins[p].row) =>
         /\ r.judged[p].people = IdsOf(r.pins[p].snap.people)
         /\ r.pins[p].snap.orders # {} =>
              r.judged[p].purchases \subseteq IdsOf(r.pins[p].snap.orders)

(* The contacts a score judges are the live rows that its worklists and write-backs will take,  *)
(* as long as no other importer works: the sync of the rows with the pin and the reading of     *)
(* the pin agree, also when the platform has lost all its people (contact_sync.py).           *)
JudgedAreLive ==
  \A i \in Importers : \A p \in Platforms :
    (importer[i].judged[p] # None /\ importer[i].pins[p] # None /\ importer[i].alone) =>
      importer[i].judged[p].people = {c \in DOMAIN contacts[p] : ~contacts[p][c].excluded}

(* Importers that find the access token expired at the same time do not spend each other's       *)
(* refresh token: as long as no answer to a refresh is lost, the stored one is good, and the     *)
(* connector is not marked as in error (shopify_token.py, the lock and the row read under it).  *)
TokenStaysAlive ==
  ~token.lost => token.stored = token.good /\ connector["shopify"].status # "error"

(* An import that succeeds is whole, what it lacks is told, and so is that a platform throttled  *)
(* it: the properties of one fetch in PlatformClients, for every way its requests may be answered. *)
ImportTellsItsGaps ==
  answers # None =>
    IF answers.platform = "shopify"
    THEN ShopifyTellsItsGaps(answers.given) /\ ShopifyThrottlingIsSeen(answers.given)
    ELSE ManagoTellsItsGaps(answers.given) /\ ManagoThrottlingIsSeen(answers.given)
=================================================================================
