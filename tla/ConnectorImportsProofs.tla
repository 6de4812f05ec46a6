-------------------------- MODULE ConnectorImportsProofs --------------------------
(* Proofs about ConnectorImports, for any number of importers, any views of the         *)
(* platforms that show an order once, and any bounds.                                   *)
EXTENDS ConnectorImports, FiniteSetTheorems, NaturalsInduction, TLAPS

---------------------------------------------------------------------------------
(* The invariant                                                                      *)

(* Strings (that a literal is one has to be said for the provers), and the ids of guests.  *)
Text == STRING \cup {""}
Ids == Text \cup {"email:" \o e : e \in STRING}

SnapType ==
  [kind : {"fetched", "empty", "settings"}, people : SUBSET PersonType, orders : SUBSET OrderType]
RowType == [email : Text, phone : Text, link : Text, excluded : BOOLEAN]
PinType == [row : Nat, snap : SnapType]
JudgedType == [row : Nat, people : SUBSET Ids, purchases : SUBSET STRING]

Working == {"token", "refresh", "people", "orders", "version", "commit", "sync", "failing"}

ImporterType ==
  [kind : {"none", "score", "bootstrap"},
   pc : Working \cup {"idle", "expired", "failed", "covered", "freeze", "frozen"},
   todo : Seq(Platforms), row : Nat, token : Nat, attempt : Nat,
   people : SUBSET PersonType, orders : SUBSET OrderType, version : Nat,
   pins : [Platforms -> PinType \cup {None}], alone : BOOLEAN,
   judged : [Platforms -> JudgedType \cup {None}]]

ConnectorType ==
  [row : Nat, status : {"connected", "error", "none"}, version : Nat, newest : SUBSET SnapType]

TokenType == [good : Nat, stored : Nat, expired : BOOLEAN, lost : BOOLEAN]
LeftType == [imports : Nat, moves : Nat, faults : Nat]

ImportsTypeOK ==
  /\ shown \in [Platforms -> [people : SUBSET PersonType, orders : SUBSET OrderType]]
  /\ connector \in [Platforms -> ConnectorType]
  /\ token \in TokenType
  /\ importer \in [Importers -> ImporterType]
  /\ left \in LeftType

RowsTypeOK ==
  /\ DOMAIN contacts = Platforms /\ DOMAIN orders = Platforms
  /\ \A p \in Platforms :
       /\ DOMAIN contacts[p] \subseteq Ids /\ DOMAIN orders[p] \subseteq STRING
       /\ \A c \in DOMAIN contacts[p] :
            contacts[p][c] \in RowType
       /\ \A o \in DOMAIN orders[p] : orders[p][o].contact \in DOMAIN contacts[p]

(* Orders come from one view, so each is there once.                                    *)
OrdersOnce ==
  /\ \A p \in Platforms : OnceEach(shown[p].orders)
  /\ \A i \in Importers : OnceEach(importer[i].orders)

(* What an importer has at the places of its work: a platform, a finished import of it, pins that *)
(* are fetched snapshots of connectors there were, and judgements only when it freezes.         *)
Has(r) ==
  /\ r.pc \in Working => r.todo # <<>>
  /\ r.pc \in {"orders", "version", "commit"} => r.row # 0
  /\ (r.pc = "sync" /\ r.pins[Head(r.todo)] # None) =>
       r.pins[Head(r.todo)].row = r.row /\ r.pins[Head(r.todo)].snap.people = r.people
  /\ \A p \in Platforms : r.pins[p] # None => r.pins[p].row # 0 /\ r.pins[p].snap.kind = "fetched"
  /\ \A p \in Platforms : r.judged[p] # None => r.pc \in {"freeze", "frozen"}

InHand == \A i \in Importers : Has(importer[i])

(* The people of an import are rows before they are synced.                             *)
PeopleAreThere ==
  \A i \in Importers :
    importer[i].pc = "sync" => IdsOf(importer[i].people) \subseteq DOMAIN contacts[Platform(i)]

(* A row that was seen is the first, or was made by a move; one to come is another.             *)
WasRow(n, moves) == n <= 1 \/ n >= moves + 2

RowsWere ==
  /\ \A p \in Platforms : WasRow(connector[p].row, left.moves)
  /\ \A i \in Importers : WasRow(importer[i].row, left.moves)
  /\ \A i \in Importers : \A p \in Platforms :
       importer[i].pins[p] # None => WasRow(importer[i].pins[p].row, left.moves)

AloneIsAlone ==
  \A i \in Importers : importer[i].alone => \A k \in Importers \ {i} : importer[k].pc = "idle"

(* Nobody is on the way to mark the connector unless an answer was lost.                      *)
NobodyExpires == ~token.lost => \A i \in Importers : importer[i].pc # "expired"

Live(p) == {c \in DOMAIN contacts[p] : ~contacts[p][c].excluded}

(* Where an importer that is alone has imported, its pin tells the live rows once it has synced,  *)
(* unless the connector went; then the newest snapshots of the connector have no people.        *)
PinsAreLive ==
  \A i \in Importers : \A p \in Platforms :
    LET r == importer[i]
    IN (r.alone /\ r.pins[p] # None) =>
         IF connector[p].row = r.pins[p].row
         THEN (r.pc = "sync" /\ Platform(i) = p) \/ Live(p) = IdsOf(r.pins[p].snap.people)
         ELSE r.pc = "failed" \/ \A s \in connector[p].newest : s.kind = "settings"

IInv ==
  /\ ImportsTypeOK /\ RowsTypeOK /\ OrdersOnce /\ InHand /\ PeopleAreThere /\ RowsWere
  /\ AloneIsAlone /\ TokenStaysAlive /\ NobodyExpires /\ PinsAreLive
  /\ OrdersReachTheirBuyer /\ UniverseIsItsOwn /\ JudgedAreLive

---------------------------------------------------------------------------------
(* What the provers need to know of the state                                         *)

LEMMA Types ==
  ASSUME IInv
  PROVE  /\ \A i \in Importers : importer[i] \in ImporterType
         /\ \A p \in Platforms :
              /\ connector[p] \in ConnectorType
              /\ shown[p] \in [people : SUBSET PersonType, orders : SUBSET OrderType]
         /\ token \in TokenType
         /\ left \in LeftType
  BY DEF IInv, ImportsTypeOK

LEMMA Heads ==
  ASSUME IInv, NEW i \in Importers, importer[i].pc \in Working
  PROVE  Platform(i) \in Platforms
<1>1. importer[i].todo \in Seq(Platforms) /\ importer[i].todo # <<>>
  BY Types DEF ImporterType, IInv, InHand, Has
<1> QED
  BY <1>1 DEF Platform

LEMMA AwayType ==
  /\ Away \in ImporterType /\ Away.pc = "idle" /\ ~Away.alone /\ Away.orders = {} /\ Away.row = 0
  /\ \A p \in Platforms : Away.pins[p] = None /\ Away.judged[p] = None
<1>1. <<>> \in Seq(Platforms)
  OBVIOUS
<1>2. [p \in Platforms |-> None] \in [Platforms -> PinType \cup {None}]
  OBVIOUS
<1>3. [p \in Platforms |-> None] \in [Platforms -> JudgedType \cup {None}]
  OBVIOUS
<1> QED
  BY <1>1, <1>2, <1>3 DEF Away, ImporterType

(* What pins and judgements tell stays true as long as they and the rows stay.              *)
LEMMA ReachStays ==
  ASSUME OrdersReachTheirBuyer, contacts' = contacts, orders' = orders,
         \A k \in Importers : \A p \in Platforms :
           importer'[k].pins[p] # None =>
             importer'[k].pins[p] = importer[k].pins[p] /\ (importer'[k].alone => importer[k].alone)
  PROVE  OrdersReachTheirBuyer'
<1> SUFFICES ASSUME NEW k \in Importers, NEW p \in Platforms, importer'[k].pins[p] # None,
                    NEW o \in importer'[k].pins[p].snap.orders, BoundTo(p, o) # ""
             PROVE  /\ o.id \in DOMAIN orders[p]
                    /\ orders[p][o.id].contact \in DOMAIN contacts[p]
                    /\ importer'[k].alone => orders[p][o.id].contact = BoundTo(p, o)
  BY Zenon DEF OrdersReachTheirBuyer
<1>1. importer[k].pins[p] # None /\ o \in importer[k].pins[p].snap.orders
      /\ (importer'[k].alone => importer[k].alone)
  OBVIOUS
<1> QED
  BY <1>1 DEF OrdersReachTheirBuyer

LEMMA JudgementsStay ==
  ASSUME UniverseIsItsOwn, JudgedAreLive, contacts' = contacts,
         \A k \in Importers : \A p \in Platforms :
           (importer'[k].judged[p] # None /\ importer'[k].pins[p] # None) =>
             /\ importer'[k].judged[p] = importer[k].judged[p]
             /\ importer'[k].pins[p] = importer[k].pins[p]
             /\ importer'[k].alone => importer[k].alone
  PROVE  UniverseIsItsOwn' /\ JudgedAreLive'
<1>1. UniverseIsItsOwn'
  <2> SUFFICES ASSUME NEW k \in Importers, NEW p \in Platforms,
                      importer'[k].judged[p] # None, importer'[k].pins[p] # None,
                      importer'[k].judged[p].row = importer'[k].pins[p].row
               PROVE  /\ importer'[k].judged[p].people = IdsOf(importer'[k].pins[p].snap.people)
                      /\ importer'[k].pins[p].snap.orders # {} =>
                           importer'[k].judged[p].purchases \subseteq IdsOf(importer'[k].pins[p].snap.orders)
    BY Zenon DEF UniverseIsItsOwn
  <2>1. importer'[k].judged[p] = importer[k].judged[p] /\ importer'[k].pins[p] = importer[k].pins[p]
    OBVIOUS
  <2>2. /\ importer[k].judged[p] # None /\ importer[k].pins[p] # None
        /\ importer[k].judged[p].row = importer[k].pins[p].row
    BY <2>1
  <2>3. /\ importer[k].judged[p].people = IdsOf(importer[k].pins[p].snap.people)
        /\ importer[k].pins[p].snap.orders # {} =>
             importer[k].judged[p].purchases \subseteq IdsOf(importer[k].pins[p].snap.orders)
    BY <2>2 DEF UniverseIsItsOwn
  <2> QED
    BY <2>1, <2>3
<1>2. JudgedAreLive'
  <2> SUFFICES ASSUME NEW k \in Importers, NEW p \in Platforms, importer'[k].alone,
                      importer'[k].judged[p] # None, importer'[k].pins[p] # None
               PROVE  importer'[k].judged[p].people
                        = {c \in DOMAIN contacts'[p] : ~contacts'[p][c].excluded}
    BY Zenon DEF JudgedAreLive
  <2> QED
    BY DEF JudgedAreLive
<1> QED
  BY <1>1, <1>2

(* A step of importer i from work to work, in which rows stay, pins stay, and the newest     *)
(* snapshots of a connector stay, or become settings, or the importer has failed.          *)
LEMMA KeepStep ==
  ASSUME IInv, NEW i \in Importers, NEW rec \in ImporterType,
         importer' = [importer EXCEPT ![i] = rec],
         rec.pins = importer[i].pins, rec.judged = importer[i].judged, rec.alone = importer[i].alone,
         importer[i].pc \notin {"idle", "sync", "freeze", "frozen"},
         rec.pc \notin {"idle", "sync", "frozen"},
         rec.pc \in Working => rec.todo # <<>>,
         rec.pc \in {"orders", "version", "commit"} => rec.row # 0,
         WasRow(rec.row, left.moves), OnceEach(rec.orders),
         importer[i].pc = "failed" => rec.pc = "failed",
         UNCHANGED <<shown, contacts, orders>>,
         connector' \in [Platforms -> ConnectorType],
         \A p \in Platforms :
           /\ connector'[p].row = connector[p].row
           /\ \/ connector'[p].newest = connector[p].newest
              \/ \A s \in connector'[p].newest : s.kind = "settings"
              \/ rec.pc = "failed",
         token' \in TokenType,
         TokenStaysAlive', ~token.lost' => ~token.lost /\ rec.pc # "expired",
         left' \in LeftType, left'.moves = left.moves
  PROVE  IInv'
<1>1. /\ importer' \in [Importers -> ImporterType] /\ importer'[i] = rec
      /\ \A k \in Importers \ {i} : importer'[k] = importer[k] /\ ~importer[k].alone
      /\ contacts' = contacts /\ orders' = orders /\ shown' = shown
  BY DEF IInv, ImportsTypeOK, AloneIsAlone
<1>2. ImportsTypeOK' /\ RowsTypeOK' /\ OrdersOnce'
  BY <1>1 DEF IInv, ImportsTypeOK, RowsTypeOK, OrdersOnce
<1>3. InHand'
  <2>1. Has(importer[i]) /\ importer[i].pc \notin {"freeze", "frozen"}
    BY DEF IInv, InHand
  <2>2. Has(rec)
    BY <2>1 DEF Has
  <2> QED
    BY <1>1, <2>2 DEF IInv, InHand
<1>4. PeopleAreThere'
  BY <1>1 DEF IInv, PeopleAreThere, Platform
<1>5. RowsWere'
  BY <1>1 DEF IInv, RowsWere, WasRow
<1>6. AloneIsAlone' /\ NobodyExpires'
  BY <1>1 DEF IInv, AloneIsAlone, NobodyExpires
<1>7. PinsAreLive'
  <2> SUFFICES ASSUME NEW k \in Importers, NEW q \in Platforms,
                      importer'[k].alone, importer'[k].pins[q] # None
               PROVE  IF connector'[q].row = importer'[k].pins[q].row
                      THEN \/ importer'[k].pc = "sync" /\ Platform(k)' = q
                           \/ Live(q)' = IdsOf(importer'[k].pins[q].snap.people)
                      ELSE \/ importer'[k].pc = "failed"
                           \/ \A s \in connector'[q].newest : s.kind = "settings"
    BY Zenon DEF PinsAreLive
  <2>1. k = i /\ importer'[k] = rec /\ importer[i].alone /\ importer[i].pins[q] # None
    BY <1>1
  <2>2. Live(q)' = Live(q)
    BY <1>1 DEF Live
  <2>3. IF connector[q].row = importer[i].pins[q].row
        THEN Live(q) = IdsOf(importer[i].pins[q].snap.people)
        ELSE importer[i].pc = "failed" \/ \A s \in connector[q].newest : s.kind = "settings"
    BY <2>1 DEF IInv, PinsAreLive
  <2> QED
    BY <2>1, <2>2, <2>3
<1>8. \A k \in Importers : /\ importer'[k].pins = importer[k].pins
                          /\ importer'[k].judged = importer[k].judged
                          /\ importer'[k].alone = importer[k].alone
  BY <1>1
<1>9. OrdersReachTheirBuyer'
  BY <1>1, <1>8, ReachStays DEF IInv
<1>10. UniverseIsItsOwn' /\ JudgedAreLive'
  BY <1>1, <1>8, JudgementsStay DEF IInv
<1> QED
  BY <1>2, <1>3, <1>4, <1>5, <1>6, <1>7, <1>9, <1>10 DEF IInv

(* An importer ends its work and leaves all as it is.                                      *)
LEMMA LeaveStep ==
  ASSUME IInv, NEW i \in Importers, importer' = [importer EXCEPT ![i] = Away],
         UNCHANGED <<shown, contacts, orders, connector, token>>,
         left' \in LeftType, left'.moves = left.moves
  PROVE  IInv'
<1>1. /\ importer' \in [Importers -> ImporterType] /\ importer'[i] = Away
      /\ \A k \in Importers \ {i} : importer'[k] = importer[k]
      /\ contacts' = contacts /\ orders' = orders /\ shown' = shown /\ connector' = connector
  BY AwayType DEF IInv, ImportsTypeOK
<1>2. ImportsTypeOK' /\ RowsTypeOK' /\ OrdersOnce'
  BY <1>1, AwayType DEF IInv, ImportsTypeOK, RowsTypeOK, OrdersOnce, OnceEach
<1>3. Has(Away)
  BY AwayType DEF Has, Working
<1>4. InHand' /\ PeopleAreThere'
  BY <1>1, <1>3, AwayType DEF IInv, InHand, PeopleAreThere, Platform
<1>5. RowsWere'
  BY <1>1, AwayType DEF IInv, RowsWere, WasRow
<1>6. AloneIsAlone' /\ NobodyExpires' /\ TokenStaysAlive'
  BY <1>1, AwayType DEF IInv, AloneIsAlone, NobodyExpires, TokenStaysAlive
<1>7. PinsAreLive'
  BY <1>1, AwayType DEF IInv, PinsAreLive, Live, Platform
<1>8. \A k \in Importers : \A p \in Platforms :
        \/ importer'[k] = importer[k]
        \/ importer'[k].pins[p] = None /\ importer'[k].judged[p] = None
  BY <1>1, AwayType
<1>9. OrdersReachTheirBuyer'
  BY <1>1, <1>8, ReachStays DEF IInv
<1>10. UniverseIsItsOwn' /\ JudgedAreLive'
  BY <1>1, <1>8, JudgementsStay DEF IInv
<1> QED
  BY <1>2, <1>4, <1>5, <1>6, <1>7, <1>9, <1>10 DEF IInv

---------------------------------------------------------------------------------
(* Starts                                                                              *)

LEMMA AloneType ==
  ASSUME NEW x \in ImporterType, NEW b \in BOOLEAN
  PROVE  /\ [x EXCEPT !.alone = b] \in ImporterType
         /\ [x EXCEPT !.alone = b].alone = b /\ [x EXCEPT !.alone = b].pc = x.pc
         /\ [x EXCEPT !.alone = b].pins = x.pins /\ [x EXCEPT !.alone = b].judged = x.judged
         /\ [x EXCEPT !.alone = b].orders = x.orders /\ [x EXCEPT !.alone = b].row = x.row
         /\ [x EXCEPT !.alone = b].people = x.people /\ [x EXCEPT !.alone = b].todo = x.todo
  BY DEF ImporterType

(* The started importer is alone if the others are idle; the others are not any more.        *)
LEMMA StartStep ==
  ASSUME IInv, NEW i \in Importers, NEW r \in ImporterType, StartAs(i, r),
         \A p \in Platforms : r.pins[p] = None /\ r.judged[p] = None,
         r.orders = {}, r.row = 0, r.pc \in {"token", "covered"}, r.pc = "token" => r.todo # <<>>,
         UNCHANGED <<shown, contacts, orders, connector, token>>,
         left' \in LeftType, left'.moves = left.moves
  PROVE  IInv'
<1> DEFINE others == \A k \in Importers \ {i} : importer[k].pc = "idle"
           mine == [r EXCEPT !.alone = others]
<1>1. /\ mine \in ImporterType /\ mine.pins = r.pins /\ mine.judged = r.judged /\ mine.pc = r.pc
      /\ mine.orders = r.orders /\ mine.row = r.row /\ mine.todo = r.todo
      /\ mine.alone => \A k \in Importers \ {i} : importer[k].pc = "idle"
  <2>1. others \in BOOLEAN
    OBVIOUS
  <2>2. /\ mine \in ImporterType /\ mine.pins = r.pins /\ mine.judged = r.judged /\ mine.pc = r.pc
        /\ mine.orders = r.orders /\ mine.row = r.row /\ mine.todo = r.todo /\ mine.alone = others
    <3> HIDE DEF others
    <3> QED
      BY <2>1, AloneType
  <2> QED
    BY <2>2
<1>2. \A k \in Importers :
        /\ [importer[k] EXCEPT !.alone = FALSE] \in ImporterType
        /\ [importer[k] EXCEPT !.alone = FALSE].pins = importer[k].pins
        /\ [importer[k] EXCEPT !.alone = FALSE].judged = importer[k].judged
        /\ [importer[k] EXCEPT !.alone = FALSE].pc = importer[k].pc
        /\ [importer[k] EXCEPT !.alone = FALSE].orders = importer[k].orders
        /\ [importer[k] EXCEPT !.alone = FALSE].row = importer[k].row
        /\ [importer[k] EXCEPT !.alone = FALSE].people = importer[k].people
        /\ [importer[k] EXCEPT !.alone = FALSE].todo = importer[k].todo
        /\ [importer[k] EXCEPT !.alone = FALSE].alone = FALSE
  BY AloneType, Types
<1>3. /\ importer' = [j \in Importers |-> IF j = i THEN mine ELSE [importer[j] EXCEPT !.alone = FALSE]]
      /\ contacts' = contacts /\ orders' = orders /\ shown' = shown /\ connector' = connector
      /\ token' = token
  BY DEF StartAs
<1> HIDE DEF mine
<1>4. /\ importer' \in [Importers -> ImporterType] /\ importer'[i] = mine
      /\ \A k \in Importers \ {i} :
           /\ importer'[k].pins = importer[k].pins /\ importer'[k].judged = importer[k].judged
           /\ importer'[k].pc = importer[k].pc /\ importer'[k].orders = importer[k].orders
           /\ importer'[k].row = importer[k].row /\ importer'[k].people = importer[k].people
           /\ importer'[k].todo = importer[k].todo /\ ~importer'[k].alone
  BY <1>1, <1>2, <1>3
<1>5. ImportsTypeOK' /\ RowsTypeOK' /\ OrdersOnce'
  BY <1>1, <1>3, <1>4 DEF IInv, ImportsTypeOK, RowsTypeOK, OrdersOnce, OnceEach
<1>6. Has(mine)
  BY <1>1 DEF Has, Working
<1>7. InHand' /\ PeopleAreThere'
  <2>1. ASSUME NEW k \in Importers \ {i} PROVE Has(importer'[k])
    <3>1. Has(importer[k])
      BY DEF IInv, InHand
    <3> HIDE DEF Has
    <3> QED
      BY <1>4, <3>1 DEF Has
  <2>2. InHand'
    BY <1>4, <1>6, <2>1 DEF InHand
  <2>3. PeopleAreThere'
    <3> SUFFICES ASSUME NEW k \in Importers, importer'[k].pc = "sync"
                 PROVE  IdsOf(importer'[k].people) \subseteq DOMAIN contacts'[Platform(k)']
      BY Zenon DEF PeopleAreThere
    <3>1. k \in Importers \ {i} /\ importer[k].pc = "sync" /\ importer'[k].people = importer[k].people
          /\ Platform(k)' = Platform(k)
      BY <1>1, <1>4 DEF Platform
    <3> QED
      BY <1>3, <3>1 DEF IInv, PeopleAreThere
  <2> QED
    BY <2>2, <2>3
<1>8. RowsWere'
  BY <1>1, <1>3, <1>4 DEF IInv, RowsWere, WasRow
<1>9. AloneIsAlone' /\ NobodyExpires' /\ TokenStaysAlive'
  BY <1>1, <1>3, <1>4 DEF IInv, AloneIsAlone, NobodyExpires, TokenStaysAlive
<1>10. PinsAreLive'
  BY <1>1, <1>4 DEF PinsAreLive
<1>11. \A k \in Importers : \A p \in Platforms :
        \/ /\ importer'[k].pins = importer[k].pins /\ importer'[k].judged = importer[k].judged
           /\ ~importer'[k].alone
        \/ importer'[k].pins[p] = None /\ importer'[k].judged[p] = None
  BY <1>1, <1>4
<1>12. OrdersReachTheirBuyer'
  BY <1>3, <1>11, ReachStays DEF IInv
<1>13. UniverseIsItsOwn' /\ JudgedAreLive'
  BY <1>3, <1>11, JudgementsStay DEF IInv
<1> QED
  BY <1>5, <1>7, <1>8, <1>9, <1>10, <1>12, <1>13 DEF IInv

---------------------------------------------------------------------------------
(* Moves                                                                               *)

(* A connector is connected again, in its row or in a new one, or goes.                      *)
LEMMA ConnectorStep ==
  ASSUME IInv, NEW p \in Platforms,
         NEW c \in ConnectorType,
         connector' = [connector EXCEPT ![p] = c],
         c.row \in {0, connector[p].row, left.moves + 1},
         \A s \in c.newest : s.kind = "settings",
         left.moves > 0, left' = [left EXCEPT !.moves = @ - 1],
         token' \in TokenType,
         TokenStaysAlive', token'.lost = token.lost,
         UNCHANGED <<shown, contacts, orders, importer>>
  PROVE  IInv'
<1>1. /\ importer' = importer /\ contacts' = contacts /\ orders' = orders /\ shown' = shown
      /\ left' \in LeftType /\ left'.moves = left.moves - 1
      /\ left.moves \in Nat
  <2>1. left \in LeftType
    BY Types
  <2> QED
    BY <2>1 DEF LeftType
<1>2. ImportsTypeOK' /\ RowsTypeOK' /\ OrdersOnce'
  BY <1>1 DEF IInv, ImportsTypeOK, RowsTypeOK, OrdersOnce
<1>3. InHand' /\ PeopleAreThere' /\ AloneIsAlone' /\ NobodyExpires'
  BY <1>1 DEF IInv, InHand, PeopleAreThere, Platform, AloneIsAlone, NobodyExpires
<1>4. \A n \in Nat : WasRow(n, left.moves) => WasRow(n, left'.moves) /\ n # left.moves + 1
  BY <1>1 DEF WasRow
<1>5. WasRow(left.moves + 1, left'.moves) /\ WasRow(0, left'.moves)
  BY <1>1 DEF WasRow
<1>6. /\ connector'[p] = c
      /\ \A q \in Platforms \ {p} : connector'[q] = connector[q]
  <2>1. DOMAIN connector = Platforms
    BY DEF IInv, ImportsTypeOK
  <2> QED
    BY <2>1
<1>7. RowsWere'
  <2>1. \A q \in Platforms : WasRow(connector'[q].row, left'.moves)
    <3>1. ASSUME NEW q \in Platforms PROVE WasRow(connector[q].row, left'.moves)
      BY <1>4, Types DEF IInv, RowsWere, ConnectorType
    <3>2. WasRow(c.row, left'.moves)
      BY <1>5, <3>1
    <3> QED
      BY <1>6, <3>1, <3>2
  <2>2. \A i \in Importers : WasRow(importer'[i].row, left'.moves)
    BY <1>1, <1>4, Types DEF IInv, RowsWere, ImporterType
  <2>3. \A i \in Importers : \A q \in Platforms :
          importer'[i].pins[q] # None => WasRow(importer'[i].pins[q].row, left'.moves)
    <3> SUFFICES ASSUME NEW i \in Importers, NEW q \in Platforms, importer[i].pins[q] # None
                 PROVE  WasRow(importer[i].pins[q].row, left'.moves)
      BY <1>1, Zenon
    <3>1. importer[i].pins[q] \in PinType
      BY Types DEF ImporterType
    <3>2. importer[i].pins[q].row \in Nat
      BY <3>1 DEF PinType
    <3> QED
      BY <1>4, <3>2 DEF IInv, RowsWere
  <2> QED
    BY <2>1, <2>2, <2>3 DEF RowsWere
<1>8. PinsAreLive'
  <2> SUFFICES ASSUME NEW i \in Importers, NEW q \in Platforms,
                      importer[i].alone, importer[i].pins[q] # None
               PROVE  IF connector'[q].row = importer[i].pins[q].row
                      THEN \/ importer[i].pc = "sync" /\ Platform(i) = q
                           \/ Live(q) = IdsOf(importer[i].pins[q].snap.people)
                      ELSE \/ importer[i].pc = "failed"
                           \/ \A s \in connector'[q].newest : s.kind = "settings"
    BY <1>1 DEF PinsAreLive, Live, Platform
  <2>1. CASE q # p
    BY <1>6, <2>1 DEF IInv, PinsAreLive
  <2>2. CASE q = p
    <3>1. importer[i].pins[q].row \in Nat \ {0} /\ WasRow(importer[i].pins[q].row, left.moves)
      <4>1. importer[i].pins[q] \in PinType
        BY Types DEF ImporterType
      <4>2. importer[i].pins[q].row # 0 /\ WasRow(importer[i].pins[q].row, left.moves)
        BY DEF IInv, InHand, Has, RowsWere
      <4> QED
        BY <4>1, <4>2 DEF PinType
    <3>2. importer[i].pins[q].row # left.moves + 1
      BY <3>1, <1>4
    <3> QED
      BY <1>6, <2>2, <3>1, <3>2 DEF IInv, PinsAreLive
  <2> QED
    BY <2>1, <2>2
<1>9. OrdersReachTheirBuyer' /\ UniverseIsItsOwn' /\ JudgedAreLive'
  BY <1>1, ReachStays, JudgementsStay DEF IInv
<1> QED
  BY <1>2, <1>3, <1>7, <1>8, <1>9 DEF IInv

---------------------------------------------------------------------------------
(* Commits                                                                             *)

(* Whom an order is bound to is known once the contacts of the orders are made up.            *)
LEMMA MadeUp ==
  ASSUME NEW p, NEW people \in SUBSET PersonType, NEW ordered \in SUBSET OrderType
  PROVE  /\ people \subseteq WithOrderContacts(p, people, ordered)
         /\ WithOrderContacts(p, people, ordered)
              \in SUBSET [id : Ids, email : Text, phone : Text, link : Text]
         /\ \A o \in ordered :
              BoundTo(p, o) # "" => BoundTo(p, o) \in IdsOf(WithOrderContacts(p, people, ordered))
<1> DEFINE missing == {BoundTo(p, o) : o \in ordered} \ (IdsOf(people) \cup {""})
           mail(i) == (CHOOSE o \in ordered : BoundTo(p, o) = i).email
           person(i) == [id |-> i, email |-> mail(i), phone |-> "", link |-> ""]
           made == {person(i) : i \in missing}
           PeopleType == [id : Ids, email : Text, phone : Text, link : Text]
<1>1. WithOrderContacts(p, people, ordered) = people \cup made
  BY DEF WithOrderContacts
<1>2. \A o \in ordered : BoundTo(p, o) \in Ids
  BY Zenon DEF BoundTo, Ids, Text, OrderType
<1>3. \A i \in missing : i \in Ids /\ mail(i) \in STRING
  <2> TAKE i \in missing
  <2>1. PICK o \in ordered : BoundTo(p, o) = i
    OBVIOUS
  <2>2. (CHOOSE x \in ordered : BoundTo(p, x) = i) \in ordered
    BY <2>1
  <2> QED
    BY <1>2, <2>1, <2>2 DEF OrderType
<1>4. \A o \in ordered : BoundTo(p, o) # "" => BoundTo(p, o) \in IdsOf(people) \/ BoundTo(p, o) \in missing
  OBVIOUS
<1> HIDE DEF missing, mail
<1>5. \A i \in missing : person(i).id = i /\ person(i) \in PeopleType
  <2> TAKE i \in missing
  <2>1. i \in Ids /\ mail(i) \in Text
    BY <1>3 DEF Text
  <2>2. \A x \in Ids : \A e \in Text :
          [id |-> x, email |-> e, phone |-> "", link |-> ""] \in PeopleType
    BY DEF Text
  <2>3. person(i) \in PeopleType
    BY <2>1, <2>2, Zenon
  <2>4. person(i).id = i
    BY Zenon
  <2> QED
    BY <2>3, <2>4
<1> HIDE DEF person
<1>6. people \cup made \subseteq PeopleType
  <2>1. people \subseteq PeopleType
    BY DEF PersonType, Ids, Text
  <2> HIDE DEF PeopleType
  <2> QED
    BY <1>5, <2>1
<1>7. IdsOf(people) \subseteq IdsOf(people \cup made) /\ missing \subseteq IdsOf(people \cup made)
  <2>1. \A i \in missing : person(i) \in made /\ person(i).id = i
    BY <1>5
  <2> HIDE DEF made
  <2> QED
    BY <2>1 DEF IdsOf
<1> HIDE DEF made
<1> QED
  BY <1>1, <1>4, <1>6, <1>7

LEMMA Upserted ==
  ASSUME NEW rows, DOMAIN rows \subseteq Ids, \A c \in DOMAIN rows : rows[c] \in RowType,
         NEW people \in SUBSET [id : Ids, email : Text, phone : Text, link : Text]
  PROVE  /\ DOMAIN UpsertContacts(rows, people) = DOMAIN rows \cup IdsOf(people)
         /\ DOMAIN UpsertContacts(rows, people) \subseteq Ids
         /\ \A c \in DOMAIN UpsertContacts(rows, people) : UpsertContacts(rows, people)[c] \in RowType
<1> DEFINE new(i) == LET c == CHOOSE x \in people : x.id = i
                     IN [email |-> c.email, phone |-> c.phone, link |-> c.link, excluded |-> FALSE]
<1>1. UpsertContacts(rows, people)
        = [i \in DOMAIN rows \cup IdsOf(people) |-> IF i \in IdsOf(people) THEN new(i) ELSE rows[i]]
  BY DEF UpsertContacts
<1>2. \A i \in IdsOf(people) : i \in Ids /\ new(i) \in RowType
  <2> TAKE i \in IdsOf(people)
  <2>1. PICK c \in people : c.id = i
    BY DEF IdsOf
  <2>2. (CHOOSE x \in people : x.id = i) \in people
    BY <2>1
  <2> QED
    BY <2>1, <2>2 DEF RowType, Text
<1> HIDE DEF new
<1> QED
  BY <1>1, <1>2

LEMMA Holders ==
  ASSUME NEW p, NEW o, NEW rows
  PROVE  /\ HoldersOf(p, o, rows) \subseteq DOMAIN rows
         /\ (BoundTo(p, o) # "" /\ BoundTo(p, o) \in DOMAIN rows) => HoldersOf(p, o, rows) = {BoundTo(p, o)}
  BY DEF HoldersOf

(* The orders of an import are bound to their buyers, the others stay bound.                 *)
LEMMA OrdersBound ==
  ASSUME NEW p, NEW rows, NEW people, NEW ordered \in SUBSET OrderType, OnceEach(ordered),
         DOMAIN rows \subseteq STRING,
         \A o \in DOMAIN rows : rows[o].contact \in DOMAIN people,
         \A o \in ordered : BoundTo(p, o) # "" => BoundTo(p, o) \in DOMAIN people
  PROVE  LET new == UpsertOrders(p, rows, ordered, people)
         IN /\ DOMAIN new \subseteq STRING /\ DOMAIN rows \subseteq DOMAIN new
            /\ \A o \in DOMAIN new : new[o].contact \in DOMAIN people
            /\ \A o \in ordered : BoundTo(p, o) # "" =>
                 o.id \in DOMAIN new /\ new[o.id].contact = BoundTo(p, o)
<1> DEFINE kept == {o \in ordered : HoldersOf(p, o, people) # {}}
           of(i) == CHOOSE x \in kept : x.id = i
           holder(o) == CHOOSE h \in HoldersOf(p, o, people) : TRUE
           row(i) == [contact |-> holder(of(i)), status |-> apply_status_map(of(i).status)]
           new == UpsertOrders(p, rows, ordered, people)
<1>1. new = [i \in DOMAIN rows \cup IdsOf(kept) |-> IF i \in IdsOf(kept) THEN row(i) ELSE rows[i]]
  BY DEF UpsertOrders
<1>2. \A o \in kept : o.id \in IdsOf(kept) /\ of(o.id) = o
  <2> TAKE o \in kept
  <2>1. of(o.id) \in kept /\ of(o.id).id = o.id
    OBVIOUS
  <2>2. o.id \in IdsOf(kept)
    BY DEF IdsOf
  <2> QED
    BY <2>1, <2>2 DEF OnceEach
<1>3. \A i \in IdsOf(kept) : i \in STRING /\ of(i) \in kept
  <2> TAKE i \in IdsOf(kept)
  <2>1. PICK o \in kept : o.id = i
    BY DEF IdsOf
  <2> QED
    BY <1>2, <2>1 DEF OrderType
<1>4. \A o \in kept : holder(o) \in DOMAIN people
  BY Holders
<1>5. \A o \in ordered : BoundTo(p, o) # "" => o \in kept /\ holder(o) = BoundTo(p, o)
  <2> SUFFICES ASSUME NEW o \in ordered, BoundTo(p, o) # "" PROVE o \in kept /\ holder(o) = BoundTo(p, o)
    OBVIOUS
  <2>1. HoldersOf(p, o, people) = {BoundTo(p, o)}
    BY Holders
  <2> QED
    BY <2>1
<1>6. \A i : row(i).contact = holder(of(i))
  OBVIOUS
<1> HIDE DEF kept, of, holder, row
<1>7. /\ DOMAIN new = DOMAIN rows \cup IdsOf(kept)
      /\ \A i \in IdsOf(kept) : new[i] = row(i)
      /\ \A i \in DOMAIN rows : i \notin IdsOf(kept) => new[i] = rows[i]
  BY <1>1
<1> HIDE DEF new
<1>8. \A o \in DOMAIN new : new[o].contact \in DOMAIN people
  BY <1>3, <1>4, <1>6, <1>7
<1>9. \A o \in ordered : BoundTo(p, o) # "" => o.id \in DOMAIN new /\ new[o.id].contact = BoundTo(p, o)
  BY <1>2, <1>5, <1>6, <1>7
<1> QED
  BY <1>3, <1>7, <1>8, <1>9 DEF new

LEMMA AddedSnapshot ==
  ASSUME NEW c \in ConnectorType, NEW version \in Nat, NEW snap \in SnapType
  PROVE  /\ AddSnapshot(c, version, snap) \in ConnectorType
         /\ AddSnapshot(c, version, snap).row = c.row
         /\ AddSnapshot(c, version, snap).status = c.status
         /\ version = c.version + 1 => AddSnapshot(c, version, snap).newest = {snap}
<1> DEFINE d == AddSnapshot(c, version, snap)
<1>0. c.version \in Nat /\ c.newest \cup {snap} \in SUBSET SnapType /\ {snap} \in SUBSET SnapType
  BY DEF ConnectorType
<1>1. CASE version > c.version
  <2>1. d = [c EXCEPT !.version = version, !.newest = {snap}]
    BY <1>1 DEF AddSnapshot
  <2> HIDE DEF d
  <2>2. d \in ConnectorType /\ d.row = c.row /\ d.status = c.status /\ d.newest = {snap}
    BY <1>0, <2>1 DEF ConnectorType
  <2> QED
    BY <2>2 DEF d
<1>2. CASE version = c.version
  <2>1. d = [c EXCEPT !.newest = c.newest \cup {snap}]
    BY <1>0, <1>2 DEF AddSnapshot
  <2> HIDE DEF d
  <2>2. d \in ConnectorType /\ d.row = c.row /\ d.status = c.status
    BY <1>0, <2>1 DEF ConnectorType
  <2> QED
    BY <1>0, <1>2, <2>2 DEF d
<1>3. CASE version < c.version
  BY <1>0, <1>3 DEF AddSnapshot
<1> QED
  BY <1>0, <1>1, <1>2, <1>3

(* What a commit makes of the rows of its platform.                                        *)
LEMMA CommittedRows ==
  ASSUME IInv, NEW i \in Importers, NEW p \in Platforms
  PROVE  LET r == importer[i]
             people == UpsertContacts(contacts[p], WithOrderContacts(p, r.people, r.orders))
             new == UpsertOrders(p, orders[p], r.orders, people)
         IN /\ DOMAIN people \subseteq Ids /\ \A c \in DOMAIN people : people[c] \in RowType
            /\ DOMAIN contacts[p] \subseteq DOMAIN people /\ IdsOf(r.people) \subseteq DOMAIN people
            /\ DOMAIN new \subseteq STRING /\ DOMAIN orders[p] \subseteq DOMAIN new
            /\ \A o \in DOMAIN new : new[o].contact \in DOMAIN people
            /\ \A o \in r.orders : BoundTo(p, o) # "" =>
                 o.id \in DOMAIN new /\ new[o.id].contact = BoundTo(p, o)
<1> DEFINE r == importer[i]
           made == WithOrderContacts(p, r.people, r.orders)
           people == UpsertContacts(contacts[p], made)
           new == UpsertOrders(p, orders[p], r.orders, people)
<1>1. r.people \in SUBSET PersonType /\ r.orders \in SUBSET OrderType /\ OnceEach(r.orders)
  BY Types DEF ImporterType, IInv, OrdersOnce
<1>2. /\ DOMAIN contacts[p] \subseteq Ids /\ DOMAIN orders[p] \subseteq STRING
      /\ \A c \in DOMAIN contacts[p] : contacts[p][c] \in RowType
      /\ \A o \in DOMAIN orders[p] : orders[p][o].contact \in DOMAIN contacts[p]
  BY DEF IInv, RowsTypeOK
<1>3. /\ r.people \subseteq made
      /\ made \in SUBSET [id : Ids, email : Text, phone : Text, link : Text]
      /\ \A o \in r.orders : BoundTo(p, o) # "" => BoundTo(p, o) \in IdsOf(made)
  BY <1>1, MadeUp
<1>4. IdsOf(r.people) \subseteq IdsOf(made)
  BY <1>3 DEF IdsOf
<1> HIDE DEF r, made
<1>5. /\ DOMAIN people = DOMAIN contacts[p] \cup IdsOf(made)
      /\ DOMAIN people \subseteq Ids /\ \A c \in DOMAIN people : people[c] \in RowType
  BY <1>2, <1>3, Upserted
<1> HIDE DEF people
<1>6. /\ \A o \in DOMAIN orders[p] : orders[p][o].contact \in DOMAIN people
      /\ \A o \in r.orders : BoundTo(p, o) # "" => BoundTo(p, o) \in DOMAIN people
  BY <1>2, <1>3, <1>5
<1>7. /\ DOMAIN new \subseteq STRING /\ DOMAIN orders[p] \subseteq DOMAIN new
      /\ \A o \in DOMAIN new : new[o].contact \in DOMAIN people
      /\ \A o \in r.orders : BoundTo(p, o) # "" =>
           o.id \in DOMAIN new /\ new[o.id].contact = BoundTo(p, o)
  BY <1>1, <1>2, <1>6, OrdersBound
<1> HIDE DEF new
<1> QED
  BY <1>4, <1>5, <1>7 DEF r, made, people, new

LEMMA CommitStep ==
  ASSUME IInv, NEW i \in Importers, Commit(i)
  PROVE  IInv'
<1> DEFINE p == Platform(i)
           r == importer[i]
           people == UpsertContacts(contacts[p], WithOrderContacts(p, r.people, r.orders))
           new == UpsertOrders(p, orders[p], r.orders, people)
           snap == Fetched(r.people, r.orders)
           pin == [row |-> r.row, snap |-> snap]
           back == [r EXCEPT !.pc = "sync", !.pins[p] = pin]
<1>1. r \in ImporterType /\ r.pc = "commit" /\ Has(r) /\ r.row # 0 /\ r.todo # <<>> /\ p \in Platforms
  BY Types, Heads DEF Commit, At, IInv, InHand, Has, Working
<1>2. CASE connector[p].row # r.row
  <2> DEFINE rec == [r EXCEPT !.pc = "failed"]
  <2>1. /\ rec \in ImporterType /\ rec.pc = "failed" /\ rec.pins = r.pins /\ rec.judged = r.judged
        /\ rec.alone = r.alone /\ rec.row = r.row /\ rec.orders = r.orders
    BY <1>1 DEF ImporterType
  <2>2. importer' = [importer EXCEPT ![i] = rec] /\ UNCHANGED <<shown, connector, token, contacts, orders, left>>
    BY <1>2 DEF Commit, Goes, Becomes
  <2>3. WasRow(rec.row, left.moves) /\ OnceEach(rec.orders)
    BY <2>1 DEF IInv, RowsWere, OrdersOnce
  <2>4. connector' \in [Platforms -> ConnectorType] /\ TokenStaysAlive' /\ token' = token /\ left' = left
    BY <2>2 DEF IInv, ImportsTypeOK, TokenStaysAlive
  <2> HIDE DEF rec
  <2> QED
    BY <1>1, <2>1, <2>2, <2>3, <2>4, Types, KeepStep DEF Working
<1>3. CASE connector[p].row = r.row
  <2> DEFINE rec == IF r.kind = "score" THEN back ELSE Away
             c == AddSnapshot(connector[p], r.version, snap)
  <2>1. /\ importer' = [importer EXCEPT ![i] = rec]
        /\ contacts' = [contacts EXCEPT ![p] = people] /\ orders' = [orders EXCEPT ![p] = new]
        /\ connector' = [connector EXCEPT ![p] = c]
        /\ shown' = shown /\ token' = token /\ left' = left
    BY <1>3 DEF Commit, Becomes
  <2>2. snap \in SnapType /\ snap.people = r.people /\ snap.orders = r.orders /\ snap.kind = "fetched"
    BY <1>1 DEF Fetched, SnapType, ImporterType
  <2>3. pin \in PinType /\ pin.row = r.row /\ pin.snap = snap
    BY <1>1, <2>2 DEF PinType, ImporterType
  <2>4. c \in ConnectorType /\ c.row = connector[p].row /\ c.status = connector[p].status
    <3>1. connector[p] \in ConnectorType /\ r.version \in Nat
      BY <1>1, Types DEF ImporterType
    <3> HIDE DEF snap, r, p
    <3> QED
      BY <2>2, <3>1, AddedSnapshot
  <2>5. /\ DOMAIN people \subseteq Ids /\ \A x \in DOMAIN people : people[x] \in RowType
        /\ DOMAIN contacts[p] \subseteq DOMAIN people /\ IdsOf(r.people) \subseteq DOMAIN people
        /\ DOMAIN new \subseteq STRING /\ DOMAIN orders[p] \subseteq DOMAIN new
        /\ \A o \in DOMAIN new : new[o].contact \in DOMAIN people
        /\ \A o \in r.orders : BoundTo(p, o) # "" =>
             o.id \in DOMAIN new /\ new[o.id].contact = BoundTo(p, o)
    BY <1>1, CommittedRows
  <2> HIDE DEF people, new, snap, c
  <2>6. /\ back \in ImporterType /\ back.pc = "sync" /\ back.todo = r.todo /\ back.row = r.row
        /\ back.people = r.people /\ back.orders = r.orders /\ back.judged = r.judged
        /\ back.alone = r.alone /\ back.pins[p] = pin
        /\ \A q \in Platforms \ {p} : back.pins[q] = r.pins[q]
    <3> DEFINE pins == [r.pins EXCEPT ![p] = pin]
    <3>1. r.pins \in [Platforms -> PinType \cup {None}]
      BY <1>1 DEF ImporterType
    <3>2. /\ pins \in [Platforms -> PinType \cup {None}] /\ pins[p] = pin
          /\ \A q \in Platforms \ {p} : pins[q] = r.pins[q]
      BY <1>1, <2>3, <3>1
    <3>3. back = [r EXCEPT !.pc = "sync", !.pins = pins]
      BY <1>1 DEF ImporterType
    <3> HIDE DEF back, pin, p, pins, r
    <3>4. /\ back \in ImporterType /\ back.pc = "sync" /\ back.todo = r.todo /\ back.row = r.row
          /\ back.people = r.people /\ back.orders = r.orders /\ back.judged = r.judged
          /\ back.alone = r.alone /\ back.pins = pins
      BY <1>1, <3>2, <3>3 DEF ImporterType, Working
    <3> QED
      BY <3>2, <3>4
  <2> HIDE DEF back, pin
  <2>7. /\ rec \in ImporterType /\ rec.orders \subseteq r.orders /\ OnceEach(rec.orders)
        /\ rec.pc \in {"sync", "idle"} /\ rec.row \in {0, r.row} /\ (rec.alone => r.alone)
        /\ rec.pc = "sync" => rec = back
        /\ \A q \in Platforms : rec.judged[q] = None
        /\ \A q \in Platforms : rec.pins[q] # None =>
             rec = back /\ IF q = p THEN rec.pins[q] = pin ELSE rec.pins[q] = r.pins[q]
    <3>1. OnceEach(r.orders)
      BY DEF IInv, OrdersOnce
    <3>2. \A q \in Platforms : r.judged[q] = None
      BY <1>1 DEF Has
    <3> QED
      BY <2>6, <3>1, <3>2, AwayType DEF OnceEach
  <2> HIDE DEF rec
  <2>8. /\ importer' \in [Importers -> ImporterType] /\ importer'[i] = rec
        /\ \A k \in Importers \ {i} : importer'[k] = importer[k] /\ ~importer[k].alone
    BY <1>1, <2>1, <2>7 DEF IInv, ImportsTypeOK, AloneIsAlone
  <2>9. /\ contacts'[p] = people /\ orders'[p] = new /\ connector'[p] = c
        /\ DOMAIN contacts' = Platforms /\ DOMAIN orders' = Platforms
        /\ \A q \in Platforms \ {p} : /\ contacts'[q] = contacts[q] /\ orders'[q] = orders[q]
                                      /\ connector'[q] = connector[q]
    BY <1>1, <2>1 DEF IInv, RowsTypeOK, ImportsTypeOK
  <2>10. ImportsTypeOK'
    BY <1>1, <2>1, <2>4, <2>8 DEF IInv, ImportsTypeOK
  <2>11. RowsTypeOK'
    <3> SUFFICES ASSUME NEW q \in Platforms
                 PROVE  /\ DOMAIN contacts'[q] \subseteq Ids /\ DOMAIN orders'[q] \subseteq STRING
                        /\ \A x \in DOMAIN contacts'[q] : contacts'[q][x] \in RowType
                        /\ \A o \in DOMAIN orders'[q] : orders'[q][o].contact \in DOMAIN contacts'[q]
      BY <2>9, Zenon DEF RowsTypeOK
    <3>1. CASE q = p
      BY <2>5, <2>9, <3>1
    <3>2. CASE q # p
      BY <2>9, <3>2 DEF IInv, RowsTypeOK
    <3> QED
      BY <3>1, <3>2
  <2>12. OrdersOnce'
    BY <2>1, <2>7, <2>8 DEF IInv, OrdersOnce
  <2>13. Has(rec)
    <3>1. CASE rec = Away
      BY <3>1, AwayType DEF Has, Working
    <3>2. CASE rec = back
      BY <1>1, <2>2, <2>3, <2>6, <2>7, <3>2 DEF Has, Working, Platform
    <3> QED
      BY <3>1, <3>2 DEF rec
  <2>14. InHand'
    BY <2>8, <2>13 DEF IInv, InHand
  <2>15. PeopleAreThere'
    <3> SUFFICES ASSUME NEW k \in Importers, importer'[k].pc = "sync"
                 PROVE  IdsOf(importer'[k].people) \subseteq DOMAIN contacts'[Platform(k)']
      BY Zenon DEF PeopleAreThere
    <3>1. CASE k = i
      BY <2>5, <2>6, <2>7, <2>8, <2>9, <3>1 DEF Platform
    <3>2. CASE k # i
      <4>1. importer'[k] = importer[k] /\ importer[k].pc = "sync" /\ Platform(k)' = Platform(k)
        BY <2>8, <3>2 DEF Platform
      <4>2. Platform(k) \in Platforms
        BY <4>1, Heads DEF Working
      <4>3. IdsOf(importer[k].people) \subseteq DOMAIN contacts[Platform(k)]
        BY <4>1 DEF IInv, PeopleAreThere
      <4> HIDE DEF p
      <4> QED
        BY <2>5, <2>9, <4>1, <4>2, <4>3
    <3> QED
      BY <3>1, <3>2
  <2>16. RowsWere'
    <3>1. \A q \in Platforms : connector'[q].row = connector[q].row
      BY <2>4, <2>9
    <3>2. \A k \in Importers : WasRow(importer'[k].row, left.moves)
      BY <2>7, <2>8 DEF IInv, RowsWere, WasRow
    <3>3. \A k \in Importers : \A q \in Platforms :
            importer'[k].pins[q] # None => WasRow(importer'[k].pins[q].row, left.moves)
      BY <2>3, <2>7, <2>8 DEF IInv, RowsWere
    <3> QED
      BY <2>1, <3>1, <3>2, <3>3 DEF IInv, RowsWere
  <2>17. AloneIsAlone' /\ NobodyExpires'
    BY <2>1, <2>7, <2>8 DEF IInv, AloneIsAlone, NobodyExpires
  <2>18. TokenStaysAlive'
    BY <2>1, <2>4, <2>9 DEF IInv, TokenStaysAlive, Platforms
  <2>19. PinsAreLive'
    <3> SUFFICES ASSUME NEW k \in Importers, NEW q \in Platforms,
                        importer'[k].alone, importer'[k].pins[q] # None
                 PROVE  IF connector'[q].row = importer'[k].pins[q].row
                        THEN \/ importer'[k].pc = "sync" /\ Platform(k)' = q
                             \/ Live(q)' = IdsOf(importer'[k].pins[q].snap.people)
                        ELSE \/ importer'[k].pc = "failed"
                             \/ \A s \in connector'[q].newest : s.kind = "settings"
      BY Zenon DEF PinsAreLive
    <3>1. k = i /\ importer'[k] = back /\ importer[i].alone
      BY <2>7, <2>8
    <3>2. CASE q = p
      BY <1>3, <2>3, <2>4, <2>6, <2>9, <3>1, <3>2 DEF Platform
    <3>3. CASE q # p
      <4>1. /\ importer'[k].pins[q] = importer[i].pins[q] /\ importer[i].pins[q] # None
            /\ connector'[q] = connector[q] /\ Live(q)' = Live(q)
        BY <2>6, <2>9, <3>1, <3>3 DEF Live
      <4> QED
        BY <1>1, <3>1, <4>1 DEF IInv, PinsAreLive
    <3> QED
      BY <3>2, <3>3
  <2>20. OrdersReachTheirBuyer'
    <3> SUFFICES ASSUME NEW k \in Importers, NEW q \in Platforms, importer'[k].pins[q] # None,
                        NEW o \in importer'[k].pins[q].snap.orders, BoundTo(q, o) # ""
                 PROVE  /\ o.id \in DOMAIN orders'[q]
                        /\ orders'[q][o.id].contact \in DOMAIN contacts'[q]
                        /\ importer'[k].alone => orders'[q][o.id].contact = BoundTo(q, o)
      BY Zenon DEF OrdersReachTheirBuyer
    <3>1. CASE k = i /\ q = p
      <4>1. o \in r.orders
        BY <2>2, <2>3, <2>7, <2>8, <3>1
      <4> HIDE DEF p, r
      <4> QED
        BY <2>5, <2>9, <3>1, <4>1
    <3>2. CASE ~(k = i /\ q = p)
      <4>1. importer'[k].pins[q] = importer[k].pins[q] /\ (importer'[k].alone => importer[k].alone)
        BY <2>7, <2>8, <3>2
      <4>2. /\ o.id \in DOMAIN orders[q]
            /\ orders[q][o.id].contact \in DOMAIN contacts[q]
            /\ importer[k].alone => orders[q][o.id].contact = BoundTo(q, o)
        BY <4>1 DEF IInv, OrdersReachTheirBuyer
      <4>3. q # p \/ ~importer'[k].alone
        BY <2>8, <3>2
      <4> HIDE DEF p
      <4> QED
        BY <2>5, <2>9, <4>1, <4>2, <4>3
    <3> QED
      BY <3>1, <3>2
  <2>21. \A k \in Importers : \A q \in Platforms :
           importer'[k].judged[q] # None => k # i /\ importer'[k] = importer[k] /\ ~importer[k].alone
    BY <2>7, <2>8
  <2>22. UniverseIsItsOwn' /\ JudgedAreLive'
    BY <2>21 DEF IInv, UniverseIsItsOwn, JudgedAreLive
  <2> QED
    BY <2>10, <2>11, <2>12, <2>14, <2>15, <2>16, <2>17, <2>18, <2>19, <2>20, <2>22 DEF IInv
<1> QED
  BY <1>2, <1>3

---------------------------------------------------------------------------------
(* The sync of the rows with the pin                                                   *)

LEMMA SyncStep ==
  ASSUME IInv, NEW i \in Importers, Sync(i)
  PROVE  IInv'
<1> DEFINE p == Platform(i)
           r == importer[i]
           live == IdsOf(r.people)
           rec == [r EXCEPT !.todo = Tail(@), !.pc = IF Len(r.todo) > 1 THEN "token" ELSE "covered",
                            !.people = {}, !.orders = {}, !.version = 0, !.row = 0]
           rows == sync_contacts_to_snapshot(contacts[p], live)
<1>1. r \in ImporterType /\ r.pc = "sync" /\ Has(r) /\ r.todo # <<>> /\ p \in Platforms
  BY Types, Heads DEF Sync, At, IInv, InHand, Has, Working
<1>2. /\ importer' = [importer EXCEPT ![i] = rec]
      /\ contacts' = IF connector[p].row # r.row THEN contacts ELSE [contacts EXCEPT ![p] = rows]
      /\ shown' = shown /\ connector' = connector /\ token' = token /\ orders' = orders /\ left' = left
  BY DEF Sync, Becomes
<1>3. /\ rec \in ImporterType /\ rec.pc \in {"token", "covered"}
      /\ rec.pc = "token" => rec.todo # <<>>
      /\ rec.pins = r.pins /\ rec.judged = r.judged /\ rec.alone = r.alone
      /\ rec.orders = {} /\ rec.row = 0
  <2> DEFINE rest == Tail(r.todo)
             pc == IF Len(r.todo) > 1 THEN "token" ELSE "covered"
  <2>1. r.todo \in Seq(Platforms)
    BY <1>1 DEF ImporterType
  <2>2. rest \in Seq(Platforms) /\ Len(rest) = Len(r.todo) - 1
    BY <1>1, <2>1
  <2>3. pc \in {"token", "covered"} /\ (pc = "token" => rest # <<>>)
    <3> HIDE DEF rest, r
    <3>1. Len(r.todo) > 1 => Len(rest) # 0
      BY <2>1, <2>2
    <3>2. rest = <<>> => Len(rest) = 0
      OBVIOUS
    <3> QED
      BY <3>1, <3>2
  <2> HIDE DEF rest, pc, r
  <2>4. [r EXCEPT !.todo = rest, !.pc = pc, !.people = {}, !.orders = {}, !.version = 0, !.row = 0]
          \in ImporterType
    BY <1>1, <2>2, <2>3 DEF ImporterType, Working
  <2> QED
    BY <1>1, <2>2, <2>3, <2>4 DEF ImporterType, rest, pc
<1>4. \A q \in Platforms : r.judged[q] = None
  BY <1>1 DEF Has
<1>5. /\ DOMAIN rows = DOMAIN contacts[p]
      /\ \A c \in DOMAIN rows : rows[c] \in RowType /\ rows[c].excluded = (c \notin live)
  <2>1. \A c \in DOMAIN contacts[p] : contacts[p][c] \in RowType
    BY <1>1 DEF IInv, RowsTypeOK
  <2>2. ASSUME NEW x \in RowType, NEW b \in BOOLEAN
        PROVE  [x EXCEPT !.excluded = b] \in RowType /\ [x EXCEPT !.excluded = b].excluded = b
    BY DEF RowType
  <2>3. rows = [c \in DOMAIN contacts[p] |-> [contacts[p][c] EXCEPT !.excluded = c \notin live]]
    BY DEF sync_contacts_to_snapshot
  <2>4. \A c : (c \notin live) \in BOOLEAN
    OBVIOUS
  <2> HIDE DEF rows, live, p
  <2> QED
    BY <2>1, <2>2, <2>3, <2>4
<1> HIDE DEF rec, rows
<1>6. /\ importer' \in [Importers -> ImporterType] /\ importer'[i] = rec
      /\ \A k \in Importers \ {i} : importer'[k] = importer[k] /\ ~importer[k].alone
  BY <1>1, <1>2, <1>3 DEF IInv, ImportsTypeOK, AloneIsAlone
<1>7. /\ DOMAIN contacts' = Platforms
      /\ \A q \in Platforms : DOMAIN contacts'[q] = DOMAIN contacts[q]
      /\ \A q \in Platforms \ {p} : contacts'[q] = contacts[q]
      /\ connector[p].row = r.row => contacts'[p] = rows
      /\ connector[p].row # r.row => contacts' = contacts
  BY <1>1, <1>2, <1>5 DEF IInv, RowsTypeOK
<1>8. ImportsTypeOK' /\ OrdersOnce'
  BY <1>2, <1>3, <1>6 DEF IInv, ImportsTypeOK, OrdersOnce, OnceEach
<1>9. RowsTypeOK'
  <2> SUFFICES ASSUME NEW q \in Platforms
               PROVE  /\ DOMAIN contacts'[q] \subseteq Ids /\ DOMAIN orders'[q] \subseteq STRING
                      /\ \A x \in DOMAIN contacts'[q] : contacts'[q][x] \in RowType
                      /\ \A o \in DOMAIN orders'[q] : orders'[q][o].contact \in DOMAIN contacts'[q]
    BY <1>2, <1>7, Zenon DEF RowsTypeOK, IInv
  <2>1. /\ DOMAIN contacts[q] \subseteq Ids /\ DOMAIN orders[q] \subseteq STRING
        /\ \A x \in DOMAIN contacts[q] : contacts[q][x] \in RowType
        /\ \A o \in DOMAIN orders[q] : orders[q][o].contact \in DOMAIN contacts[q]
    BY DEF IInv, RowsTypeOK
  <2>2. \A x \in DOMAIN contacts'[q] : contacts'[q][x] \in RowType
    BY <1>5, <1>7, <2>1
  <2> QED
    BY <1>2, <1>7, <2>1, <2>2
<1>10. Has(rec)
  BY <1>1, <1>3, <1>4 DEF Has, Working
<1>11. InHand'
  BY <1>6, <1>10 DEF IInv, InHand
<1>12. PeopleAreThere'
  <2> SUFFICES ASSUME NEW k \in Importers, importer'[k].pc = "sync"
               PROVE  IdsOf(importer'[k].people) \subseteq DOMAIN contacts'[Platform(k)']
    BY Zenon DEF PeopleAreThere
  <2>1. importer'[k] = importer[k] /\ importer[k].pc = "sync" /\ Platform(k)' = Platform(k)
    BY <1>3, <1>6 DEF Platform
  <2>2. Platform(k) \in Platforms
    BY <2>1, Heads DEF Working
  <2> QED
    BY <1>7, <2>1, <2>2 DEF IInv, PeopleAreThere
<1>13. RowsWere'
  BY <1>2, <1>3, <1>6 DEF IInv, RowsWere, WasRow
<1>14. AloneIsAlone' /\ NobodyExpires' /\ TokenStaysAlive'
  BY <1>2, <1>3, <1>6 DEF IInv, AloneIsAlone, NobodyExpires, TokenStaysAlive
<1>15. PinsAreLive'
  <2> SUFFICES ASSUME NEW k \in Importers, NEW q \in Platforms,
                      importer'[k].alone, importer'[k].pins[q] # None
               PROVE  IF connector'[q].row = importer'[k].pins[q].row
                      THEN \/ importer'[k].pc = "sync" /\ Platform(k)' = q
                           \/ Live(q)' = IdsOf(importer'[k].pins[q].snap.people)
                      ELSE \/ importer'[k].pc = "failed"
                           \/ \A s \in connector'[q].newest : s.kind = "settings"
    BY Zenon DEF PinsAreLive
  <2>1. k = i /\ importer'[k].pins = r.pins /\ r.alone /\ r.pins[q] # None
    BY <1>3, <1>6
  <2>2. IF connector[q].row = r.pins[q].row
        THEN q = p \/ Live(q) = IdsOf(r.pins[q].snap.people)
        ELSE \A s \in connector[q].newest : s.kind = "settings"
    BY <1>1, <2>1 DEF IInv, PinsAreLive
  <2>3. CASE q # p
    BY <1>2, <1>7, <2>1, <2>2, <2>3 DEF Live
  <2>4. CASE q = p
    <3>1. r.pins[p].row = r.row /\ r.pins[p].snap.people = r.people
      BY <1>1, <2>1, <2>4 DEF Has, Platform
    <3>2. CASE connector[p].row = r.row
      <4>1. live \subseteq DOMAIN contacts[p]
        BY <1>1 DEF IInv, PeopleAreThere
      <4>2. contacts'[p] = rows
        BY <1>7, <3>2
      <4>3. Live(q)' = {c \in DOMAIN rows : ~rows[c].excluded}
        <5> HIDE DEF p
        <5> QED
          BY <4>2, <2>4 DEF Live
      <4>4. {c \in DOMAIN rows : ~rows[c].excluded} = live
        BY <1>5, <4>1
      <4> QED
        BY <1>2, <2>1, <2>4, <3>1, <3>2, <4>3, <4>4
    <3>3. CASE connector[p].row # r.row
      BY <1>2, <2>1, <2>2, <2>4, <3>1, <3>3
    <3> QED
      BY <3>2, <3>3
  <2> QED
    BY <2>3, <2>4
<1>16. OrdersReachTheirBuyer'
  <2> SUFFICES ASSUME NEW k \in Importers, NEW q \in Platforms, importer'[k].pins[q] # None,
                      NEW o \in importer'[k].pins[q].snap.orders, BoundTo(q, o) # ""
               PROVE  /\ o.id \in DOMAIN orders'[q]
                      /\ orders'[q][o.id].contact \in DOMAIN contacts'[q]
                      /\ importer'[k].alone => orders'[q][o.id].contact = BoundTo(q, o)
    BY Zenon DEF OrdersReachTheirBuyer
  <2>1. importer'[k].pins = importer[k].pins /\ importer'[k].alone = importer[k].alone
    BY <1>3, <1>6
  <2>2. /\ o.id \in DOMAIN orders[q]
        /\ orders[q][o.id].contact \in DOMAIN contacts[q]
        /\ importer[k].alone => orders[q][o.id].contact = BoundTo(q, o)
    BY <2>1 DEF IInv, OrdersReachTheirBuyer
  <2> QED
    BY <1>2, <1>7, <2>1, <2>2
<1>17. \A k \in Importers : \A q \in Platforms :
         importer'[k].judged[q] # None => k # i /\ importer'[k] = importer[k] /\ ~importer[k].alone
  BY <1>3, <1>4, <1>6
<1>18. UniverseIsItsOwn' /\ JudgedAreLive'
  BY <1>17 DEF IInv, UniverseIsItsOwn, JudgedAreLive
<1> QED
  BY <1>8, <1>9, <1>11, <1>12, <1>13, <1>14, <1>15, <1>16, <1>18 DEF IInv

---------------------------------------------------------------------------------
(* What a score freezes                                                               *)

LEMMA PurchasesAreIds ==
  ASSUME IInv, NEW p \in Platforms, NEW s \in SnapType
  PROVE  /\ Purchases(p, s) \subseteq STRING
         /\ s.orders # {} => Purchases(p, s) \subseteq IdsOf(s.orders)
<1>1. DOMAIN orders[p] \subseteq STRING /\ s.orders \in SUBSET OrderType
  BY DEF IInv, RowsTypeOK, SnapType
<1>2. /\ _shopify_orders_from_db(orders[p]) \subseteq STRING
      /\ _manago_purchases_from_db(orders[p], contacts[p]) \subseteq STRING
  BY <1>1 DEF _shopify_orders_from_db, _manago_purchases_from_db
<1>3. /\ _shopify_orders_from_raw(s.orders) \subseteq IdsOf(s.orders)
      /\ _manago_purchases_from_raw(s.orders) \subseteq IdsOf(s.orders)
  BY DEF _shopify_orders_from_raw, _manago_purchases_from_raw, IdsOf
<1>4. IdsOf(s.orders) \subseteq STRING
  BY <1>1 DEF IdsOf, OrderType
<1> QED
  BY <1>2, <1>3, <1>4 DEF Purchases

(* Whom a score judges: by its pin, or by the newest snapshots or the live rows.              *)
LEMMA JudgedAre ==
  ASSUME IInv, NEW i \in Importers, NEW p \in Platforms, importer[i].pc = "freeze", NEW j \in Judged(i, p)
  PROVE  /\ j \in JudgedType /\ j.row = connector[p].row
         /\ (importer[i].pins[p] # None /\ connector[p].row = importer[i].pins[p].row) =>
              /\ j.people = IdsOf(importer[i].pins[p].snap.people)
              /\ importer[i].pins[p].snap.orders # {} =>
                   j.purchases \subseteq IdsOf(importer[i].pins[p].snap.orders)
         /\ (importer[i].alone /\ importer[i].pins[p] # None) => j.people = Live(p)
<1> DEFINE pin == importer[i].pins[p]
           snaps == _snapshot_data_for_platform(connector[p], pin)
<1>1. PICK c \in _load_platform_contacts(snaps, contacts[p]) :
        \E o \in {Purchases(p, s) : s \in IF snaps = {} THEN {Empty} ELSE snaps} :
          j = [row |-> connector[p].row, people |-> c, purchases |-> o]
  BY DEF Judged
<1>2. PICK s \in IF snaps = {} THEN {Empty} ELSE snaps :
        j = [row |-> connector[p].row, people |-> c, purchases |-> Purchases(p, s)]
  BY <1>1
<1>3. /\ connector[p].row \in Nat /\ connector[p].newest \in SUBSET SnapType
      /\ pin # None => pin.snap \in SnapType /\ pin.snap.kind = "fetched"
      /\ DOMAIN contacts[p] \subseteq Ids
  <2>1. pin # None => pin \in PinType
    BY Types DEF ImporterType
  <2>2. pin # None => pin.snap.kind = "fetched"
    BY DEF IInv, InHand, Has
  <2>3. connector[p] \in ConnectorType
    BY Types
  <2>4. DOMAIN contacts[p] \subseteq Ids
    BY DEF IInv, RowsTypeOK
  <2> HIDE DEF pin
  <2> QED
    BY <2>1, <2>2, <2>3, <2>4 DEF PinType, ConnectorType
<1>4. Empty \in SnapType
  BY DEF Empty, SnapType
<1>5. /\ (pin # None /\ pin.row = connector[p].row) => snaps = {pin.snap}
      /\ ~(pin # None /\ pin.row = connector[p].row) => snaps = connector[p].newest
  BY DEF _snapshot_data_for_platform
<1>6. snaps \in SUBSET SnapType
  BY <1>3, <1>5
<1>7. (importer[i].alone /\ pin # None) =>
        IF connector[p].row = pin.row THEN Live(p) = IdsOf(pin.snap.people)
        ELSE \A x \in connector[p].newest : x.kind = "settings"
  BY DEF IInv, PinsAreLive
<1> HIDE DEF pin, snaps
<1>8. c = Live(p) \/ \E x \in snaps : x.kind # "settings" /\ c = IdsOf(x.people)
  BY <1>1 DEF _load_platform_contacts, Live
<1>9. \A x \in SnapType : IdsOf(x.people) \subseteq Ids
  <2> TAKE x \in SnapType
  <2>1. x.people \in SUBSET PersonType
    BY DEF SnapType
  <2>2. \A c1 \in x.people : c1.id \in STRING
    BY <2>1 DEF PersonType
  <2> QED
    BY <2>2 DEF IdsOf, Ids, Text
<1>10. Live(p) \subseteq Ids
  BY <1>3 DEF Live
<1>11. c \subseteq Ids
  BY <1>6, <1>8, <1>9, <1>10
<1>12. s \in SnapType
  BY <1>2, <1>4, <1>6
<1>13. Purchases(p, s) \subseteq STRING /\ (s.orders # {} => Purchases(p, s) \subseteq IdsOf(s.orders))
  BY <1>12, PurchasesAreIds
<1>14. j.row = connector[p].row /\ j.people = c /\ j.purchases = Purchases(p, s)
  BY <1>2
<1>15. j \in JudgedType
  BY <1>2, <1>3, <1>11, <1>13 DEF JudgedType
<1>16. (pin # None /\ pin.row = connector[p].row) => c = IdsOf(pin.snap.people) /\ s = pin.snap
  <2> SUFFICES ASSUME pin # None, pin.row = connector[p].row
               PROVE  c = IdsOf(pin.snap.people) /\ s = pin.snap
    OBVIOUS
  <2>1. snaps = {pin.snap} /\ pin.snap.kind # "settings"
    BY <1>3, <1>5
  <2>2. c \in {IF x.kind = "settings" THEN {y \in DOMAIN contacts[p] : ~contacts[p][y].excluded}
               ELSE IdsOf(x.people) : x \in snaps}
    BY <1>1, <2>1 DEF _load_platform_contacts
  <2>3. s \in snaps
    BY <1>2, <2>1
  <2> QED
    BY <2>1, <2>2, <2>3
<1>17. (importer[i].alone /\ pin # None) => c = Live(p)
  BY <1>5, <1>7, <1>8, <1>16
<1> QED
  BY <1>13, <1>14, <1>15, <1>16, <1>17 DEF pin

LEMMA FreezeStep ==
  ASSUME IInv, NEW i \in Importers, NEW p \in Platforms, Freeze(i, p)
  PROVE  IInv'
<1> DEFINE r == importer[i]
<1>1. PICK j \in Judged(i, p) :
        importer' = [importer EXCEPT ![i] = [importer[i] EXCEPT !.judged[p] = j,
                       !.pc = IF p = "shopify" THEN "freeze" ELSE "frozen"]]
  BY DEF Freeze, Becomes
<1>2. r \in ImporterType /\ r.pc = "freeze" /\ Has(r)
  BY Types DEF Freeze, At, IInv, InHand
<1>3. /\ j \in JudgedType /\ j.row = connector[p].row
      /\ (r.pins[p] # None /\ connector[p].row = r.pins[p].row) =>
           /\ j.people = IdsOf(r.pins[p].snap.people)
           /\ r.pins[p].snap.orders # {} => j.purchases \subseteq IdsOf(r.pins[p].snap.orders)
      /\ (r.alone /\ r.pins[p] # None) => j.people = Live(p)
  BY <1>1, <1>2, JudgedAre
<1>4. /\ shown' = shown /\ connector' = connector /\ token' = token /\ contacts' = contacts
      /\ orders' = orders /\ left' = left
  BY DEF Freeze
<1> DEFINE judged == [r.judged EXCEPT ![p] = j]
           pc == IF p = "shopify" THEN "freeze" ELSE "frozen"
           rec == [r EXCEPT !.judged = judged, !.pc = pc]
<1>5. /\ judged \in [Platforms -> JudgedType \cup {None}] /\ judged[p] = j
      /\ \A q \in Platforms \ {p} : judged[q] = r.judged[q]
  <2>1. r.judged \in [Platforms -> JudgedType \cup {None}]
    BY <1>2 DEF ImporterType
  <2> QED
    BY <1>3, <2>1
<1>6. importer' = [importer EXCEPT ![i] = rec] /\ pc \in {"freeze", "frozen"}
  <2>1. [r EXCEPT !.judged[p] = j, !.pc = pc] = rec
    BY <1>2 DEF ImporterType
  <2> QED
    BY <1>1, <2>1
<1> HIDE DEF judged, pc
<1>7. /\ rec \in ImporterType /\ rec.pc = pc /\ rec.judged = judged /\ rec.pins = r.pins
      /\ rec.alone = r.alone /\ rec.orders = r.orders /\ rec.row = r.row
  <2> HIDE DEF r
  <2> QED
    BY <1>2, <1>5, <1>6 DEF ImporterType
<1> HIDE DEF rec
<1>8. /\ importer' \in [Importers -> ImporterType] /\ importer'[i] = rec
      /\ \A k \in Importers \ {i} : importer'[k] = importer[k] /\ ~importer[k].alone
  BY <1>2, <1>6, <1>7 DEF IInv, ImportsTypeOK, AloneIsAlone
<1>9. ImportsTypeOK' /\ RowsTypeOK' /\ OrdersOnce'
  BY <1>4, <1>7, <1>8 DEF IInv, ImportsTypeOK, RowsTypeOK, OrdersOnce
<1>10. Has(rec)
  BY <1>2, <1>6, <1>7 DEF Has, Working
<1>11. InHand'
  BY <1>8, <1>10 DEF IInv, InHand
<1>12. PeopleAreThere'
  BY <1>4, <1>6, <1>7, <1>8 DEF IInv, PeopleAreThere, Platform
<1>13. RowsWere'
  BY <1>4, <1>7, <1>8 DEF IInv, RowsWere
<1>14. AloneIsAlone' /\ NobodyExpires' /\ TokenStaysAlive'
  BY <1>2, <1>4, <1>6, <1>7, <1>8 DEF IInv, AloneIsAlone, NobodyExpires, TokenStaysAlive
<1>15. PinsAreLive'
  BY <1>2, <1>4, <1>6, <1>7, <1>8 DEF IInv, PinsAreLive, Platform, Live
<1>16. OrdersReachTheirBuyer'
  BY <1>4, <1>7, <1>8, ReachStays DEF IInv
<1>17. UniverseIsItsOwn'
  <2> SUFFICES ASSUME NEW k \in Importers, NEW q \in Platforms,
                      importer'[k].judged[q] # None, importer'[k].pins[q] # None,
                      importer'[k].judged[q].row = importer'[k].pins[q].row
               PROVE  /\ importer'[k].judged[q].people = IdsOf(importer'[k].pins[q].snap.people)
                      /\ importer'[k].pins[q].snap.orders # {} =>
                           importer'[k].judged[q].purchases \subseteq IdsOf(importer'[k].pins[q].snap.orders)
    BY Zenon DEF UniverseIsItsOwn
  <2>1. CASE k = i /\ q = p
    <3>1. importer'[k].judged[q] = j /\ importer'[k].pins[q] = r.pins[p]
      BY <1>5, <1>7, <1>8, <2>1
    <3> QED
      BY <1>3, <3>1
  <2>2. CASE ~(k = i /\ q = p)
    <3>1. importer'[k].judged[q] = importer[k].judged[q] /\ importer'[k].pins[q] = importer[k].pins[q]
      BY <1>5, <1>7, <1>8, <2>2
    <3>2. /\ importer[k].judged[q] # None /\ importer[k].pins[q] # None
          /\ importer[k].judged[q].row = importer[k].pins[q].row
      BY <3>1
    <3> HIDE DEF r
    <3>3. /\ importer[k].judged[q].people = IdsOf(importer[k].pins[q].snap.people)
          /\ importer[k].pins[q].snap.orders # {} =>
               importer[k].judged[q].purchases \subseteq IdsOf(importer[k].pins[q].snap.orders)
      BY <3>2 DEF IInv, UniverseIsItsOwn
    <3> QED
      BY <3>1, <3>3
  <2> QED
    BY <2>1, <2>2
<1>18. JudgedAreLive'
  <2> SUFFICES ASSUME NEW k \in Importers, NEW q \in Platforms, importer'[k].alone,
                      importer'[k].judged[q] # None, importer'[k].pins[q] # None
               PROVE  importer'[k].judged[q].people
                        = {c \in DOMAIN contacts'[q] : ~contacts'[q][c].excluded}
    BY Zenon DEF JudgedAreLive
  <2>0. Live(q) = {c \in DOMAIN contacts'[q] : ~contacts'[q][c].excluded}
    BY <1>4 DEF Live
  <2>1. k = i /\ r.alone /\ r.pins[q] # None /\ importer'[k].judged = judged
    BY <1>7, <1>8
  <2>2. CASE q = p
    BY <1>3, <1>5, <2>0, <2>1, <2>2
  <2>3. CASE q # p
    BY <1>5, <2>0, <2>1, <2>3 DEF IInv, JudgedAreLive, Live
  <2> QED
    BY <2>2, <2>3
<1> QED
  BY <1>9, <1>11, <1>12, <1>13, <1>14, <1>15, <1>16, <1>17, <1>18 DEF IInv

---------------------------------------------------------------------------------
(* The other steps of an import                                                        *)

(* An importer at work goes on with the place, the row, the data and the version of rec; pins,   *)
(* judgements and what is still to do stay.                                              *)
GoesOnAs(r, rec) ==
  /\ rec \in ImporterType
  /\ rec.pins = r.pins /\ rec.judged = r.judged /\ rec.alone = r.alone /\ rec.todo = r.todo
  /\ rec.pc \notin {"idle", "sync", "frozen"}

(* Its step keeps the invariant when nothing else changes.                                  *)
LEMMA QuietStep ==
  ASSUME IInv, NEW i \in Importers, NEW rec, GoesOnAs(importer[i], rec),
         importer' = [importer EXCEPT ![i] = rec],
         importer[i].pc \notin {"idle", "sync", "freeze", "frozen", "failed"}, rec.pc # "expired",
         importer[i].pc \in Working \/ rec.pc \notin Working,
         rec.pc \in {"orders", "version", "commit"} => rec.row # 0,
         WasRow(rec.row, left.moves), OnceEach(rec.orders),
         UNCHANGED <<shown, connector, token, contacts, orders>>,
         left' \in LeftType, left'.moves = left.moves
  PROVE  IInv'
<1>1. importer[i].pc \in Working => importer[i].todo # <<>>
  BY DEF IInv, InHand, Has
<1>2. /\ connector' \in [Platforms -> ConnectorType]
      /\ token' \in TokenType
      /\ TokenStaysAlive'
  BY DEF IInv, ImportsTypeOK, TokenStaysAlive
<1> QED
  BY <1>1, <1>2, KeepStep DEF GoesOnAs

LEMMA AtWork ==
  ASSUME IInv, NEW i \in Importers
  PROVE  /\ importer[i] \in ImporterType /\ Has(importer[i])
         /\ WasRow(importer[i].row, left.moves) /\ OnceEach(importer[i].orders)
         /\ importer[i].pc \in Working => Platform(i) \in Platforms /\ importer[i].todo # <<>>
  BY Types, Heads DEF IInv, InHand, Has, RowsWere, OrdersOnce

LEMMA FaultsLeft ==
  ASSUME IInv, Faults
  PROVE  left' \in LeftType /\ left'.moves = left.moves
<1>1. left \in LeftType /\ left.faults > 0 /\ left' = [left EXCEPT !.faults = @ - 1]
  BY Types DEF Faults
<1> QED
  BY <1>1 DEF LeftType

(* A good token is traded for the next one, or a refresh is lost, or access expires.           *)
LEMMA Tokens ==
  ASSUME NEW x \in TokenType
  PROVE  /\ [x EXCEPT !.good = @ + 1, !.stored = x.good + 1, !.expired = FALSE]
              \in {y \in TokenType : y.stored = y.good /\ y.lost = x.lost}
         /\ [x EXCEPT !.good = @ + 1, !.lost = TRUE] \in {y \in TokenType : y.lost}
         /\ [x EXCEPT !.expired = TRUE]
              \in {y \in TokenType : y.stored = x.stored /\ y.good = x.good /\ y.lost = x.lost}
<1> DEFINE n == x.good + 1
<1>1. n \in Nat
  BY DEF TokenType
<1> HIDE DEF n
<1>2. [x EXCEPT !.good = n, !.stored = n, !.expired = FALSE]
        \in {y \in TokenType : y.stored = y.good /\ y.lost = x.lost}
  BY <1>1 DEF TokenType
<1>3. [x EXCEPT !.good = n, !.lost = TRUE] \in {y \in TokenType : y.lost}
  BY <1>1 DEF TokenType
<1>4. [x EXCEPT !.expired = TRUE]
        \in {y \in TokenType : y.stored = x.stored /\ y.good = x.good /\ y.lost = x.lost}
  BY DEF TokenType
<1> QED
  BY <1>2, <1>3, <1>4 DEF n

LEMMA EnsureTokenStep ==
  ASSUME IInv, NEW i \in Importers, EnsureToken(i)
  PROVE  IInv'
<1> DEFINE r == importer[i]
           p == Platform(i)
           rec == IF p = "shopify" /\ connector[p].row = 0 THEN [r EXCEPT !.pc = "failed"]
                  ELSE IF p = "shopify" /\ token.expired THEN [r EXCEPT !.pc = "refresh", !.attempt = 1]
                  ELSE [r EXCEPT !.pc = "people", !.token = 0]
<1>1. r.pc = "token" /\ importer' = [importer EXCEPT ![i] = rec]
      /\ UNCHANGED <<shown, connector, token, contacts, orders, left>>
  BY DEF EnsureToken, At, Becomes
<1>2. /\ GoesOnAs(r, rec) /\ rec.pc \in {"failed", "refresh", "people"}
      /\ rec.row = r.row /\ rec.orders = r.orders
  <2> HIDE DEF p, rec, r
  <2>1. r \in ImporterType
    BY AtWork DEF r
  <2>2. CASE rec = [r EXCEPT !.pc = "failed"]
    BY <2>1, <2>2 DEF GoesOnAs, ImporterType
  <2>3. CASE rec = [r EXCEPT !.pc = "refresh", !.attempt = 1]
    BY <2>1, <2>3 DEF GoesOnAs, ImporterType, Working
  <2>4. CASE rec = [r EXCEPT !.pc = "people", !.token = 0]
    BY <2>1, <2>4 DEF GoesOnAs, ImporterType, Working
  <2> QED
    BY <2>2, <2>3, <2>4 DEF rec
<1> HIDE DEF rec
<1> QED
  BY <1>1, <1>2, AtWork, QuietStep, Types DEF Working

LEMMA RefreshStep ==
  ASSUME IInv, NEW i \in Importers, refresh_offline_access_token(i)
  PROVE  IInv'
<1> DEFINE r == importer[i]
<1>1. /\ r.pc = "refresh" /\ r.todo # <<>> /\ r \in ImporterType
      /\ shown' = shown /\ contacts' = contacts /\ orders' = orders /\ left' = left
  BY AtWork DEF refresh_offline_access_token, At, Working
<1>2. CASE RefreshToken(i) # token.good
  <2> DEFINE rec == [r EXCEPT !.pc = "expired"]
  <2>1. importer' = [importer EXCEPT ![i] = rec] /\ connector' = connector /\ token' = token
    BY <1>2 DEF refresh_offline_access_token, Goes, Becomes
  <2>2. GoesOnAs(r, rec) /\ rec.pc = "expired" /\ rec.row = r.row /\ rec.orders = r.orders
    BY <1>1 DEF GoesOnAs, ImporterType
  <2>3. token.lost
    BY <1>2 DEF IInv, TokenStaysAlive, RefreshToken
  <2>4. TokenStaysAlive' /\ connector' \in [Platforms -> ConnectorType]
    BY <2>1 DEF IInv, TokenStaysAlive, ImportsTypeOK
  <2> HIDE DEF rec
  <2> QED
    BY <1>1, <2>1, <2>2, <2>3, <2>4, AtWork, KeepStep, Types DEF Working, GoesOnAs
<1>3. CASE RefreshToken(i) = token.good
  <2> DEFINE rec == [r EXCEPT !.pc = "people", !.token = 0, !.attempt = 0]
             c == AddSnapshot(connector["shopify"], connector["shopify"].version + 1, Settings)
  <2>1. /\ importer' = [importer EXCEPT ![i] = rec]
        /\ connector' = [connector EXCEPT !["shopify"] = c]
        /\ token' = [token EXCEPT !.good = @ + 1, !.stored = token.good + 1, !.expired = FALSE]
    BY <1>3 DEF refresh_offline_access_token, Becomes
  <2>2. GoesOnAs(r, rec) /\ rec.pc = "people" /\ rec.row = r.row /\ rec.orders = r.orders
    BY <1>1 DEF GoesOnAs, ImporterType, Working
  <2>3. "shopify" \in Platforms /\ connector["shopify"] \in ConnectorType
    BY Types DEF Platforms
  <2>4. connector["shopify"].version + 1 \in Nat /\ Settings \in SnapType
    BY <2>3 DEF ConnectorType, Settings, SnapType
  <2>5. /\ c \in ConnectorType /\ c.row = connector["shopify"].row
        /\ c.status = connector["shopify"].status /\ c.newest = {Settings}
    BY <2>3, <2>4, AddedSnapshot
  <2> HIDE DEF rec, c
  <2>6. /\ connector' \in [Platforms -> ConnectorType]
        /\ \A p \in Platforms :
             /\ connector'[p].row = connector[p].row
             /\ connector'[p].newest = connector[p].newest \/ connector'[p].newest = {Settings}
        /\ connector'["shopify"].status = connector["shopify"].status
    BY <2>1, <2>3, <2>5 DEF IInv, ImportsTypeOK
  <2>7. /\ token' \in TokenType
        /\ token'.stored = token'.good /\ token'.lost = token.lost
    <3>1. token \in TokenType
      BY Types
    <3> QED
      BY <2>1, <3>1, Tokens
  <2>8. TokenStaysAlive'
    BY <2>6, <2>7 DEF IInv, TokenStaysAlive
  <2>9. \A p \in Platforms :
          /\ connector'[p].row = connector[p].row
          /\ \/ connector'[p].newest = connector[p].newest
             \/ \A s \in connector'[p].newest : s.kind = "settings"
             \/ rec.pc = "failed"
    BY <2>6 DEF Settings
  <2>10. WasRow(rec.row, left.moves) /\ OnceEach(rec.orders) /\ left' \in LeftType
    BY <1>1, <2>2, AtWork, Types
  <2>11. importer' = [importer EXCEPT ![i] = rec] /\ connector' \in [Platforms -> ConnectorType]
    BY <2>1, <2>6
  <2> QED
    BY <1>1, <2>2, <2>7, <2>8, <2>9, <2>10, <2>11, KeepStep DEF Working, GoesOnAs
<1> QED
  BY <1>2, <1>3

LEMMA RetryStep ==
  ASSUME IInv, NEW i \in Importers, _post_form_with_retry(i)
  PROVE  IInv'
<1> DEFINE r == importer[i]
           rec == IF r.attempt < Attempts THEN [r EXCEPT !.attempt = @ + 1] ELSE [r EXCEPT !.pc = "failed"]
<1>1. /\ r.pc = "refresh" /\ r.todo # <<>> /\ r \in ImporterType
      /\ importer' = [importer EXCEPT ![i] = rec]
      /\ shown' = shown /\ connector' = connector /\ contacts' = contacts /\ orders' = orders
      /\ left' \in LeftType /\ left'.moves = left.moves
  BY AtWork, FaultsLeft DEF _post_form_with_retry, At, Working, Becomes
<1>2. GoesOnAs(r, rec) /\ rec.pc \in {"refresh", "failed"} /\ rec.row = r.row /\ rec.orders = r.orders
  <2>1. r.attempt + 1 \in Nat
    BY <1>1 DEF ImporterType
  <2> HIDE DEF r
  <2>2. CASE r.attempt < Attempts
    <3>1. rec = [r EXCEPT !.attempt = r.attempt + 1]
      BY <2>2
    <3> HIDE DEF rec
    <3> QED
      BY <1>1, <2>1, <3>1 DEF GoesOnAs, ImporterType
  <2>3. CASE ~(r.attempt < Attempts)
    <3>1. rec = [r EXCEPT !.pc = "failed"]
      BY <2>3
    <3> HIDE DEF rec
    <3> QED
      BY <1>1, <3>1 DEF GoesOnAs, ImporterType
  <2> QED
    BY <2>2, <2>3
<1>3. /\ token' \in TokenType
      /\ token' = token \/ token'.lost
  <2>1. token \in TokenType
    BY Types
  <2>2. token' = token \/ token' = [token EXCEPT !.good = @ + 1, !.lost = TRUE]
    BY DEF _post_form_with_retry
  <2>3. CASE token' = token
    BY <2>1, <2>3
  <2>4. CASE token' = [token EXCEPT !.good = @ + 1, !.lost = TRUE]
    <3>1. token' \in {y \in TokenType : y.lost}
      BY <2>1, <2>4, Tokens
    <3> QED
      BY <3>1
  <2> QED
    BY <2>2, <2>3, <2>4
<1>4. TokenStaysAlive' /\ (~token'.lost => ~token.lost)
  BY <1>1, <1>3 DEF IInv, TokenStaysAlive
<1>5. connector' \in [Platforms -> ConnectorType]
  BY <1>1 DEF IInv, ImportsTypeOK
<1> HIDE DEF rec
<1> QED
  BY <1>1, <1>2, <1>3, <1>4, <1>5, AtWork, KeepStep DEF Working, GoesOnAs

LEMMA MarkExpiredStep ==
  ASSUME IInv, NEW i \in Importers, MarkExpired(i)
  PROVE  IInv'
<1> DEFINE r == importer[i]
           rec == [r EXCEPT !.pc = "failed"]
<1>1. /\ r.pc = "expired" /\ r \in ImporterType /\ token.lost
      /\ importer' = [importer EXCEPT ![i] = rec]
      /\ shown' = shown /\ token' = token /\ contacts' = contacts /\ orders' = orders /\ left' = left
  BY AtWork DEF MarkExpired, At, Goes, Becomes, IInv, NobodyExpires
<1>2. GoesOnAs(r, rec) /\ rec.pc = "failed" /\ rec.row = r.row /\ rec.orders = r.orders
  BY <1>1 DEF GoesOnAs, ImporterType
<1>3. /\ connector' \in [Platforms -> ConnectorType]
      /\ \A p \in Platforms : connector'[p].row = connector[p].row
  <2>1. connector["shopify"] \in ConnectorType
    BY Types DEF Platforms
  <2>2. /\ [connector["shopify"] EXCEPT !.status = "error"] \in ConnectorType
        /\ [connector["shopify"] EXCEPT !.status = "error"].row = connector["shopify"].row
    BY <2>1 DEF ConnectorType
  <2> QED
    BY <2>2 DEF MarkExpired, IInv, ImportsTypeOK
<1>4. TokenStaysAlive'
  BY <1>1 DEF TokenStaysAlive
<1> HIDE DEF rec
<1> QED
  BY <1>1, <1>2, <1>3, <1>4, AtWork, KeepStep, Types DEF Working, GoesOnAs

LEMMA FetchPeopleStep ==
  ASSUME IInv, NEW i \in Importers, FetchPeople(i)
  PROVE  IInv'
<1> DEFINE r == importer[i]
           c == connector[Platform(i)]
           people == shown[Platform(i)].people
           rec == IF c.row = 0 THEN [r EXCEPT !.pc = "failed"]
                  ELSE [r EXCEPT !.pc = "orders", !.row = c.row, !.people = people]
<1>1. /\ r.pc = "people" /\ r \in ImporterType /\ Platform(i) \in Platforms
      /\ importer' = [importer EXCEPT ![i] = rec]
      /\ UNCHANGED <<shown, connector, token, contacts, orders, left>>
  BY AtWork DEF FetchPeople, At, Becomes, Working
<1>2. c.row \in Nat /\ people \in SUBSET PersonType /\ WasRow(c.row, left.moves)
  BY <1>1, Types DEF ConnectorType, IInv, RowsWere
<1> HIDE DEF c, people
<1>3. /\ GoesOnAs(r, rec) /\ rec.orders = r.orders
      /\ \/ rec.pc = "failed" /\ rec.row = r.row
         \/ rec.pc = "orders" /\ rec.row = c.row /\ c.row # 0
  BY <1>1, <1>2 DEF GoesOnAs, ImporterType, Working
<1>4. WasRow(rec.row, left.moves)
  BY <1>2, <1>3, AtWork
<1> HIDE DEF rec
<1> QED
  BY <1>1, <1>3, <1>4, AtWork, QuietStep, Types DEF Working

LEMMA FetchOrdersStep ==
  ASSUME IInv, NEW i \in Importers, FetchOrders(i)
  PROVE  IInv'
<1> DEFINE r == importer[i]
           now == shown[Platform(i)]
           bodies == {c \in now.people : c.id \in IdsOf(r.people)}
           people == IF Platform(i) = "shopify" THEN r.people ELSE bodies
           ordered == IF Platform(i) = "shopify" THEN now.orders
                      ELSE {o \in now.orders : o.buyer \in IdsOf(bodies)}
           rec == [r EXCEPT !.pc = "version", !.people = people, !.orders = ordered]
<1>1. /\ r.pc = "orders" /\ r \in ImporterType /\ Platform(i) \in Platforms /\ r.row # 0
      /\ importer' = [importer EXCEPT ![i] = rec]
      /\ UNCHANGED <<shown, connector, token, contacts, orders, left>>
  BY AtWork DEF FetchOrders, At, Becomes, Working, Has
<1>2. /\ now.people \in SUBSET PersonType /\ now.orders \in SUBSET OrderType /\ OnceEach(now.orders)
      /\ r.people \in SUBSET PersonType
  BY <1>1, Types DEF IInv, OrdersOnce, ImporterType
<1>3. people \in SUBSET PersonType /\ ordered \in SUBSET OrderType /\ OnceEach(ordered)
  BY <1>2 DEF OnceEach
<1> HIDE DEF people, ordered
<1>4. GoesOnAs(r, rec) /\ rec.pc = "version" /\ rec.row = r.row /\ rec.orders = ordered
  BY <1>1, <1>3 DEF GoesOnAs, ImporterType, Working
<1> HIDE DEF rec
<1> QED
  BY <1>1, <1>3, <1>4, AtWork, QuietStep, Types DEF Working

LEMMA FetchFailsStep ==
  ASSUME IInv, NEW i \in Importers, FetchFails(i)
  PROVE  IInv'
<1> DEFINE r == importer[i]
           rec == [r EXCEPT !.pc = "failing"]
<1>1. /\ r.pc \in {"people", "orders"} /\ r \in ImporterType
      /\ importer' = [importer EXCEPT ![i] = rec]
      /\ UNCHANGED <<shown, connector, token, contacts, orders>>
      /\ left' \in LeftType /\ left'.moves = left.moves
  BY AtWork, FaultsLeft DEF FetchFails, At, Goes, Becomes
<1>2. GoesOnAs(r, rec) /\ rec.pc = "failing" /\ rec.row = r.row /\ rec.orders = r.orders
  BY <1>1 DEF GoesOnAs, ImporterType, Working
<1> HIDE DEF rec
<1> QED
  BY <1>1, <1>2, AtWork, QuietStep DEF Working

LEMMA ReadVersionStep ==
  ASSUME IInv, NEW i \in Importers, ReadVersion(i)
  PROVE  IInv'
<1> DEFINE r == importer[i]
           version == connector[Platform(i)].version + 1
           rec == [r EXCEPT !.pc = "commit", !.version = version]
<1>1. /\ r.pc = "version" /\ r \in ImporterType /\ Platform(i) \in Platforms /\ r.row # 0
      /\ importer' = [importer EXCEPT ![i] = rec]
      /\ UNCHANGED <<shown, connector, token, contacts, orders, left>>
  BY AtWork DEF ReadVersion, At, Becomes, Working, Has
<1>2. version \in Nat
  BY <1>1, Types DEF ConnectorType
<1> HIDE DEF version
<1>3. GoesOnAs(r, rec) /\ rec.pc = "commit" /\ rec.row = r.row /\ rec.orders = r.orders
  BY <1>1, <1>2 DEF GoesOnAs, ImporterType, Working
<1> HIDE DEF rec
<1> QED
  BY <1>1, <1>3, AtWork, QuietStep, Types DEF Working

LEMMA FailImportStep ==
  ASSUME IInv, NEW i \in Importers, FailImport(i)
  PROVE  IInv'
<1> DEFINE r == importer[i]
           p == Platform(i)
           rec == [r EXCEPT !.pc = "failed"]
           c == AddSnapshot(connector[p], connector[p].version + 1, Empty)
<1>1. /\ r.pc = "failing" /\ r \in ImporterType /\ p \in Platforms
      /\ importer' = [importer EXCEPT ![i] = rec]
      /\ connector' = IF connector[p].row # r.row THEN connector ELSE [connector EXCEPT ![p] = c]
      /\ UNCHANGED <<shown, token, contacts, orders, left>>
  BY AtWork DEF FailImport, At, Goes, Becomes, Working
<1>2. GoesOnAs(r, rec) /\ rec.pc = "failed" /\ rec.row = r.row /\ rec.orders = r.orders
  BY <1>1 DEF GoesOnAs, ImporterType
<1>3. connector[p] \in ConnectorType /\ connector[p].version + 1 \in Nat /\ Empty \in SnapType
  BY <1>1, Types DEF ConnectorType, Empty, SnapType
<1>4. c \in ConnectorType /\ c.row = connector[p].row /\ c.status = connector[p].status
  <2> HIDE DEF p
  <2> QED
    BY <1>3, AddedSnapshot
<1> HIDE DEF rec, c
<1>5. /\ connector' \in [Platforms -> ConnectorType]
      /\ \A q \in Platforms : /\ connector'[q].row = connector[q].row
                              /\ connector'[q].status = connector[q].status
  BY <1>1, <1>4 DEF IInv, ImportsTypeOK
<1>6. TokenStaysAlive'
  BY <1>1, <1>5 DEF IInv, TokenStaysAlive, Platforms
<1> QED
  BY <1>1, <1>2, <1>5, <1>6, AtWork, KeepStep, Types DEF Working, GoesOnAs

LEMMA AssertCoveredStep ==
  ASSUME IInv, NEW i \in Importers, AssertCovered(i)
  PROVE  IInv'
<1> DEFINE r == importer[i]
           pc == IF IsCovered(i) THEN "freeze" ELSE "failed"
           rec == [r EXCEPT !.pc = pc]
<1>1. /\ r.pc = "covered" /\ r \in ImporterType
      /\ importer' = [importer EXCEPT ![i] = rec]
      /\ UNCHANGED <<shown, connector, token, contacts, orders, left>>
  BY AtWork DEF AssertCovered, At, Goes, Becomes
<1>2. pc \in {"freeze", "failed"}
  OBVIOUS
<1> HIDE DEF pc
<1>3. GoesOnAs(r, rec) /\ rec.pc \in {"freeze", "failed"} /\ rec.row = r.row /\ rec.orders = r.orders
  BY <1>1, <1>2 DEF GoesOnAs, ImporterType
<1> HIDE DEF rec
<1> QED
  BY <1>1, <1>3, AtWork, QuietStep, Types DEF Working

---------------------------------------------------------------------------------
(* The starts and the moves outside the imports                                        *)

LEMMA StartScoreStep ==
  ASSUME IInv, NEW i \in Importers, StartScore(i)
  PROVE  IInv'
<1> DEFINE todo == _connected_connectors
           rec == [Away EXCEPT !.kind = "score", !.pc = IF todo = <<>> THEN "covered" ELSE "token",
                               !.todo = todo, !.token = token.stored]
<1>1. /\ StartAs(i, rec) /\ left' = [left EXCEPT !.imports = @ - 1] /\ left.imports > 0
      /\ UNCHANGED <<shown, contacts, orders, connector, token>>
  BY DEF StartScore
<1>2. todo \in Seq(Platforms) /\ token.stored \in Nat
  <2>1. <<>> \in Seq(Platforms) /\ <<"manago_ai">> \in Seq(Platforms) /\ <<"shopify">> \in Seq(Platforms)
    BY DEF Platforms
  <2>2. <<"shopify", "manago_ai">> \in Seq(Platforms)
    BY DEF Platforms
  <2>3. token.stored \in Nat
    BY Types DEF TokenType
  <2> QED
    BY <2>1, <2>2, <2>3 DEF _connected_connectors
<1>3. left' \in LeftType /\ left'.moves = left.moves
  BY <1>1, Types DEF LeftType
<1> HIDE DEF todo
<1>4. /\ rec \in ImporterType /\ rec.pc \in {"covered", "token"} /\ rec.pins = Away.pins
      /\ rec.judged = Away.judged /\ rec.orders = Away.orders /\ rec.row = Away.row
      /\ rec.pc = "token" => rec.todo # <<>>
  BY <1>2, AwayType DEF ImporterType, Working
<1> HIDE DEF rec
<1> QED
  BY <1>1, <1>3, <1>4, AwayType, StartStep

LEMMA StartBootstrapStep ==
  ASSUME IInv, NEW i \in Importers, NEW p \in Platforms, StartBootstrap(i, p)
  PROVE  IInv'
<1> DEFINE rec == [Away EXCEPT !.kind = "bootstrap", !.pc = "token", !.todo = <<p>>, !.token = token.stored]
<1>1. /\ StartAs(i, rec) /\ left' = [left EXCEPT !.imports = @ - 1] /\ left.imports > 0
      /\ UNCHANGED <<shown, contacts, orders, connector, token>>
  BY DEF StartBootstrap
<1>2. <<p>> \in Seq(Platforms) /\ token.stored \in Nat
  BY Types DEF TokenType
<1>3. left' \in LeftType /\ left'.moves = left.moves
  BY <1>1, Types DEF LeftType
<1>4. /\ rec \in ImporterType /\ rec.pc = "token" /\ rec.pins = Away.pins
      /\ rec.judged = Away.judged /\ rec.orders = Away.orders /\ rec.row = Away.row
      /\ rec.todo # <<>>
  BY <1>2, AwayType DEF ImporterType, Working
<1> HIDE DEF rec
<1> QED
  BY <1>1, <1>3, <1>4, AwayType, StartStep

LEMMA MovesLeft ==
  ASSUME IInv, Moves
  PROVE  /\ left.moves > 0 /\ left' = [left EXCEPT !.moves = @ - 1]
         /\ left' \in LeftType /\ left.moves \in Nat /\ left'.moves = left.moves - 1
<1>1. left \in LeftType /\ left.moves > 0 /\ left' = [left EXCEPT !.moves = @ - 1]
  BY Types DEF Moves
<1> QED
  BY <1>1 DEF LeftType

(* A platform shows something else, or access expires: only what a row to come may be narrows.   *)
LEMMA OutsideStep ==
  ASSUME IInv, Moves, UNCHANGED <<connector, contacts, orders, importer>>,
         shown' \in [Platforms -> [people : SUBSET PersonType, orders : SUBSET OrderType]],
         \A p \in Platforms : OnceEach(shown'[p].orders),
         token' \in TokenType, token'.lost = token.lost, TokenStaysAlive'
  PROVE  IInv'
<1>1. /\ left' \in LeftType /\ left.moves \in Nat /\ left'.moves = left.moves - 1
      /\ \A n \in Nat : WasRow(n, left.moves) => WasRow(n, left'.moves)
  BY MovesLeft DEF WasRow
<1>2. ImportsTypeOK' /\ RowsTypeOK' /\ OrdersOnce' /\ InHand' /\ PeopleAreThere'
  BY <1>1 DEF IInv, ImportsTypeOK, RowsTypeOK, OrdersOnce, InHand, PeopleAreThere, Platform
<1>3. RowsWere'
  <2>1. \A p \in Platforms : WasRow(connector[p].row, left'.moves)
    BY <1>1, Types DEF IInv, RowsWere, ConnectorType
  <2>2. \A i \in Importers : WasRow(importer[i].row, left'.moves)
    BY <1>1, Types DEF IInv, RowsWere, ImporterType
  <2>3. \A i \in Importers : \A p \in Platforms :
          importer[i].pins[p] # None => WasRow(importer[i].pins[p].row, left'.moves)
    <3> SUFFICES ASSUME NEW i \in Importers, NEW p \in Platforms, importer[i].pins[p] # None
                 PROVE  WasRow(importer[i].pins[p].row, left'.moves)
      OBVIOUS
    <3>1. importer[i].pins[p] \in PinType
      BY Types DEF ImporterType
    <3>2. importer[i].pins[p].row \in Nat
      BY <3>1 DEF PinType
    <3> QED
      BY <1>1, <3>2 DEF IInv, RowsWere
  <2> QED
    BY <2>1, <2>2, <2>3 DEF RowsWere
<1>4. AloneIsAlone' /\ NobodyExpires' /\ PinsAreLive'
  BY DEF IInv, AloneIsAlone, NobodyExpires, PinsAreLive, Live, Platform
<1>5. OrdersReachTheirBuyer' /\ UniverseIsItsOwn' /\ JudgedAreLive'
  BY ReachStays, JudgementsStay DEF IInv
<1> QED
  BY <1>2, <1>3, <1>4, <1>5 DEF IInv

LEMMA PlatformChangesStep ==
  ASSUME IInv, NEW p \in Platforms, PlatformChanges(p)
  PROVE  IInv'
<1>1. PICK view \in Views[p] : shown' = [shown EXCEPT ![p] = view]
  BY DEF PlatformChanges
<1>2. view \in [people : SUBSET PersonType, orders : SUBSET OrderType] /\ OnceEach(view.orders)
  BY ViewsAssumption DEF Platforms
<1>3. /\ shown' \in [Platforms -> [people : SUBSET PersonType, orders : SUBSET OrderType]]
      /\ \A q \in Platforms : OnceEach(shown'[q].orders)
  BY <1>1, <1>2 DEF IInv, ImportsTypeOK, OrdersOnce
<1>4. Moves /\ UNCHANGED <<connector, token, contacts, orders, importer>>
  BY DEF PlatformChanges
<1>5. token' \in TokenType /\ token'.lost = token.lost /\ TokenStaysAlive'
  BY <1>4, Types DEF IInv, TokenStaysAlive
<1> QED
  BY <1>3, <1>4, <1>5, OutsideStep

LEMMA TokenExpiresStep ==
  ASSUME IInv, TokenExpires
  PROVE  IInv'
<1>1. Moves /\ UNCHANGED <<shown, connector, contacts, orders, importer>>
  BY DEF TokenExpires
<1>2. token' \in {y \in TokenType : y.stored = token.stored /\ y.good = token.good /\ y.lost = token.lost}
  <2>1. token \in TokenType /\ token' = [token EXCEPT !.expired = TRUE]
    BY Types DEF TokenExpires
  <2> QED
    BY <2>1, Tokens
<1>3. TokenStaysAlive'
  BY <1>1, <1>2 DEF IInv, TokenStaysAlive
<1>4. /\ shown' \in [Platforms -> [people : SUBSET PersonType, orders : SUBSET OrderType]]
      /\ \A p \in Platforms : OnceEach(shown'[p].orders)
  BY <1>1 DEF IInv, ImportsTypeOK, OrdersOnce
<1> QED
  BY <1>1, <1>2, <1>3, <1>4, OutsideStep

LEMMA ConnectConnectorStep ==
  ASSUME IInv, NEW p \in Platforms, Connect(p)
  PROVE  IInv'
<1> DEFINE fresh == [row |-> left.moves + 1, status |-> "connected", version |-> 0, newest |-> {}]
           b == IF connector[p].row # 0 THEN [connector[p] EXCEPT !.status = "connected"] ELSE fresh
           c == AddSnapshot(b, b.version + 1, Settings)
<1>1. /\ connector' = [connector EXCEPT ![p] = c]
      /\ UNCHANGED <<shown, contacts, orders, importer>> /\ Moves
  BY DEF Connect
<1>2. left.moves > 0 /\ left.moves \in Nat /\ left' = [left EXCEPT !.moves = @ - 1]
  BY <1>1, MovesLeft
<1>3. /\ b \in ConnectorType /\ b.status = "connected"
      /\ b.row \in {connector[p].row, left.moves + 1}
  BY <1>2, Types DEF ConnectorType
<1> HIDE DEF b
<1>4. b.version + 1 \in Nat /\ Settings \in SnapType
  BY <1>3 DEF ConnectorType, Settings, SnapType
<1>5. /\ c \in ConnectorType /\ c.row \in {connector[p].row, left.moves + 1}
      /\ c.status = "connected" /\ c.newest = {Settings}
  BY <1>3, <1>4, AddedSnapshot
<1> HIDE DEF c
<1>6. token' \in TokenType /\ token'.lost = token.lost
      /\ (token' = token \/ token'.stored = token'.good)
  <2>1. token \in TokenType
    BY Types
  <2>2. CASE p = "shopify"
    <3>1. token' \in {y \in TokenType : y.stored = y.good /\ y.lost = token.lost}
      BY <2>1, <2>2, Tokens DEF Connect
    <3> QED
      BY <3>1
  <2>3. CASE p # "shopify"
    BY <2>1, <2>3 DEF Connect
  <2> QED
    BY <2>2, <2>3
<1>7. connector'["shopify"].status = connector["shopify"].status \/ connector'["shopify"].status = "connected"
  BY <1>1, <1>5 DEF IInv, ImportsTypeOK, Platforms
<1>8. TokenStaysAlive'
  BY <1>6, <1>7 DEF IInv, TokenStaysAlive
<1>9. \A s \in c.newest : s.kind = "settings"
  BY <1>5 DEF Settings
<1> QED
  BY <1>1, <1>2, <1>5, <1>6, <1>8, <1>9, ConnectorStep

LEMMA DisconnectStep ==
  ASSUME IInv, NEW p \in Platforms, Disconnect(p)
  PROVE  IInv'
<1> DEFINE c == [row |-> 0, status |-> "none", version |-> 0, newest |-> {}]
<1>1. /\ connector' = [connector EXCEPT ![p] = c]
      /\ UNCHANGED <<shown, token, contacts, orders, importer>> /\ Moves
  BY DEF Disconnect
<1>2. left.moves > 0 /\ left' = [left EXCEPT !.moves = @ - 1]
  BY <1>1, MovesLeft
<1>3. c \in ConnectorType /\ c.row = 0 /\ c.newest = {} /\ c.status = "none"
  BY DEF ConnectorType
<1> HIDE DEF c
<1>4. connector'["shopify"].status = connector["shopify"].status \/ connector'["shopify"].status = "none"
  BY <1>1, <1>3 DEF IInv, ImportsTypeOK, Platforms
<1>5. TokenStaysAlive'
  BY <1>1, <1>4 DEF IInv, TokenStaysAlive
<1> QED
  BY <1>1, <1>2, <1>3, <1>5, Types, ConnectorStep

---------------------------------------------------------------------------------
(* The invariant holds                                                                 *)

LEMMA InitInv ==
  ASSUME Init
  PROVE  IInv
<1>1. shown \in [Platforms -> [people : SUBSET PersonType, orders : SUBSET OrderType]]
      /\ \A p \in Platforms : OnceEach(shown[p].orders)
  BY ViewsAssumption DEF Init, Platforms
<1>2. \A p \in Platforms : connector[p] = [row |-> 1, status |-> "connected", version |-> 0, newest |-> {}]
  BY DEF Init
<1>3. connector \in [Platforms -> ConnectorType]
  <2>1. [row |-> 1, status |-> "connected", version |-> 0, newest |-> {}] \in ConnectorType
    BY DEF ConnectorType
  <2> QED
    BY <2>1 DEF Init
<1>4. token \in TokenType /\ token.good = token.stored
  BY DEF Init, TokenType
<1>5. left \in LeftType
  BY ImportsAssumption DEF Init, LeftType
<1>6. importer \in [Importers -> ImporterType] /\ \A i \in Importers : importer[i] = Away
  BY AwayType DEF Init
<1>7. /\ contacts = [p \in Platforms |-> <<>>] /\ orders = [p \in Platforms |-> <<>>]
      /\ \A p \in Platforms : DOMAIN contacts[p] = {} /\ DOMAIN orders[p] = {}
  BY DEF Init
<1>8. ImportsTypeOK /\ RowsTypeOK
  BY <1>1, <1>3, <1>4, <1>5, <1>6, <1>7 DEF ImportsTypeOK, RowsTypeOK
<1>9. OrdersOnce
  BY <1>1, <1>6, AwayType DEF OrdersOnce, OnceEach
<1>10. InHand /\ PeopleAreThere
  BY <1>6, AwayType DEF InHand, Has, PeopleAreThere, Working
<1>11. RowsWere
  BY <1>2, <1>6, AwayType DEF RowsWere, WasRow
<1>12. AloneIsAlone /\ NobodyExpires /\ PinsAreLive
  BY <1>6, AwayType DEF AloneIsAlone, NobodyExpires, PinsAreLive
<1>13. TokenStaysAlive
  BY <1>2, <1>4 DEF TokenStaysAlive, Platforms
<1>14. OrdersReachTheirBuyer /\ UniverseIsItsOwn /\ JudgedAreLive
  BY <1>6, AwayType DEF OrdersReachTheirBuyer, UniverseIsItsOwn, JudgedAreLive
<1> QED
  BY <1>8, <1>9, <1>10, <1>11, <1>12, <1>13, <1>14 DEF IInv

LEMMA NextInv ==
  ASSUME IInv, Next
  PROVE  IInv'
<1>1. ASSUME NEW i \in Importers, GiveUp(i) \/ Finish(i) \/ Kill(i)
      PROVE  IInv'
  BY <1>1, FaultsLeft, Types, LeaveStep DEF GiveUp, Finish, Kill, Becomes
<1>2. ASSUME NEW i \in Importers,
             \/ EnsureToken(i) \/ refresh_offline_access_token(i) \/ _post_form_with_retry(i)
             \/ MarkExpired(i) \/ FetchPeople(i) \/ FetchOrders(i) \/ FetchFails(i) \/ ReadVersion(i)
             \/ Commit(i) \/ FailImport(i) \/ Sync(i) \/ AssertCovered(i)
      PROVE  IInv'
  BY <1>2, EnsureTokenStep, RefreshStep, RetryStep, MarkExpiredStep, FetchPeopleStep, FetchOrdersStep,
     FetchFailsStep, ReadVersionStep, CommitStep, FailImportStep, SyncStep, AssertCoveredStep
<1>3. ASSUME NEW i \in Importers, StartScore(i) \/ \E p \in Platforms : StartBootstrap(i, p) \/ Freeze(i, p)
      PROVE  IInv'
  BY <1>3, StartScoreStep, StartBootstrapStep, FreezeStep
<1>4. ASSUME TokenExpires \/ \E p \in Platforms : PlatformChanges(p) \/ Connect(p) \/ Disconnect(p)
      PROVE  IInv'
  BY <1>4, TokenExpiresStep, PlatformChangesStep, ConnectConnectorStep, DisconnectStep
<1> QED
  BY <1>1, <1>2, <1>3, <1>4 DEF Next, Work

LEMMA StutterInv ==
  ASSUME IInv, UNCHANGED importVars
  PROVE  IInv'
<1>1. ImportsTypeOK' /\ RowsTypeOK' /\ OrdersOnce' /\ InHand' /\ PeopleAreThere'
  BY DEF importVars, IInv, ImportsTypeOK, RowsTypeOK, OrdersOnce, InHand, PeopleAreThere, Platform
<1>2. RowsWere' /\ AloneIsAlone' /\ NobodyExpires' /\ TokenStaysAlive' /\ PinsAreLive'
  BY DEF importVars, IInv, RowsWere, AloneIsAlone, NobodyExpires, TokenStaysAlive, PinsAreLive, Live, Platform
<1>3. OrdersReachTheirBuyer' /\ UniverseIsItsOwn' /\ JudgedAreLive'
  BY ReachStays, JudgementsStay DEF importVars, IInv
<1> QED
  BY <1>1, <1>2, <1>3 DEF IInv

(* Imports and what they share stay in the inductive invariant.                            *)
THEOREM Invariance == ImportsSpec => []IInv
<1>1. Init => IInv
  BY InitInv
<1>2. IInv /\ [Next]_importVars => IInv'
  BY NextInv, StutterInv
<1> QED
  BY <1>1, <1>2, PTL DEF ImportsSpec

(* No purchase of a pin is lost on the way to the rows, whatever other importers commit and    *)
(* sync meanwhile; an importer that is alone binds it to its own buyer (upsert of orders in      *)
(* connectors/import_data.py).                                                           *)
THEOREM OrdersReachTheirBuyerHolds == ImportsSpec => []OrdersReachTheirBuyer
<1>1. IInv => OrdersReachTheirBuyer
  BY DEF IInv
<1> QED
  BY <1>1, Invariance, PTL

(* However many scores and bootstraps there are, and however often the connectors change, a     *)
(* score judges the people and purchases of its own import (dcs/pins.py, snapshot.py).          *)
THEOREM UniverseIsItsOwnHolds == ImportsSpec => []UniverseIsItsOwn
<1>1. IInv => UniverseIsItsOwn
  BY DEF IInv
<1> QED
  BY <1>1, Invariance, PTL

(* The contacts a score judges are the live rows as long as no other importer works            *)
(* (dcs/contact_sync.py with identity_join.py).                                           *)
THEOREM JudgedAreLiveHolds == ImportsSpec => []JudgedAreLive
<1>1. IInv => JudgedAreLive
  BY DEF IInv
<1> QED
  BY <1>1, Invariance, PTL

(* Any number of importers may find the access token expired at once: as long as no answer to a  *)
(* refresh is lost, the stored refresh token is the good one (connectors/shopify_token.py).      *)
THEOREM TokenStaysAliveHolds == ImportsSpec => []TokenStaysAlive
<1>1. IInv => TokenStaysAlive
  BY DEF IInv
<1> QED
  BY <1>1, Invariance, PTL

---------------------------------------------------------------------------------
(* One fetch, whatever the platform answers: sequences put together                       *)

(* A set of naturals that is not empty has a least element: an induction over naturals is the  *)
(* least counterexample.                                                                 *)
LEMMA Least ==
  ASSUME NEW S \in SUBSET Nat, S # {}
  PROVE  \E n \in S : \A m \in S : n <= m
<1> DEFINE R == {ss \in Nat \X Nat : ss[1] < ss[2]}
<1>1. IsWellFoundedOn(R, Nat)
  BY NatLessThanWellFounded DEF OpToRel
<1>2. PICK n \in S : \A m \in S : <<m, n>> \notin R
  <2> HIDE DEF R
  <2> QED BY <1>1, WFMin
<1>3. \A m \in S : n <= m
  <2> SUFFICES ASSUME NEW m \in S PROVE n <= m
    OBVIOUS
  <2>1. <<m, n>> \notin R BY <1>2
  <2>2. m \in Nat /\ n \in Nat OBVIOUS
  <2> QED BY <2>1, <2>2, SMT
<1> QED BY <1>2, <1>3

(* What the quotient of naturals is.                                                     *)
LEMMA Quotient ==
  ASSUME NEW n \in Nat, NEW c \in Nat \ {0}
  PROVE  /\ n \div c \in Nat
         /\ (n \div c) * c <= n /\ n < (n \div c) * c + c
  OBVIOUS

(* The parts of a sequence, put together again, step by step: the first k of them.            *)
Joins(f, s) ==
  f = [i \in 1 .. Len(s) |-> IF i = 1 THEN s[i] ELSE f[i - 1] \o s[i]]

JoinsUpTo(f, s, n) == \A i \in 1 .. n : f[i] = IF i = 1 THEN s[i] ELSE f[i - 1] \o s[i]

LEMMA Prefix ==
  ASSUME NEW T, NEW s \in Seq(Seq(T)), NEW n \in Nat, n <= Len(s)
  PROVE  \E f \in [1 .. n -> Seq(T)] : JoinsUpTo(f, s, n)
<1> DEFINE Good(m) == \E f \in [1 .. m -> Seq(T)] : \A i \in 1 .. m : f[i] = IF i = 1 THEN s[i] ELSE f[i - 1] \o s[i]
           Bad == {m \in Nat : m <= Len(s) /\ ~Good(m)}
<1>1. Len(s) \in Nat /\ \A i \in 1 .. Len(s) : s[i] \in Seq(T)
  OBVIOUS
<1>2. Good(0)
  <2>1. <<>> \in Seq(T) /\ \A i \in 1 .. 0 : FALSE
    OBVIOUS
  <2> DEFINE f == [i \in 1 .. 0 |-> <<>>]
  <2>2. f \in [1 .. 0 -> Seq(T)]
    BY <2>1
  <2> HIDE DEF f
  <2> QED BY <2>1, <2>2
<1>3. ASSUME NEW m \in Nat, m + 1 <= Len(s), Good(m)
      PROVE  Good(m + 1)
  <2>1. PICK f \in [1 .. m -> Seq(T)] : \A i \in 1 .. m : f[i] = IF i = 1 THEN s[i] ELSE f[i - 1] \o s[i]
    BY <1>3
  <2> DEFINE last == IF m = 0 THEN s[1] ELSE f[m] \o s[m + 1]
             g == [i \in 1 .. (m + 1) |-> IF i = m + 1 THEN last ELSE f[i]]
  <2>2. last \in Seq(T)
    BY <1>1, <1>3, <2>1
  <2>3. g \in [1 .. (m + 1) -> Seq(T)]
    <3> HIDE DEF last
    <3> QED BY <2>2, <2>1
  <2>4. ASSUME NEW i \in 1 .. (m + 1)
        PROVE  g[i] = IF i = 1 THEN s[i] ELSE g[i - 1] \o s[i]
    <3>1. CASE i = m + 1 /\ m = 0
      BY <3>1
    <3>2. CASE i = m + 1 /\ m # 0
      <4>1. i - 1 = m /\ m \in 1 .. (m + 1) /\ m # m + 1 /\ i # 1
        BY <3>2
      <4>2. g[m] = f[m]
        BY <4>1
      <4>3. g[i] = last /\ last = f[m] \o s[m + 1]
        BY <3>2
      <4> HIDE DEF g, last
      <4>4. g[i] = g[i - 1] \o s[i]
        BY <4>1, <4>2, <4>3, <3>2
      <4> QED BY <4>1, <4>4
    <3>3. CASE i # m + 1
      <4>1. i \in 1 .. m /\ (i # 1 => i - 1 \in 1 .. m)
        BY <3>3
      <4>2. g[i] = f[i] /\ (i # 1 => g[i - 1] = f[i - 1])
        BY <3>3, <4>1
      <4> QED BY <4>1, <4>2, <2>1
    <3> QED BY <3>1, <3>2, <3>3
  <2> HIDE DEF g
  <2> QED BY <2>3, <2>4
<1> HIDE DEF Good
<1>4. Bad = {}
  <2> SUFFICES ASSUME Bad # {} PROVE FALSE
    OBVIOUS
  <2>1. PICK m \in Bad : \A k \in Bad : m <= k
    BY Least
  <2>2. m # 0
    BY <1>2
  <2>3. m - 1 \in Nat /\ m - 1 \notin Bad /\ m - 1 <= Len(s)
    BY <2>1, <2>2, <1>1
  <2>4. Good(m - 1)
    BY <2>3
  <2>5. Good((m - 1) + 1)
    BY <2>3, <2>4, <1>3
  <2>6. (m - 1) + 1 = m
    OBVIOUS
  <2> QED BY <2>5, <2>6
<1>5. Good(n)
  BY <1>4
<1> QED BY <1>5 DEF Good, JoinsUpTo

LEMMA JoinExists ==
  ASSUME NEW T, NEW s \in Seq(Seq(T))
  PROVE  \E f : Joins(f, s)
<1> DEFINE n == Len(s)
<1>0. n \in Nat /\ n <= Len(s)
  OBVIOUS
<1> HIDE DEF n
<1>1. PICK f \in [1 .. n -> Seq(T)] : JoinsUpTo(f, s, n)
  BY <1>0, Prefix
<1>2. f = [i \in 1 .. Len(s) |-> IF i = 1 THEN s[i] ELSE f[i - 1] \o s[i]]
  BY <1>1 DEF n, JoinsUpTo
<1> QED BY <1>2 DEF Joins

LEMMA FlattenIs ==
  ASSUME NEW T, NEW s \in Seq(Seq(T)), s # <<>>
  PROVE  \E f : Joins(f, s) /\ FlattenSeq(s) = f[Len(s)]
<1>1. Len(s) # 0
  OBVIOUS
<1> DEFINE f == CHOOSE g : Joins(g, s)
<1>2. Joins(f, s)
  BY JoinExists
<1>3. FlattenSeq(s) = f[Len(s)]
  BY <1>1 DEF FlattenSeq, Joins
<1> QED BY <1>2, <1>3

(* What is there is there once, in parts, and nothing besides.                               *)
LEMMA ToSetJoins ==
  ASSUME NEW T, NEW a \in Seq(T), NEW b \in Seq(T)
  PROVE  ToSet(a \o b) = ToSet(a) \cup ToSet(b)
<1>1. ASSUME NEW x \in ToSet(a \o b) PROVE x \in ToSet(a) \cup ToSet(b)
  BY DEF ToSet
<1>2. ASSUME NEW k \in DOMAIN a PROVE a[k] \in ToSet(a \o b)
  <2>1. k \in DOMAIN (a \o b) /\ (a \o b)[k] = a[k]
    OBVIOUS
  <2> QED BY <2>1 DEF ToSet
<1>3. ASSUME NEW k \in DOMAIN b PROVE b[k] \in ToSet(a \o b)
  <2>1. Len(a) + k \in DOMAIN (a \o b) /\ (a \o b)[Len(a) + k] = b[k]
    OBVIOUS
  <2> QED BY <2>1 DEF ToSet
<1> QED BY <1>1, <1>2, <1>3 DEF ToSet

LEMMA RowsOfAll ==
  ASSUME NEW T, NEW s \in Seq(Seq(T))
  PROVE  FlattenSeq(s) \in Seq(T) /\ ToSet(FlattenSeq(s)) = UNION {ToSet(s[k]) : k \in DOMAIN s}
<1>0. CASE s = <<>>
  <2>1. FlattenSeq(s) = <<>> /\ DOMAIN s = {}
    BY <1>0 DEF FlattenSeq
  <2> QED BY <2>1 DEF ToSet
<1>1. CASE s # <<>>
  <2>1. PICK f : Joins(f, s) /\ FlattenSeq(s) = f[Len(s)]
    BY <1>1, FlattenIs
  <2>2. Len(s) \in Nat \ {0} /\ DOMAIN s = 1 .. Len(s) /\ \A i \in 1 .. Len(s) : s[i] \in Seq(T)
    BY <1>1
  <2> DEFINE Good(m) == f[m] \in Seq(T) /\ ToSet(f[m]) = UNION {ToSet(s[k]) : k \in 1 .. m}
             Bad == {m \in 1 .. Len(s) : ~Good(m)}
  <2>3. Good(1)
    <3>1. f[1] = s[1] /\ 1 .. 1 = {1}
      BY <2>1, <2>2 DEF Joins
    <3> QED BY <3>1, <2>2
  <2>4. ASSUME NEW m \in Nat \ {0}, m + 1 <= Len(s), Good(m)
        PROVE  Good(m + 1)
    <3>1. m + 1 \in 1 .. Len(s) /\ m + 1 # 1 /\ (m + 1) - 1 = m
      <4>1. m \in Nat /\ m # 0 /\ m + 1 <= Len(s) /\ Len(s) \in Nat
        BY <2>4, <2>2
      <4> HIDE DEF Good
      <4> QED BY <4>1
    <3>2. f[m + 1] = f[m] \o s[m + 1]
      BY <3>1, <2>1 DEF Joins
    <3>3. s[m + 1] \in Seq(T)
      BY <3>1, <2>2
    <3>4. ToSet(f[m] \o s[m + 1]) = ToSet(f[m]) \cup ToSet(s[m + 1])
      <4> DEFINE a == f[m]
                 b == s[m + 1]
      <4>1. a \in Seq(T) /\ b \in Seq(T)
        BY <2>4, <3>3
      <4> HIDE DEF a, b
      <4>2. ToSet(a \o b) = ToSet(a) \cup ToSet(b)
        BY <4>1, ToSetJoins
      <4> QED BY <4>2 DEF a, b
    <3>5. 1 .. (m + 1) = (1 .. m) \cup {m + 1}
      OBVIOUS
    <3>6. UNION {ToSet(s[k]) : k \in 1 .. (m + 1)} = (UNION {ToSet(s[k]) : k \in 1 .. m}) \cup ToSet(s[m + 1])
      BY <3>5, Zenon
    <3>7. f[m] \in Seq(T) /\ f[m] \o s[m + 1] \in Seq(T)
      BY <2>4, <3>3
    <3>8. ToSet(f[m + 1]) = UNION {ToSet(s[k]) : k \in 1 .. (m + 1)}
      BY <3>2, <3>4, <3>6, <2>4, Zenon
    <3> QED BY <3>2, <3>7, <3>8, Zenon
  <2> HIDE DEF Good
  <2>5. Bad = {}
    <3> SUFFICES ASSUME Bad # {} PROVE FALSE
      OBVIOUS
    <3>1. Bad \in SUBSET Nat
      BY <2>2
    <3>2. PICK m \in Bad : \A k \in Bad : m <= k
      BY <3>1, Least
    <3>3. m # 1
      BY <2>3
    <3>4. m - 1 \in Nat \ {0} /\ m - 1 \notin Bad /\ m - 1 \in 1 .. Len(s) /\ (m - 1) + 1 = m
      BY <3>2, <3>3, <2>2
    <3>5. Good(m - 1)
      BY <3>4
    <3>6. Good((m - 1) + 1)
      BY <3>4, <3>5, <2>4, <2>2
    <3> QED BY <3>6, <3>4
  <2>6. Good(Len(s))
    BY <2>5, <2>2
  <2> QED BY <2>1, <2>2, <2>6 DEF Good
<1> QED BY <1>0, <1>1

---------------------------------------------------------------------------------
(* Parts of a sequence, and pieces of a window                                         *)

LEMMA MinOfTwo ==
  ASSUME NEW a \in Int, NEW b \in Int
  PROVE  Min({a, b}) = IF a <= b THEN a ELSE b
<1> DEFINE least == IF a <= b THEN a ELSE b
<1>1. least \in {a, b} /\ \A y \in {a, b} : least <= y
  OBVIOUS
<1>2. \A x \in {a, b} : (\A y \in {a, b} : x <= y) => x = least
  OBVIOUS
<1> HIDE DEF least
<1>3. Min({a, b}) = least
  BY <1>1, <1>2 DEF Min
<1> QED BY <1>3 DEF least

LEMMA Products ==
  ASSUME NEW j \in Int, NEW k \in Int, NEW n \in Nat, j <= k
  PROVE  /\ j * n \in Int /\ k * n \in Int /\ j * n <= k * n
         /\ (j + 1) * n = j * n + n /\ (k - 1) * n = k * n - n
  OBVIOUS

(* How many parts there are, and that only the last ends the sequence.                        *)
LEMMA Parts ==
  ASSUME NEW L \in Nat, NEW n \in Nat \ {0}
  PROVE  LET N == (L + n - 1) \div n
         IN  /\ N \in Nat
             /\ \A k \in 1 .. N : (k - 1) * n < L
             /\ \A k \in 0 .. N : k * n < L <=> k # N
             /\ L = 0 => N = 0
<1> DEFINE N == (L + n - 1) \div n
<1>1. L + n - 1 \in Nat
  OBVIOUS
<1>2. N \in Nat /\ N * n <= L + n - 1 /\ L + n - 1 < N * n + n
  BY <1>1, Quotient
<1> HIDE DEF N
<1>3. ASSUME NEW k \in 0 .. N PROVE (k - 1) * n < L /\ (k * n < L <=> k # N)
  <2>1. k * n <= N * n /\ (k - 1) * n = k * n - n /\ k * n \in Int /\ N * n \in Int
    BY <1>2, Products
  <2>2. CASE k = N
    BY <2>1, <2>2, <1>2
  <2>3. CASE k # N
    <3>1. k <= N - 1 /\ N - 1 \in Int
      BY <2>3, <1>2
    <3>2. k * n <= (N - 1) * n /\ (N - 1) * n = N * n - n
      BY <3>1, <1>2, Products
    <3> QED BY <3>2, <2>1, <2>3, <1>2
  <2> QED BY <2>2, <2>3
<1>4. L = 0 => N = 0
  <2> SUFFICES ASSUME L = 0, N # 0 PROVE FALSE
    OBVIOUS
  <2>1. 1 <= N
    BY <1>2
  <2>2. 1 * n <= N * n /\ N * n \in Int /\ 1 * n = n
    BY <1>2, <2>1, Products
  <2> QED BY <2>2, <1>2
<1> QED BY <1>2, <1>3, <1>4 DEF N

LEMMA SubSeqJoins ==
  ASSUME NEW T, NEW s \in Seq(T), NEW a \in Nat, NEW b \in Nat, a <= b, b <= Len(s)
  PROVE  SubSeq(s, 1, a) \o SubSeq(s, a + 1, b) = SubSeq(s, 1, b)
<1> DEFINE x == SubSeq(s, 1, a)
           y == SubSeq(s, a + 1, b)
           z == SubSeq(s, 1, b)
<1>1. x \in Seq(T) /\ Len(x) = a /\ \A i \in 1 .. a : x[i] = s[i]
  OBVIOUS
<1>2. y \in Seq(T) /\ Len(y) = b - a /\ \A i \in 1 .. (b - a) : y[i] = s[a + i]
  OBVIOUS
<1>3. z \in Seq(T) /\ Len(z) = b /\ \A i \in 1 .. b : z[i] = s[i]
  OBVIOUS
<1> HIDE DEF x, y, z
<1>4. x \o y \in Seq(T) /\ Len(x \o y) = b
  <2>1. x \o y \in Seq(T) /\ Len(x \o y) = a + (b - a)
    BY <1>1, <1>2
  <2>2. a + (b - a) = b
    OBVIOUS
  <2> QED BY <2>1, <2>2, Zenon
<1>5. ASSUME NEW i \in 1 .. b PROVE (x \o y)[i] = z[i]
  <2>1. CASE i <= a
    BY <2>1, <1>1, <1>2, <1>3
  <2>2. CASE ~(i <= a)
    <3>1. i - a \in 1 .. (b - a) /\ a + (i - a) = i
      BY <2>2
    <3>2. (x \o y)[i] = y[i - a]
      BY <3>1, <2>2, <1>1, <1>2
    <3> QED BY <3>1, <3>2, <1>2, <1>3
  <2> QED BY <2>1, <2>2, Zenon
<1>6. x \o y = z
  BY <1>3, <1>4, <1>5
<1> QED BY <1>6 DEF x, y, z

(* The parts put together are the whole.                                                  *)
LEMMA PartsAreWhole ==
  ASSUME NEW T, NEW s \in Seq(T), NEW n \in Nat \ {0}
  PROVE  Chunks(s, n) \in Seq(Seq(T)) /\ FlattenSeq(Chunks(s, n)) = s
<1> DEFINE L == Len(s)
           N == (L + n - 1) \div n
           from == [k \in 0 .. N |-> k * n]
           end == [k \in 0 .. N |-> Min({k * n, L})]
           c == Chunks(s, n)
<1>1. L \in Nat /\ s \in [1 .. L -> T]
  OBVIOUS
<1>2. /\ N \in Nat
      /\ \A k \in 1 .. N : (k - 1) * n < L
      /\ \A k \in 0 .. N : k * n < L <=> k # N
      /\ L = 0 => N = 0
  <2> HIDE DEF L
  <2> QED BY <1>1, Parts
<1>3. c = [k \in 1 .. N |-> SubSeq(s, from[k - 1] + 1, end[k])]
  <2>1. c = [k \in 1 .. N |-> SubSeq(s, (k - 1) * n + 1, Min({k * n, L}))]
    BY DEF Chunks
  <2>2. ASSUME NEW k \in 1 .. N PROVE from[k - 1] = (k - 1) * n /\ end[k] = Min({k * n, L})
    <3> HIDE DEF N, L
    <3>1. k \in 0 .. N /\ k - 1 \in 0 .. N
      BY <1>2
    <3> QED BY <3>1
  <2> HIDE DEF c, from, end, N, L
  <2> QED BY <2>1, <2>2
<1>4. ASSUME NEW k \in 0 .. N
      PROVE  /\ from[k] \in Nat /\ (k = 0 => from[k] = 0)
             /\ end[k] \in Nat /\ end[k] <= L
             /\ k # N => end[k] = from[k] /\ from[k] < L
             /\ k = N => end[k] = L
             /\ k # N => from[k] <= end[k + 1]
  <2> HIDE DEF L, N, c
  <2>1. k \in Nat /\ k * n \in Nat /\ (k = 0 => k * n = 0) /\ from[k] = k * n
    BY <1>2
  <2>2. end[k] = IF k * n <= L THEN k * n ELSE L
    BY <2>1, <1>1, MinOfTwo
  <2>3. k * n < L <=> k # N
    BY <1>2
  <2>4. ASSUME k # N PROVE from[k] <= end[k + 1]
    <3>1. k + 1 \in 0 .. N
      BY <2>4, <1>2
    <3>2. (k + 1) * n = k * n + n /\ (k + 1) * n \in Int
      BY <2>1, Products
    <3>3. end[k + 1] = IF (k + 1) * n <= L THEN (k + 1) * n ELSE L
      BY <3>1, <3>2, <1>1, MinOfTwo
    <3> HIDE DEF from, end
    <3> QED BY <3>2, <3>3, <2>1, <2>3, <2>4, <1>1
  <2> HIDE DEF from, end
  <2> QED BY <2>1, <2>2, <2>3, <2>4, <1>1
<1> HIDE DEF N, L, from, end, c
<1>5. c \in Seq(Seq(T)) /\ Len(c) = N
  <2>1. ASSUME NEW k \in 1 .. N PROVE c[k] \in Seq(T)
    <3>1. k \in 0 .. N /\ k - 1 \in 0 .. N
      BY <1>2
    <3>2. end[k] \in Nat /\ end[k] <= L
      BY <3>1, <1>4
    <3>3. from[k - 1] \in Nat
      BY <3>1, <1>4
    <3>4. c[k] = SubSeq(s, from[k - 1] + 1, end[k])
      BY <1>3
    <3> QED BY <3>2, <3>3, <3>4, <1>1 DEF L
  <2>2. c \in [1 .. N -> Seq(T)]
    BY <2>1, <1>3
  <2> QED BY <2>2, <1>2
<1>6. CASE N = 0
  <2>1. c = <<>>
    BY <1>5, <1>6
  <2>2. L = 0
    <3>1. 0 \in 0 .. N /\ end[0] = L /\ from[0] = 0
      BY <1>6, <1>2, <1>4
    <3>2. ~(0 * n < L) /\ 0 * n = 0
      BY <1>6, <1>2
    <3> QED BY <3>2, <1>1
  <2>3. s = <<>>
    BY <2>2 DEF L
  <2>4. FlattenSeq(c) = <<>>
    BY <2>1 DEF FlattenSeq
  <2> QED BY <2>3, <2>4, <1>5 DEF c
<1>7. CASE N # 0
  <2>1. c # <<>>
    BY <1>5, <1>7
  <2>2. PICK f : Joins(f, c) /\ FlattenSeq(c) = f[N]
    BY <2>1, <1>5, FlattenIs
  <2> DEFINE Good(m) == f[m] = SubSeq(s, 1, end[m])
             Bad == {m \in 1 .. N : ~Good(m)}
  <2>3. Good(1)
    <3>1. 1 \in 1 .. N /\ 0 \in 0 .. N
      BY <1>2, <1>7
    <3>2. f[1] = c[1]
      BY <3>1, <2>2, <1>5 DEF Joins
    <3>3. c[1] = SubSeq(s, from[0] + 1, end[1]) /\ from[0] = 0
      BY <3>1, <1>3, <1>4
    <3> QED BY <3>2, <3>3
  <2>4. ASSUME NEW m \in 1 .. N, m + 1 \in 1 .. N, Good(m) PROVE Good(m + 1)
    <3>1. m \in 0 .. N /\ m # N /\ m + 1 \in 0 .. N /\ m + 1 # 1 /\ (m + 1) - 1 = m
      BY <1>2, <2>4
    <3>2. end[m] = from[m] /\ from[m] \in Nat /\ from[m] <= end[m + 1]
      BY <3>1, <1>4
    <3>3. end[m + 1] \in Nat /\ end[m + 1] <= L
      BY <3>1, <1>4
    <3>4. f[m + 1] = f[m] \o c[m + 1]
      BY <3>1, <2>2, <2>4, <1>5 DEF Joins
    <3>5. c[m + 1] = SubSeq(s, from[m] + 1, end[m + 1])
      BY <3>1, <2>4, <1>3
    <3> DEFINE a == from[m]
               b == end[m + 1]
    <3> HIDE DEF a, b
    <3>6. SubSeq(s, 1, a) \o SubSeq(s, a + 1, b) = SubSeq(s, 1, b)
      <4>1. a \in Nat /\ b \in Nat /\ a <= b /\ b <= Len(s)
        BY <3>2, <3>3 DEF a, b, L
      <4> QED BY <4>1, SubSeqJoins
    <3>7. f[m] = SubSeq(s, 1, a)
      BY <2>4, <3>2 DEF a
    <3> QED BY <3>4, <3>5, <3>6, <3>7 DEF a, b
  <2> HIDE DEF Good
  <2>5. Bad = {}
    <3> SUFFICES ASSUME Bad # {} PROVE FALSE
      OBVIOUS
    <3>1. Bad \in SUBSET Nat
      BY <1>2
    <3>2. PICK m \in Bad : \A k \in Bad : m <= k
      BY <3>1, Least
    <3>3. m # 1
      BY <2>3
    <3>4. m - 1 \notin Bad /\ m - 1 \in 1 .. N /\ (m - 1) + 1 = m /\ m \in 1 .. N
      BY <3>2, <3>3, <1>2
    <3>5. Good(m - 1)
      BY <3>4
    <3>6. Good((m - 1) + 1)
      BY <3>4, <3>5, <2>4
    <3> QED BY <3>6, <3>4
  <2>6. Good(N)
    BY <2>5, <1>2, <1>7
  <2>7. f[N] = SubSeq(s, 1, L)
    <3>1. N \in 0 .. N
      BY <1>2
    <3>2. end[N] = L
      BY <3>1, <1>4
    <3> QED BY <2>6, <3>2 DEF Good
  <2>8. SubSeq(s, 1, L) = s
    BY DEF L
  <2> QED BY <2>2, <2>7, <2>8, <1>5 DEF c
<1> QED BY <1>6, <1>7

LEMMA UpTo ==
  ASSUME NEW N \in Nat
  PROVE  IsFiniteSet(1 .. N) /\ Cardinality(1 .. N) = N
<1>1. IsFiniteSet(1 .. N) /\ Cardinality(1 .. N) = IF 1 > N THEN 0 ELSE N - 1 + 1
  BY FS_Interval
<1> QED BY <1>1

(* The elements of a finite set, one after the other: each is there once.                     *)
LEMMA Enumerated ==
  ASSUME NEW S, IsFiniteSet(S)
  PROVE  /\ SetToSeq(S) \in Seq(S) /\ Len(SetToSeq(S)) = Cardinality(S)
         /\ ToSet(SetToSeq(S)) = S
<1> DEFINE n == Cardinality(S)
           f == SetToSeq(S)
<1>1. n \in Nat /\ ExistsBijection(1 .. n, S)
  BY FS_CardinalityType
<1>2. \E g \in [1 .. n -> S] : IsInjective(g)
  BY <1>1 DEF ExistsBijection, Bijection, Injection
<1>3. f \in [1 .. n -> S] /\ IsInjective(f)
  BY <1>2 DEF SetToSeq
<1> HIDE DEF n, f
<1>4. f \in Injection(1 .. n, S)
  BY <1>3 DEF Injection
<1>5. Cardinality(1 .. n) = Cardinality(S)
  <2>1. Cardinality(1 .. n) = n
    BY <1>1, UpTo
  <2> QED BY <2>1 DEF n
<1>6. f \in Surjection(1 .. n, S)
  BY <1>4, <1>5, FS_Injection
<1>7. \A x \in S : \E k \in 1 .. n : f[k] = x
  BY <1>6 DEF Surjection
<1>8. f \in Seq(S) /\ Len(f) = n /\ DOMAIN f = 1 .. n
  BY <1>1, <1>3
<1>9. ToSet(f) = S
  BY <1>7, <1>8, <1>3 DEF ToSet
<1> QED BY <1>8, <1>9 DEF f, n

(* As many indices as there are: all of them.                                              *)
LEMMA AllOfThem ==
  ASSUME NEW N \in Nat, NEW good \in SUBSET (1 .. N), Cardinality(good) = N
  PROVE  good = 1 .. N
<1>1. IsFiniteSet(1 .. N) /\ Cardinality(1 .. N) = N
  BY UpTo
<1> QED BY <1>1, FS_Subset

(* Requests that are all answered give all there is.                                         *)
LEMMA PostedWhole ==
  ASSUME NEW given, NEW N \in Nat, DOMAIN given = 1 .. N, given = [k \in 1 .. N |-> given[k]],
         NEW counter, Posted(given, counter).ok
  PROVE  /\ \A k \in 1 .. N : given[k].is = "ok"
         /\ Posted(given, counter).items = Items(given)
<1> DEFINE good == {k \in DOMAIN given : \A j \in 1 .. k : given[j].is = "ok"}
           items == Items([k \in 1 .. Cardinality(good) |-> given[k]])
<1>1. Len(given) = N
  OBVIOUS
<1>2. (Posted(given, counter).ok <=> Cardinality(good) = Len(given)) /\ Posted(given, counter).items = items
  <2> HIDE DEF good
  <2> QED BY DEF Posted, good
<1>3. Cardinality(good) = N
  BY <1>1, <1>2
<1>4. good = 1 .. N
  <2>1. good \in SUBSET (1 .. N)
    OBVIOUS
  <2> HIDE DEF good
  <2> QED BY <1>3, <2>1, AllOfThem
<1>5. \A k \in 1 .. N : given[k].is = "ok"
  BY <1>4
<1>6. items = Items(given)
  <2> HIDE DEF good
  <2>1. [k \in 1 .. Cardinality(good) |-> given[k]] = given
    BY <1>3
  <2> QED BY <2>1
<1> QED BY <1>2, <1>5, <1>6

(* The rows of given: those of each, and nothing besides.                                  *)
LEMMA ItemsOfAll ==
  ASSUME NEW T, NEW given, NEW N \in Nat, DOMAIN given = 1 .. N,
         \A k \in 1 .. N : given[k].items \in Seq(T)
  PROVE  Items(given) \in Seq(T) /\ ToSet(Items(given)) = UNION {ToSet(given[k].items) : k \in 1 .. N}
<1> DEFINE s == [k \in DOMAIN given |-> given[k].items]
<1>1. s \in Seq(Seq(T)) /\ DOMAIN s = 1 .. N
  OBVIOUS
<1>2. Items(given) = FlattenSeq(s)
  BY DEF Items
<1>3. \A k \in 1 .. N : s[k] = given[k].items
  OBVIOUS
<1> HIDE DEF s
<1>4. FlattenSeq(s) \in Seq(T) /\ ToSet(FlattenSeq(s)) = UNION {ToSet(s[k]) : k \in DOMAIN s}
  BY <1>1, RowsOfAll
<1>5. {ToSet(s[k]) : k \in DOMAIN s} = {ToSet(given[k].items) : k \in 1 .. N}
  BY <1>1, <1>3
<1> QED BY <1>2, <1>4, <1>5

(* The pieces of a window cover it, and nothing besides.                                    *)
LEMMA PiecesCover ==
  ASSUME NEW from \in Int, NEW to \in Int
  PROVE  LET pieces == _chunk_time_range(from, to)
         IN  \E N \in Nat : /\ DOMAIN pieces = 1 .. N /\ Len(pieces) = N
                            /\ \A d \in Int : d \in from .. to <=> \E k \in 1 .. N : d \in pieces[k].from .. pieces[k].to
<1>0. ChunkDays \in Nat \ {0}
  BY ClientsAssumption
<1>1. CASE to <= from
  <2>1. _chunk_time_range(from, to) = <<[from |-> from, to |-> to]>>
    BY <1>1 DEF _chunk_time_range
  <2> DEFINE pieces == _chunk_time_range(from, to)
  <2>2. DOMAIN pieces = 1 .. 1 /\ Len(pieces) = 1 /\ pieces[1].from = from /\ pieces[1].to = to
    BY <2>1
  <2>3. 1 \in Nat /\ 1 .. 1 = {1}
    OBVIOUS
  <2> HIDE DEF pieces
  <2>4. \A d \in Int : d \in from .. to <=> \E k \in 1 .. 1 : d \in pieces[k].from .. pieces[k].to
    BY <2>2, <2>3
  <2> QED BY <2>2, <2>3, <2>4 DEF pieces
<1>2. CASE ~(to <= from)
  <2> DEFINE L == to - from
             N == (L + ChunkDays - 1) \div ChunkDays
             at == [k \in 0 .. N |-> k * ChunkDays]
             pieces == _chunk_time_range(from, to)
  <2>1. L \in Nat \ {0}
    BY <1>2
  <2>2. /\ N \in Nat
        /\ \A k \in 1 .. N : (k - 1) * ChunkDays < L
        /\ \A k \in 0 .. N : k * ChunkDays < L <=> k # N
        /\ L = 0 => N = 0
    <3> HIDE DEF L
    <3> QED BY <2>1, <1>0, Parts
  <2>3. pieces = [k \in 1 .. N |-> [from |-> from + at[k - 1], to |-> Min({from + at[k], to})]]
    <3>1. pieces = [k \in 1 .. N |-> [from |-> from + (k - 1) * ChunkDays, to |-> Min({from + k * ChunkDays, to})]]
      BY <1>2 DEF _chunk_time_range
    <3>2. ASSUME NEW k \in 1 .. N PROVE at[k - 1] = (k - 1) * ChunkDays /\ at[k] = k * ChunkDays
      <4> HIDE DEF N
      <4>1. k \in 0 .. N /\ k - 1 \in 0 .. N
        BY <2>2
      <4> QED BY <4>1
    <3> HIDE DEF pieces, at, N
    <3> QED BY <3>1, <3>2
  <2>4. ASSUME NEW k \in 0 .. N
        PROVE  at[k] \in Nat /\ (k = 0 => at[k] = 0) /\ (at[k] < L <=> k # N)
    <3> HIDE DEF L, N, pieces
    <3>1. k \in Nat /\ k * ChunkDays \in Nat /\ (k = 0 => k * ChunkDays = 0) /\ at[k] = k * ChunkDays
      BY <2>2, <1>0
    <3> HIDE DEF at
    <3> QED BY <3>1, <2>2
  <2> HIDE DEF N, at, pieces
  <2>5. ASSUME NEW k \in 1 .. N
        PROVE  /\ k - 1 \in 0 .. N /\ k \in 0 .. N
               /\ pieces[k].from = from + at[k - 1] /\ at[k - 1] \in Nat /\ at[k] \in Nat
               /\ pieces[k].to = IF from + at[k] <= to THEN from + at[k] ELSE to
    <3>1. k - 1 \in 0 .. N /\ k \in 0 .. N
      BY <2>2
    <3>2. at[k - 1] \in Nat /\ at[k] \in Nat
      BY <3>1, <2>4
    <3>3. pieces[k].from = from + at[k - 1] /\ pieces[k].to = Min({from + at[k], to})
      BY <2>3
    <3>4. Min({from + at[k], to}) = IF from + at[k] <= to THEN from + at[k] ELSE to
      <4>1. from + at[k] \in Int
        BY <3>2
      <4> QED BY <4>1, MinOfTwo
    <3> QED BY <3>1, <3>2, <3>3, <3>4
  <2>6. ASSUME NEW d \in Int, NEW k \in 1 .. N, d \in pieces[k].from .. pieces[k].to
        PROVE  d \in from .. to
    BY <2>5, <2>6
  <2>7. ASSUME NEW d \in from .. to
        PROVE  \E k \in 1 .. N : d \in pieces[k].from .. pieces[k].to
    <3> DEFINE later == {k \in 1 .. N : d <= from + at[k]}
    <3>1. N \in later
      <4>1. N \in 0 .. N /\ N # 0
        <5>1. N \in 0 .. N /\ 0 \in 0 .. N
          BY <2>2
        <5>2. at[0] = 0
          BY <5>1, <2>4
        <5>3. N # 0
          BY <5>1, <5>2, <2>4, <2>1
        <5> QED BY <5>1, <5>3
      <4>2. at[N] \in Nat /\ ~(at[N] < L)
        BY <4>1, <2>4
      <4>3. d <= from + at[N]
        BY <4>2
      <4> QED BY <4>1, <4>3, <2>2
    <3>2. later \in SUBSET Nat /\ later # {}
      BY <3>1
    <3>3. PICK k \in later : \A j \in later : k <= j
      BY <3>2, Least
    <3>4. k \in 1 .. N /\ d <= from + at[k]
      BY <3>3
    <3>5. from + at[k - 1] <= d
      <4>1. k - 1 \in 0 .. N /\ at[k - 1] \in Nat
        BY <3>4, <2>5
      <4>2. CASE k = 1
        <5>1. at[k - 1] = 0
          BY <4>1, <4>2, <2>4
        <5> QED BY <5>1
      <4>3. CASE k # 1
        <5>1. k - 1 \in 1 .. N /\ ~(k <= k - 1)
          BY <4>3, <3>4, <2>2
        <5>2. k - 1 \notin later
          BY <5>1, <3>3
        <5>3. ~(d <= from + at[k - 1])
          BY <5>1, <5>2
        <5> HIDE DEF later
        <5> QED BY <5>3, <4>1
      <4> QED BY <4>2, <4>3
    <3>6. d \in pieces[k].from .. pieces[k].to
      <4> HIDE DEF later
      <4>1. /\ pieces[k].from = from + at[k - 1] /\ at[k - 1] \in Nat /\ at[k] \in Nat
            /\ pieces[k].to = IF from + at[k] <= to THEN from + at[k] ELSE to
        BY <3>4, <2>5
      <4> QED BY <4>1, <3>4, <3>5
    <3> QED BY <3>4, <3>6
  <2>8. DOMAIN pieces = 1 .. N /\ Len(pieces) = N
    BY <2>2, <2>3
  <2> QED BY <2>2, <2>6, <2>7, <2>8 DEF pieces
<1> QED BY <1>1, <1>2

---------------------------------------------------------------------------------
(* Shopify: no page is missing that is not told of                                      *)

LEMMA PagesAre ==
  ASSUME NEW given, IsPages(given)
  PROVE  /\ Lefts(given) \subseteq Nat
         /\ \E T : Items(given) \in Seq(T)
<1> DEFINE T == UNION {ToSet(given[k].items) : k \in DOMAIN given}
           N == Len(given)
<1>1. N \in Nat /\ DOMAIN given = 1 .. N /\ \A k \in DOMAIN given : IsPage(given[k])
  BY DEF IsPages
<1>2. Lefts(given) \subseteq Nat
  BY <1>1 DEF Lefts, IsPage
<1>3. ASSUME NEW k \in 1 .. N PROVE given[k].items \in Seq(T)
  <2> DEFINE s == given[k].items
  <2>1. s \in Seq(ToSet(s))
    BY <1>1 DEF IsPage
  <2>2. ToSet(s) \subseteq T
    BY <1>1
  <2> HIDE DEF s, T
  <2>3. s \in Seq(T)
    BY <2>1, <2>2
  <2> QED BY <2>3 DEF s
<1> HIDE DEF T, N
<1>4. Items(given) \in Seq(T)
  BY <1>1, <1>3, ItemsOfAll
<1> QED BY <1>2, <1>4

(* What a resource of pages gives: all of it or an error, and never less budget than there was. *)
LEMMA Resource ==
  ASSUME NEW given, NEW budget
  PROVE  LET r == _fetch_paginated_resource(given, budget)
         IN  /\ r.ok <=> ~Breaks(given)
             /\ r.ok => r.items = Items(given) /\ r.budget = budget \cup Lefts(given)
             /\ ~r.ok => r.items = <<>> /\ r.budget = budget
             /\ r.ok \in BOOLEAN
<1>1. CASE Breaks(given)
  BY <1>1 DEF _fetch_paginated_resource
<1>2. CASE ~Breaks(given)
  BY <1>2 DEF _fetch_paginated_resource
<1> QED BY <1>1, <1>2

(* The answers before the first that fails.                                                *)
UpToTrouble(given) ==
  [k \in 1 .. Cardinality({k \in DOMAIN given : \A j \in 1 .. k : given[j].ok}) |-> given[k]]

LEMMA UpToTroubleIs ==
  ASSUME NEW given, NEW N \in Nat, DOMAIN given = 1 .. N, given = [k \in 1 .. N |-> given[k]],
         \A k \in 1 .. N : IsPage(given[k])
  PROVE  /\ Lefts(UpToTrouble(given)) \subseteq Nat
         /\ UpToTrouble(given) = given => ~Breaks(given)
<1> DEFINE good == {k \in DOMAIN given : \A j \in 1 .. k : given[j].ok}
           n == Cardinality(good)
<1>1. good \in SUBSET (1 .. N)
  <2>1. ASSUME NEW k \in good PROVE k \in 1 .. N
    <3>1. k \in DOMAIN given
      BY Zenon
    <3> HIDE DEF good
    <3> QED BY <3>1, Zenon
  <2> HIDE DEF good
  <2> QED BY <2>1
<1>2. IsFiniteSet(1 .. N) /\ Cardinality(1 .. N) = N
  BY UpTo, Zenon
<1>3. n \in Nat /\ n <= N
  <2> HIDE DEF good
  <2>1. IsFiniteSet(good) /\ n <= Cardinality(1 .. N)
    BY <1>1, <1>2, FS_Subset
  <2>2. n \in Nat
    BY <2>1, FS_CardinalityType
  <2> QED BY <2>1, <2>2, <1>2
<1> HIDE DEF n
<1>4. UpToTrouble(given) = [k \in 1 .. n |-> given[k]]
  BY DEF UpToTrouble, n
<1>5. Lefts(UpToTrouble(given)) \subseteq Nat
  <2> DEFINE u == UpToTrouble(given)
  <2>1. DOMAIN u = 1 .. n
    BY <1>4
  <2>2. ASSUME NEW k \in 1 .. n PROVE u[k].left \in Nat \cup {None}
    <3>1. k \in 1 .. N /\ u[k] = given[k]
      BY <1>3, <1>4
    <3> HIDE DEF u, good
    <3>2. IsPage(given[k])
      BY <3>1
    <3> QED BY <3>1, <3>2 DEF IsPage
  <2> HIDE DEF u, good
  <2>3. Lefts(u) \subseteq Nat
    BY <2>1, <2>2 DEF Lefts
  <2> QED BY <2>3 DEF u
<1>6. ASSUME UpToTrouble(given) = given PROVE ~Breaks(given)
  <2>1. 1 .. n = 1 .. N
    BY <1>4, <1>6
  <2>2. n = N
    <3>1. n \in Nat /\ N \in Nat
      BY <1>3
    <3>2. CASE n # N
      <4>1. N \in 1 .. N /\ N \notin 1 .. n
        BY <3>1, <3>2, <1>3
      <4> QED BY <4>1, <2>1
    <3> QED BY <3>2
  <2>3. good = 1 .. N
    <3> HIDE DEF good
    <3> QED BY <1>1, <2>2, AllOfThem DEF n
  <2>4. ASSUME NEW k \in 1 .. N PROVE given[k].ok
    BY <2>3
  <2> QED BY <2>4 DEF Breaks
<1> QED BY <1>5, <1>6

LEMMA Inventory ==
  ASSUME NEW shop, IsShop(shop), NEW budget \in SUBSET Nat
  PROVE  LET r == _fetch_inventory_levels(shop, budget)
             chunks == Chunks(Items(shop.locations), LocationCap)
             levels == [k \in DOMAIN chunks |-> shop.levels[k]]
         IN  /\ r.error \in BOOLEAN
             /\ ~r.error => ~Breaks(levels) /\ r.items = Items(levels)
             /\ budget \subseteq r.budget /\ r.budget \subseteq Nat
<1> DEFINE r == _fetch_inventory_levels(shop, budget)
           locations == _fetch_paginated_resource(shop.locations, budget)
           chunks == Chunks(Items(shop.locations), LocationCap)
           levels == [k \in DOMAIN chunks |-> shop.levels[k]]
           N == Len(chunks)
<1>1. IsPages(shop.locations) /\ \A k \in DOMAIN chunks : IsPage(shop.levels[k])
  BY DEF IsShop
<1>2. PICK T : Items(shop.locations) \in Seq(T)
  BY <1>1, PagesAre
<1>3. Lefts(shop.locations) \subseteq Nat
  BY <1>1, PagesAre
<1>4. chunks \in Seq(Seq(T))
  <2> DEFINE s == Items(shop.locations)
  <2>1. s \in Seq(T) /\ LocationCap \in Nat \ {0}
    BY <1>2, ClientsAssumption
  <2> HIDE DEF s
  <2>2. Chunks(s, LocationCap) \in Seq(Seq(T))
    BY <2>1, PartsAreWhole
  <2> QED BY <2>2 DEF s
<1>5. /\ locations.ok <=> ~Breaks(shop.locations)
      /\ locations.ok => locations.items = Items(shop.locations) /\ locations.budget = budget \cup Lefts(shop.locations)
      /\ ~locations.ok => locations.items = <<>> /\ locations.budget = budget
  BY Resource
<1> HIDE DEF locations
<1>6. budget \subseteq locations.budget /\ locations.budget \subseteq Nat
  BY <1>3, <1>5
<1>7. CASE ~locations.ok \/ locations.items = <<>>
  <2>1. r = [items |-> <<>>, error |-> TRUE, budget |-> locations.budget]
    BY <1>7 DEF _fetch_inventory_levels, locations
  <2> HIDE DEF r
  <2>2. r.error = TRUE /\ r.budget = locations.budget
    BY <2>1
  <2> QED BY <2>2, <1>6 DEF r
<1>8. CASE ~(~locations.ok \/ locations.items = <<>>)
  <2>1. chunks = Chunks(locations.items, LocationCap)
    BY <1>5, <1>8
  <2>2. r = [items |-> Items(UpToTrouble(levels)), error |-> UpToTrouble(levels) # levels,
             budget |-> locations.budget \cup Lefts(UpToTrouble(levels))]
    BY <1>8, <2>1 DEF _fetch_inventory_levels, locations, UpToTrouble
  <2>3. N \in Nat /\ DOMAIN levels = 1 .. N /\ levels = [k \in 1 .. N |-> levels[k]]
        /\ \A k \in 1 .. N : IsPage(levels[k])
    BY <1>1, <1>4
  <2> HIDE DEF levels, chunks, N
  <2>4. Lefts(UpToTrouble(levels)) \subseteq Nat /\ (UpToTrouble(levels) = levels => ~Breaks(levels))
    BY <2>3, UpToTroubleIs
  <2> HIDE DEF r
  <2>5. r.error = (UpToTrouble(levels) # levels) /\ r.items = Items(UpToTrouble(levels))
        /\ r.budget = locations.budget \cup Lefts(UpToTrouble(levels))
    BY <2>2
  <2>6. budget \subseteq r.budget /\ r.budget \subseteq Nat
    BY <2>5, <2>4, <1>6
  <2>7. ASSUME ~r.error PROVE ~Breaks(levels) /\ r.items = Items(levels)
    BY <2>7, <2>5, <2>4
  <2>8. r.error \in BOOLEAN
    BY <2>5
  <2> QED BY <2>6, <2>7, <2>8 DEF r, levels, chunks
<1> QED BY <1>7, <1>8

(* Nothing of the metafields but what their headers tell matters here.                        *)
LEMMA Metafields ==
  ASSUME NEW shop, IsShop(shop), NEW budget \in SUBSET Nat, NEW T, NEW customers \in Seq(T)
  PROVE  LET r == SampledMetafields(shop, customers, budget)
         IN  budget \subseteq r.budget /\ r.budget \subseteq Nat
<1> DEFINE r == SampledMetafields(shop, customers, budget)
           first == First(customers, SampleCap)
           asked == [k \in DOMAIN first |-> shop.metafields[k]]
           N == Len(first)
<1>1. first \in Seq(T) /\ N <= SampleCap /\ SampleCap \in Nat
  <2> DEFINE m == Min({SampleCap, Len(customers)})
  <2>1. SampleCap \in Nat /\ Len(customers) \in Nat
    BY ClientsAssumption
  <2>2. m \in Nat /\ m <= SampleCap /\ m <= Len(customers)
    BY <2>1, MinOfTwo
  <2>3. first = SubSeq(customers, 1, m)
    BY DEF First
  <2> HIDE DEF m, first
  <2> QED BY <2>1, <2>2, <2>3
<1> HIDE DEF first
<1>2. N \in Nat /\ DOMAIN asked = 1 .. N /\ asked = [k \in 1 .. N |-> asked[k]]
  BY <1>1
<1>3. \A k \in 1 .. N : IsPage(asked[k])
  BY <1>1, <1>2 DEF IsShop
<1>4. r.budget = budget \cup Lefts(UpToTrouble(asked))
  BY DEF SampledMetafields, UpToTrouble, first
<1> HIDE DEF asked, N
<1>5. Lefts(UpToTrouble(asked)) \subseteq Nat
  BY <1>2, <1>3, UpToTroubleIs
<1> QED BY <1>4, <1>5

(* What is fetched of a shop, step by step.                                                 *)
LEMMA ShopSteps ==
  ASSUME NEW shop, IsShop(shop), ShopifyFetch(shop).ok
  PROVE  LET f == ShopifyFetch(shop)
             chunks == Chunks(Items(shop.locations), LocationCap)
             levels == [k \in DOMAIN chunks |-> shop.levels[k]]
         IN  /\ ~Breaks(shop.customers) /\ f.rows.customers = Items(shop.customers)
             /\ ~Breaks(shop.orders) /\ f.rows.orders = Items(shop.orders)
             /\ "products" \in f.told \/ (~Breaks(shop.products) /\ f.rows.products = Items(shop.products))
             /\ \/ "checkouts" \in f.told
                \/ /\ ~Breaks(shop.open) /\ ~Breaks(shop.closed)
                   /\ f.rows.checkouts = Items(shop.open) \o Items(shop.closed)
             /\ "inventory" \in f.told \/ (~Breaks(levels) /\ f.rows.inventory = Items(levels))
             /\ \E seen \in SUBSET Nat : /\ Lefts(shop.customers) \cup Lefts(shop.orders) \subseteq seen
                                         /\ f.budget = merge_shopify_call_limit(seen)
<1> DEFINE customers == _fetch_paginated_resource(shop.customers, {})
           ordered == _fetch_paginated_resource(shop.orders, customers.budget)
           products == _fetch_paginated_resource(shop.products, ordered.budget)
           checkouts == _fetch_abandoned_checkouts(shop, products.budget)
           inventory == _fetch_inventory_levels(shop, checkouts.budget)
           metafields == SampledMetafields(shop, customers.items, inventory.budget)
           gaps == [products |-> ~products.ok, checkouts |-> checkouts.error, inventory |-> inventory.error]
           told == {surface \in DOMAIN gaps : gaps[surface]}
           rows == [customers |-> customers.items, orders |-> ordered.items,
                    products |-> products.items, checkouts |-> checkouts.items,
                    inventory |-> inventory.items, metafields |-> metafields.items]
           budget == merge_shopify_call_limit(metafields.budget)
           f == ShopifyFetch(shop)
<1>1. f = IF ~customers.ok \/ ~ordered.ok THEN [ok |-> FALSE]
          ELSE [ok |-> TRUE, rows |-> rows, told |-> told, budget |-> budget]
  BY DEF ShopifyFetch
<1> HIDE DEF f
<1>2. customers.ok /\ ordered.ok
  <2> HIDE DEF customers, ordered, rows, told, budget
  <2>1. f.ok
    BY DEF f
  <2> SUFFICES ASSUME ~customers.ok \/ ~ordered.ok PROVE FALSE
    OBVIOUS
  <2>2. f = [ok |-> FALSE]
    BY <1>1
  <2> QED BY <2>1, <2>2
<1>3. f.rows = rows /\ f.told = told /\ f.budget = budget
  <2> HIDE DEF customers, ordered, rows, told, budget
  <2> QED BY <1>1, <1>2
<1>4. /\ f.rows.customers = customers.items /\ f.rows.orders = ordered.items
      /\ f.rows.products = products.items /\ f.rows.checkouts = checkouts.items
      /\ f.rows.inventory = inventory.items
  <2> HIDE DEF customers, ordered, products, checkouts, inventory, metafields, told, budget
  <2> QED BY <1>3
<1>5. IsPages(shop.customers) /\ IsPages(shop.orders) /\ IsPages(shop.products) /\ IsPages(shop.open) /\ IsPages(shop.closed)
  BY DEF IsShop
<1>6. /\ Lefts(shop.customers) \subseteq Nat /\ Lefts(shop.orders) \subseteq Nat /\ Lefts(shop.products) \subseteq Nat
      /\ Lefts(shop.open) \subseteq Nat /\ Lefts(shop.closed) \subseteq Nat
  BY <1>5, PagesAre
<1>7. PICK T : Items(shop.customers) \in Seq(T)
  BY <1>5, PagesAre
<1>8. ~Breaks(shop.customers) /\ customers.items = Items(shop.customers) /\ customers.budget = {} \cup Lefts(shop.customers)
  BY <1>2, Resource
<1>9. ~Breaks(shop.orders) /\ ordered.items = Items(shop.orders) /\ ordered.budget = customers.budget \cup Lefts(shop.orders)
  <2> HIDE DEF customers
  <2> QED BY <1>2, Resource
<1> HIDE DEF customers, ordered
<1>10. /\ products.ok => ~Breaks(shop.products) /\ products.items = Items(shop.products)
       /\ products.ok \in BOOLEAN
       /\ ordered.budget \subseteq products.budget /\ products.budget \subseteq Nat
  <2>1. /\ products.ok <=> ~Breaks(shop.products)
        /\ products.ok => products.items = Items(shop.products) /\ products.budget = ordered.budget \cup Lefts(shop.products)
        /\ ~products.ok => products.items = <<>> /\ products.budget = ordered.budget
        /\ products.ok \in BOOLEAN
    BY Resource
  <2> HIDE DEF products
  <2> QED BY <2>1, <1>6, <1>8, <1>9
<1> HIDE DEF products
<1>11. /\ checkouts.error \in BOOLEAN
       /\ ~checkouts.error => ~Breaks(shop.open) /\ ~Breaks(shop.closed)
                              /\ checkouts.items = Items(shop.open) \o Items(shop.closed)
       /\ products.budget \subseteq checkouts.budget /\ checkouts.budget \subseteq Nat
  <2> DEFINE open == _fetch_paginated_resource(shop.open, products.budget)
             closed == _fetch_paginated_resource(shop.closed, open.budget)
  <2>1. checkouts = IF ~open.ok THEN [items |-> <<>>, error |-> TRUE, budget |-> products.budget]
                    ELSE [items |-> open.items \o closed.items, error |-> ~closed.ok, budget |-> closed.budget]
    BY DEF _fetch_abandoned_checkouts
  <2>2. /\ open.ok <=> ~Breaks(shop.open)
        /\ open.ok => open.items = Items(shop.open) /\ open.budget = products.budget \cup Lefts(shop.open)
    BY Resource
  <2> HIDE DEF open
  <2>3. /\ closed.ok <=> ~Breaks(shop.closed)
        /\ closed.ok => closed.items = Items(shop.closed) /\ closed.budget = open.budget \cup Lefts(shop.closed)
        /\ ~closed.ok => closed.items = <<>> /\ closed.budget = open.budget
        /\ closed.ok \in BOOLEAN
    BY Resource
  <2> HIDE DEF closed, checkouts
  <2>4. CASE ~open.ok
    <3>1. checkouts.error = TRUE /\ checkouts.budget = products.budget
      BY <2>1, <2>4
    <3> QED BY <3>1, <1>10
  <2>5. CASE open.ok
    <3>1. checkouts.error = ~closed.ok /\ checkouts.budget = closed.budget /\ checkouts.items = open.items \o closed.items
      BY <2>1, <2>5
    <3>2. products.budget \subseteq checkouts.budget /\ checkouts.budget \subseteq Nat
      BY <3>1, <2>2, <2>3, <2>5, <1>6, <1>10
    <3>3. ASSUME ~checkouts.error
          PROVE  ~Breaks(shop.open) /\ ~Breaks(shop.closed) /\ checkouts.items = Items(shop.open) \o Items(shop.closed)
      <4>1. closed.ok
        BY <3>1, <3>3, <2>3
      <4> QED BY <4>1, <3>1, <2>2, <2>3, <2>5
    <3> QED BY <3>1, <3>2, <3>3, <2>3
  <2> QED BY <2>4, <2>5
<1> HIDE DEF checkouts
<1> DEFINE chunks == Chunks(Items(shop.locations), LocationCap)
           levels == [k \in DOMAIN chunks |-> shop.levels[k]]
<1>12. /\ inventory.error \in BOOLEAN
       /\ ~inventory.error => ~Breaks(levels) /\ inventory.items = Items(levels)
       /\ checkouts.budget \subseteq inventory.budget /\ inventory.budget \subseteq Nat
  <2>1. checkouts.budget \in SUBSET Nat
    BY <1>11
  <2> QED BY <2>1, Inventory
<1> HIDE DEF inventory, levels
<1>13. inventory.budget \subseteq metafields.budget /\ metafields.budget \subseteq Nat
  <2>1. inventory.budget \in SUBSET Nat /\ customers.items \in Seq(T)
    BY <1>12, <1>7, <1>8
  <2> QED BY <2>1, Metafields
<1> HIDE DEF metafields
<1>14. /\ "products" \in told <=> ~products.ok
       /\ "checkouts" \in told <=> checkouts.error
       /\ "inventory" \in told <=> inventory.error
  <2>1. DOMAIN gaps = {"products", "checkouts", "inventory"}
    OBVIOUS
  <2>2. gaps["products"] = ~products.ok /\ gaps["checkouts"] = checkouts.error /\ gaps["inventory"] = inventory.error
    OBVIOUS
  <2> HIDE DEF gaps
  <2> QED BY <2>1, <2>2, <1>10, <1>11, <1>12
<1> HIDE DEF told, rows, gaps
<1>15. Lefts(shop.customers) \cup Lefts(shop.orders) \subseteq metafields.budget
  BY <1>8, <1>9, <1>10, <1>11, <1>12, <1>13
<1>16. metafields.budget \in SUBSET Nat /\ f.budget = merge_shopify_call_limit(metafields.budget)
  BY <1>13, <1>3
<1>17. "products" \in f.told \/ (~Breaks(shop.products) /\ f.rows.products = Items(shop.products))
  BY <1>3, <1>4, <1>10, <1>14
<1>18. "checkouts" \in f.told \/ (~Breaks(shop.open) /\ ~Breaks(shop.closed) /\ f.rows.checkouts = Items(shop.open) \o Items(shop.closed))
  BY <1>3, <1>4, <1>11, <1>14
<1>19. "inventory" \in f.told \/ (~Breaks(levels) /\ f.rows.inventory = Items(levels))
  BY <1>3, <1>4, <1>12, <1>14
<1> QED BY <1>4, <1>8, <1>9, <1>15, <1>16, <1>17, <1>18, <1>19 DEF f, levels

LEMMA ShopTells ==
  ASSUME NEW shop, IsShop(shop)
  PROVE  ShopifyTellsItsGaps(shop)
<1> DEFINE f == ShopifyFetch(shop)
<1>1. ASSUME f.ok PROVE TellsGapsOfShop(shop, f)
  BY <1>1, ShopSteps, Zenon DEF TellsGapsOfShop
<1>2. ASSUME ~f.ok PROVE TellsGapsOfShop(shop, f)
  BY <1>2, Zenon DEF TellsGapsOfShop
<1> QED BY <1>1, <1>2 DEF ShopifyTellsItsGaps

LEMMA ShopThrottlingSeen ==
  ASSUME NEW shop, IsShop(shop)
  PROVE  ShopifyThrottlingIsSeen(shop)
<1> DEFINE f == ShopifyFetch(shop)
<1> SUFFICES ASSUME f.ok, 0 \in Lefts(shop.customers) \cup Lefts(shop.orders)
             PROVE  ~budget_has_headroom(f.budget)
  BY Zenon DEF ShopifyThrottlingIsSeen
<1>1. PICK seen \in SUBSET Nat : /\ Lefts(shop.customers) \cup Lefts(shop.orders) \subseteq seen
                                 /\ f.budget = merge_shopify_call_limit(seen)
  BY ShopSteps, Zenon
<1>2. 0 \in seen /\ seen # {}
  BY <1>1
<1>3. Min(seen) = 0
  <2>1. 0 \in seen /\ \A y \in seen : 0 <= y
    BY <1>2
  <2>2. \A x \in seen : (\A y \in seen : x <= y) => x = 0
    BY <1>2
  <2> QED BY <2>1, <2>2 DEF Min
<1> HIDE DEF f
<1>4. f.budget = [remaining |-> Min(seen), hit_rate_limit |-> Min(seen) <= 0]
  BY <1>1, <1>2 DEF merge_shopify_call_limit
<1>5. f.budget.hit_rate_limit
  <2> DEFINE spent == Min(seen) <= 0
             least == Min(seen)
  <2>1. spent = TRUE
    BY <1>3
  <2> HIDE DEF spent, least
  <2>2. f.budget = [remaining |-> least, hit_rate_limit |-> spent]
    BY <1>4 DEF spent, least
  <2>3. f.budget.hit_rate_limit = spent
    BY <2>2
  <2> QED BY <2>1, <2>3
<1> QED BY <1>5 DEF budget_has_headroom

---------------------------------------------------------------------------------
(* Manago: no person is missing, and no surface that is not told of                        *)

(* People who changed in the window, and the ids that the requests for them list.                *)
PeopleOf(manago, owner) == {c \in manago.people : c.owner = owner /\ c.day \in manago.from .. manago.to}

(* All ids are listed, each once, when every request is answered.                               *)
LEMMA IdsListed ==
  ASSUME NEW manago, IsEstate(manago), NEW owner, NEW counter,
         _list_modified_contact_ids(manago, owner, counter).ok
  PROVE  LET ids == _list_modified_contact_ids(manago, owner, counter).items
             people == PeopleOf(manago, owner)
         IN  /\ \E T : ids \in Seq(T)
             /\ ToSet(ids) = {c.id : c \in people}
             /\ Len(ids) = Cardinality(people)
<1> DEFINE pieces == _chunk_time_range(manago.from, manago.to)
           of(k) == {c.id : c \in Changed(manago, owner, pieces[k])}
           ids(k) == SetToSeq(of(k))
           given == [k \in DOMAIN pieces |-> [is |-> Outcome(manago.listed, k), items |-> ids(k)]]
           listed == Posted(given, counter)
           result == _list_modified_contact_ids(manago, owner, counter)
           people == PeopleOf(manago, owner)
           T == {c.id : c \in manago.people}
           wanted == {c.id : c \in people}
<1>1. result = [listed EXCEPT !.items = SetToSeq(ToSet(@))]
  BY DEF _list_modified_contact_ids
<1>2. listed.ok /\ result.items = SetToSeq(ToSet(listed.items))
  <2> DEFINE good == {k \in DOMAIN given : \A j \in 1 .. k : given[j].is = "ok"}
             made == [k \in 1 .. Min({Cardinality(good) + 1, Len(given)}) |-> given[k]]
             ok == Cardinality(good) = Len(given)
             items == Items([k \in 1 .. Cardinality(good) |-> given[k]])
             count == _post_manago(made, counter)
  <2>1. listed = [ok |-> ok, items |-> items, counter |-> count]
    BY DEF Posted
  <2> HIDE DEF ok, items, count, listed, given
  <2>2. result.ok = listed.ok /\ result.items = SetToSeq(ToSet(listed.items))
    <3> HIDE DEF result
    <3> QED BY <2>1, <1>1
  <2> QED BY <2>2
<1>3. PICK N \in Nat : /\ DOMAIN pieces = 1 .. N
                       /\ \A d \in Int : d \in manago.from .. manago.to <=> \E k \in 1 .. N : d \in pieces[k].from .. pieces[k].to
  BY PiecesCover DEF IsEstate
<1>4. /\ IsFiniteSet(manago.people)
      /\ \A c \in manago.people : c.day \in Int
      /\ \A c, d \in manago.people : c.id = d.id => c = d
  BY DEF IsEstate
<1>5. IsFiniteSet(T)
  <2> DEFINE f == [c \in manago.people |-> c.id]
             all == manago.people
  <2>1. f \in Surjection(all, T)
    BY DEF Surjection
  <2> HIDE DEF f, T, all
  <2> QED BY <2>1, <1>4, FS_Surjection DEF all
<1> HIDE DEF pieces, result
<1>6. \A k \in 1 .. N : IsFiniteSet(of(k)) /\ of(k) \subseteq T
  <2> SUFFICES ASSUME NEW k \in 1 .. N PROVE IsFiniteSet(of(k)) /\ of(k) \subseteq T
    OBVIOUS
  <2>1. of(k) \in SUBSET T
    BY DEF Changed
  <2> HIDE DEF of, T
  <2> QED BY <2>1, <1>5, FS_Subset
<1>7. \A k \in 1 .. N : ids(k) \in Seq(T) /\ ToSet(ids(k)) = of(k)
  <2> SUFFICES ASSUME NEW k \in 1 .. N PROVE ids(k) \in Seq(T) /\ ToSet(ids(k)) = of(k)
    OBVIOUS
  <2>1. IsFiniteSet(of(k)) /\ of(k) \subseteq T
    BY <1>6
  <2> HIDE DEF of, T
  <2>2. ids(k) \in Seq(of(k)) /\ ToSet(ids(k)) = of(k)
    BY <2>1, Enumerated
  <2> HIDE DEF ids
  <2> QED BY <2>1, <2>2
<1>8. DOMAIN given = 1 .. N /\ given = [k \in 1 .. N |-> given[k]] /\ \A k \in 1 .. N : given[k].items = ids(k)
  <2> HIDE DEF of, ids
  <2> QED BY <1>3
<1> HIDE DEF given, T, ids, of
<1>9. listed.items = Items(given)
  BY <1>2, <1>8, PostedWhole
<1>10. ToSet(listed.items) = UNION {ToSet(given[k].items) : k \in 1 .. N}
  <2>1. \A k \in 1 .. N : given[k].items \in Seq(T)
    BY <1>7, <1>8
  <2>2. ToSet(Items(given)) = UNION {ToSet(given[k].items) : k \in 1 .. N}
    BY <2>1, <1>8, ItemsOfAll
  <2> QED BY <2>2, <1>9
<1>11. ToSet(listed.items) = UNION {of(k) : k \in 1 .. N}
  <2>1. \A k \in 1 .. N : ToSet(given[k].items) = of(k)
    BY <1>7, <1>8
  <2>2. {ToSet(given[k].items) : k \in 1 .. N} = {of(k) : k \in 1 .. N}
    BY <2>1, Zenon
  <2> QED BY <1>10, <2>2
<1>12. UNION {of(k) : k \in 1 .. N} = wanted
  <2>1. ASSUME NEW k \in 1 .. N, NEW x \in of(k) PROVE x \in wanted
    <3>1. PICK c \in manago.people : c.owner = owner /\ c.day \in pieces[k].from .. pieces[k].to /\ x = c.id
      BY <2>1 DEF of, Changed
    <3>2. c.day \in manago.from .. manago.to
      BY <3>1, <1>3, <1>4
    <3> QED BY <3>1, <3>2 DEF PeopleOf
  <2>2. ASSUME NEW x \in wanted PROVE \E k \in 1 .. N : x \in of(k)
    <3>1. PICK c \in manago.people : c.owner = owner /\ c.day \in manago.from .. manago.to /\ x = c.id
      BY DEF PeopleOf
    <3>2. PICK k \in 1 .. N : c.day \in pieces[k].from .. pieces[k].to
      BY <3>1, <1>3, <1>4
    <3> QED BY <3>1, <3>2 DEF of, Changed
  <2> QED BY <2>1, <2>2
<1>13. IsFiniteSet(people) /\ IsFiniteSet(wanted) /\ Cardinality(wanted) = Cardinality(people)
  <2> DEFINE f == [c \in people |-> c.id]
  <2>1. people \in SUBSET manago.people
    BY DEF PeopleOf
  <2>2. IsFiniteSet(people)
    <3> HIDE DEF people
    <3> QED BY <2>1, <1>4, FS_Subset
  <2>3. f \in Bijection(people, wanted)
    <3> HIDE DEF people
    <3> QED BY <2>1, <1>4 DEF Bijection, Injection, Surjection, IsInjective
  <2>4. ExistsBijection(people, wanted)
    BY <2>3 DEF ExistsBijection
  <2> HIDE DEF people, wanted
  <2> QED BY <2>2, <2>4, FS_Bijection
<1>14. result.items = SetToSeq(wanted)
  BY <1>2, <1>11, <1>12
<1> HIDE DEF wanted, people
<1>15. result.items \in Seq(wanted) /\ ToSet(result.items) = wanted /\ Len(result.items) = Cardinality(people)
  BY <1>13, <1>14, Enumerated
<1> QED BY <1>15 DEF result, wanted, people

(* The people come in batches, all of whom are kept.                                           *)
LEMMA PeopleFetched ==
  ASSUME NEW manago, NEW T, NEW ids \in Seq(T), NEW counter, _fetch_contacts_by_id(manago, ids, counter).ok
  PROVE  _fetch_contacts_by_id(manago, ids, counter).items = ids
<1> DEFINE batches == Chunks(ids, BatchSize)
           N == Len(batches)
           given == [k \in DOMAIN batches |-> [is |-> Outcome(manago.bodies, k), items |-> batches[k]]]
<1>1. batches \in Seq(Seq(T)) /\ FlattenSeq(batches) = ids
  BY ClientsAssumption, PartsAreWhole
<1>2. _fetch_contacts_by_id(manago, ids, counter) = Posted(given, counter)
  BY DEF _fetch_contacts_by_id
<1> HIDE DEF batches
<1>3. N \in Nat /\ DOMAIN given = 1 .. N /\ given = [k \in 1 .. N |-> given[k]]
  BY <1>1
<1>4. [k \in DOMAIN given |-> given[k].items] = batches
  BY <1>1
<1> HIDE DEF given, N
<1>5. Posted(given, counter).items = Items(given)
  BY <1>2, <1>3, PostedWhole
<1>6. Items(given) = ids
  BY <1>1, <1>4 DEF Items
<1> QED BY <1>2, <1>5, <1>6

(* A fetch that succeeds knows its owner, has the people, and then goes through the surfaces.    *)
LEMMA ManagoSucceeds ==
  ASSUME NEW manago, IsEstate(manago), ManagoFetch(manago).ok
  PROVE  LET owner == OwnerFrom(manago.config, manago.users.items)
             people == PeopleOf(manago, owner)
         IN  /\ manago.users.is = "ok"
             /\ \E contacts0 : /\ ManagoFetch(manago) = WithSurfaces(manago, contacts0)
                               /\ ToSet(contacts0.items) = {c.id : c \in people}
                               /\ Len(contacts0.items) = Cardinality(people)
<1> DEFINE owner == _resolve_owner(manago, NoRequests)
           got == _fetch_contacts(manago, owner)
           failed(counter) == [ok |-> FALSE, budget |-> build_manago_rate_budget(counter)]
           f == ManagoFetch(manago)
<1>1. f = IF owner.owner = None THEN failed(owner.counter)
          ELSE IF ~got.ok THEN failed(got.counter)
          ELSE WithSurfaces(manago, got)
  BY DEF ManagoFetch
<1>2. \A counter : failed(counter).ok = FALSE
  OBVIOUS
<1>3. f.ok
  OBVIOUS
<1>4. owner.owner = IF manago.users.is = "ok" THEN OwnerFrom(manago.config, manago.users.items) ELSE None
  BY DEF _resolve_owner
<1> HIDE DEF owner, got, failed, f
<1>5. owner.owner # None /\ got.ok /\ f = WithSurfaces(manago, got)
  <2>1. owner.owner # None
    BY <1>1, <1>2, <1>3
  <2>2. got.ok
    BY <1>1, <1>2, <1>3, <2>1
  <2> QED BY <1>1, <2>1, <2>2
<1>6. manago.users.is = "ok" /\ owner.owner = OwnerFrom(manago.config, manago.users.items)
  BY <1>4, <1>5
<1> DEFINE who == owner.owner
           ids == _list_modified_contact_ids(manago, who, owner.counter)
           people == PeopleOf(manago, who)
<1>7. got = IF ids.ok THEN _fetch_contacts_by_id(manago, ids.items, ids.counter) ELSE ids
  BY DEF got, _fetch_contacts
<1> HIDE DEF who
<1>8. ids.ok
  <2> HIDE DEF ids
  <2> QED BY <1>5, <1>7
<1>9. (\E T : ids.items \in Seq(T)) /\ ToSet(ids.items) = {c.id : c \in people} /\ Len(ids.items) = Cardinality(people)
  BY <1>8, IdsListed
<1> HIDE DEF ids
<1>10. PICK T : ids.items \in Seq(T)
  BY <1>9
<1>11. got = _fetch_contacts_by_id(manago, ids.items, ids.counter) /\ got.ok
  BY <1>7, <1>8, <1>5
<1>12. got.items = ids.items
  BY <1>10, <1>11, PeopleFetched
<1> QED BY <1>5, <1>6, <1>9, <1>12 DEF f, who

(* The surfaces of a fetch: what each gives, and whether it is told that it is missing.          *)
LEMMA Surfaces ==
  ASSUME NEW manago, IsEstate(manago), NEW contacts0
  PROVE  LET f == WithSurfaces(manago, contacts0)
         IN  /\ f.rows.contacts = contacts0.items
             /\ f.rows.transactions = _extract_external_events(manago, contacts0.items, TRUE)
             /\ f.rows.events = _extract_external_events(manago, contacts0.items, FALSE)
             /\ \A s \in {"catalogs", "workflows", "tags", "email"} :
                  s \in f.told \/ (manago[s] # None /\ manago[s].is = "ok" /\ f.rows[s] = manago[s].items)
             /\ "products" \in f.told \/ (manago.feed # None /\ manago.feed.is \in {"ok", "malformed"})
<1> DEFINE catalogs == _fetch_product_catalogs_v3(manago, contacts0.counter)
           products == _fetch_catalog_products(manago)
           workflows == _fetch_workflows(manago, catalogs.counter)
           stats == _fetch_workflow_stats(manago, workflows.items, workflows.counter)
           tags == _fetch_contact_tags(manago, stats.counter)
           email == _fetch_email_global_stats(manago, tags.counter)
           notes == [catalogs |-> catalogs.note, products |-> products.note, workflows |-> workflows.note,
                     tags |-> tags.note, email |-> email.note]
           told == {surface \in DOMAIN notes : notes[surface]}
           paid == _extract_external_events(manago, contacts0.items, TRUE)
           others == _extract_external_events(manago, contacts0.items, FALSE)
           rows == [contacts |-> contacts0.items, catalogs |-> catalogs.items, products |-> products.items,
                    workflows |-> workflows.items, stats |-> stats.items, tags |-> tags.items,
                    email |-> email.items, transactions |-> paid, events |-> others]
           budget == build_manago_rate_budget(email.counter)
           f == WithSurfaces(manago, contacts0)
<1>1. f = [ok |-> TRUE, rows |-> rows, told |-> told, budget |-> budget]
  BY DEF WithSurfaces
<1>2. f.rows = rows /\ f.told = told
  <2> HIDE DEF rows, told, budget, f
  <2> QED BY <1>1
<1>3. manago.workflows # None /\ manago.tags # None /\ manago.email # None
      /\ (manago.feed = None \/ manago.feed.is \in {"ok", "failed", "throttled", "malformed"})
  BY DEF IsEstate
<1>4. /\ workflows.note = (manago.workflows.is # "ok")
      /\ workflows.items = IF manago.workflows.is = "ok" THEN manago.workflows.items ELSE <<>>
  <2> HIDE DEF catalogs
  <2> QED BY DEF _fetch_workflows, Optional
<1>5. /\ tags.note = (manago.tags.is # "ok")
      /\ tags.items = IF manago.tags.is = "ok" THEN manago.tags.items ELSE <<>>
  <2> HIDE DEF stats
  <2> QED BY DEF _fetch_contact_tags, Optional
<1>6. /\ email.note = (manago.email.is # "ok")
      /\ email.items = IF manago.email.is = "ok" THEN manago.email.items ELSE <<>>
  <2> HIDE DEF tags
  <2> QED BY DEF _fetch_email_global_stats, Optional
<1>7. /\ catalogs.note = (manago.catalogs = None \/ manago.catalogs.is # "ok")
      /\ ~catalogs.note => catalogs.items = manago.catalogs.items
  BY DEF _fetch_product_catalogs_v3
<1>8. products.note = (manago.feed = None \/ manago.feed.is \in {"failed", "throttled"})
  BY DEF _fetch_catalog_products
<1> HIDE DEF f, catalogs, products, workflows, stats, tags, email, paid, others
<1>9. /\ rows.contacts = contacts0.items /\ rows.transactions = paid /\ rows.events = others
      /\ rows["catalogs"] = catalogs.items /\ rows["workflows"] = workflows.items
      /\ rows["tags"] = tags.items /\ rows["email"] = email.items
  OBVIOUS
<1>10. /\ "catalogs" \in told <=> catalogs.note
       /\ "products" \in told <=> products.note
       /\ "workflows" \in told <=> workflows.note
       /\ "tags" \in told <=> tags.note
       /\ "email" \in told <=> email.note
  <2>1. DOMAIN notes = {"catalogs", "products", "workflows", "tags", "email"}
    OBVIOUS
  <2>2. /\ notes["catalogs"] = catalogs.note /\ notes["products"] = products.note
        /\ notes["workflows"] = workflows.note /\ notes["tags"] = tags.note /\ notes["email"] = email.note
    OBVIOUS
  <2> HIDE DEF notes
  <2> QED BY <2>1, <2>2, <1>4, <1>5, <1>6, <1>7, <1>8
<1> HIDE DEF rows, told
<1>11. "catalogs" \in told \/ (manago.catalogs # None /\ manago.catalogs.is = "ok" /\ rows["catalogs"] = manago.catalogs.items)
  BY <1>7, <1>9, <1>10
<1>12. "workflows" \in told \/ (manago.workflows.is = "ok" /\ rows["workflows"] = manago.workflows.items)
  BY <1>4, <1>9, <1>10
<1>13. "tags" \in told \/ (manago.tags.is = "ok" /\ rows["tags"] = manago.tags.items)
  BY <1>5, <1>9, <1>10
<1>14. "email" \in told \/ (manago.email.is = "ok" /\ rows["email"] = manago.email.items)
  BY <1>6, <1>9, <1>10
<1>15. "products" \in told \/ (manago.feed # None /\ manago.feed.is \in {"ok", "malformed"})
  BY <1>3, <1>8, <1>10
<1>16. \A s \in {"catalogs", "workflows", "tags", "email"} :
         s \in told \/ (manago[s] # None /\ manago[s].is = "ok" /\ rows[s] = manago[s].items)
  BY <1>3, <1>11, <1>12, <1>13, <1>14
<1> QED BY <1>2, <1>9, <1>15, <1>16 DEF f, paid, others

LEMMA ManagoTells ==
  ASSUME NEW manago, IsEstate(manago)
  PROVE  ManagoTellsItsGaps(manago)
<1> DEFINE f == ManagoFetch(manago)
           owner == OwnerFrom(manago.config, manago.users.items)
           people == PeopleOf(manago, owner)
           wanted == {e \in UNION {c.events : c \in people} : e.day \in manago.from .. manago.to}
           whole(s) == manago[s] # None /\ manago[s].is = "ok" /\ f.rows[s] = manago[s].items
<1> SUFFICES ASSUME f.ok
             PROVE  /\ ToSet(f.rows.contacts) = {c.id : c \in people}
                    /\ Len(f.rows.contacts) = Cardinality(people)
                    /\ f.rows.transactions \cup f.rows.events = wanted
                    /\ \A s \in {"catalogs", "workflows", "tags", "email"} : s \in f.told \/ whole(s)
                    /\ "products" \in f.told \/ (manago.feed # None /\ manago.feed.is \in {"ok", "malformed"})
  BY Zenon DEF ManagoTellsItsGaps, TellsGapsOfManago, PeopleOf
<1>1. PICK contacts0 : /\ f = WithSurfaces(manago, contacts0)
                       /\ ToSet(contacts0.items) = {c.id : c \in people}
                       /\ Len(contacts0.items) = Cardinality(people)
  BY ManagoSucceeds
<1> DEFINE g == WithSurfaces(manago, contacts0)
<1>2. /\ g.rows.contacts = contacts0.items
      /\ g.rows.transactions = _extract_external_events(manago, contacts0.items, TRUE)
      /\ g.rows.events = _extract_external_events(manago, contacts0.items, FALSE)
      /\ \A s \in {"catalogs", "workflows", "tags", "email"} :
           s \in g.told \/ (manago[s] # None /\ manago[s].is = "ok" /\ g.rows[s] = manago[s].items)
      /\ "products" \in g.told \/ (manago.feed # None /\ manago.feed.is \in {"ok", "malformed"})
  BY Surfaces
<1>3. f = g
  BY <1>1
<1> HIDE DEF f, g
<1>4. {x \in manago.people : x.id \in ToSet(contacts0.items)} = people
  <2>1. \A c, d \in manago.people : c.id = d.id => c = d
    BY DEF IsEstate
  <2>2. people \subseteq manago.people
    BY DEF PeopleOf
  <2> HIDE DEF people
  <2> QED BY <1>1, <2>1, <2>2
<1>5. _extract_external_events(manago, contacts0.items, TRUE)
        \cup _extract_external_events(manago, contacts0.items, FALSE) = wanted
  <2> DEFINE all == UNION {c.events : c \in people}
  <2>1. \A t : _extract_external_events(manago, contacts0.items, t)
               = {e \in all : e.day \in manago.from .. manago.to /\ (t <=> e.type \in _TRANSACTION_EVENT_TYPES)}
    BY <1>4 DEF _extract_external_events
  <2>2. wanted = {e \in all : e.day \in manago.from .. manago.to}
    OBVIOUS
  <2> HIDE DEF all, wanted
  <2> QED BY <2>1, <2>2
<1> HIDE DEF people, wanted
<1> QED BY <1>1, <1>2, <1>3, <1>5

---------------------------------------------------------------------------------
(* Throttling is seen                                                                  *)

(* A throttled request is counted, and stays so.                                            *)
LEMMA HitStays ==
  ASSUME NEW given, NEW counter
  PROVE  /\ counter.hit => _post_manago(given, counter).hit
         /\ \A k \in DOMAIN given : given[k].is = "throttled" => _post_manago(given, counter).hit
<1> DEFINE hit == counter.hit \/ \E k \in DOMAIN given : given[k].is = "throttled"
           sampled == counter.sampled + Len(given)
           ok == counter.ok + Cardinality({k \in DOMAIN given : given[k].is = "ok"})
           r == _post_manago(given, counter)
<1>1. r = [sampled |-> sampled, ok |-> ok, hit |-> hit]
  BY DEF _post_manago
<1>2. r.hit = hit
  <2> HIDE DEF sampled, ok, hit, r
  <2> QED BY <1>1
<1>3. counter.hit => hit
  OBVIOUS
<1>4. \A k \in DOMAIN given : given[k].is = "throttled" => hit
  OBVIOUS
<1> HIDE DEF hit, r
<1> QED BY <1>2, <1>3, <1>4 DEF r

LEMMA HitOfOne ==
  ASSUME NEW answer, NEW counter
  PROVE  /\ counter.hit => _post_manago(<<answer>>, counter).hit
         /\ answer.is = "throttled" => _post_manago(<<answer>>, counter).hit
<1>1. 1 \in DOMAIN <<answer>> /\ <<answer>>[1] = answer
  OBVIOUS
<1> DEFINE given == <<answer>>
<1> HIDE DEF given
<1>2. /\ counter.hit => _post_manago(given, counter).hit
      /\ \A k \in DOMAIN given : given[k].is = "throttled" => _post_manago(given, counter).hit
  BY HitStays
<1> QED BY <1>1, <1>2 DEF given

(* No surface is throttled without the budget of the fetch saying so.                           *)
LEMMA SurfacesHit ==
  ASSUME NEW manago, NEW contacts0
  PROVE  LET f == WithSurfaces(manago, contacts0)
         IN  (\/ manago.workflows.is = "throttled" \/ manago.tags.is = "throttled" \/ manago.email.is = "throttled"
              \/ \E k \in DOMAIN First(f.rows.workflows, StatsCap) : Outcome(manago.stats, k) = "throttled")
             => f.budget.hit_rate_limit
<1> DEFINE catalogs == _fetch_product_catalogs_v3(manago, contacts0.counter)
           products == _fetch_catalog_products(manago)
           workflows == _fetch_workflows(manago, catalogs.counter)
           stats == _fetch_workflow_stats(manago, workflows.items, workflows.counter)
           tags == _fetch_contact_tags(manago, stats.counter)
           email == _fetch_email_global_stats(manago, tags.counter)
           notes == [catalogs |-> catalogs.note, products |-> products.note, workflows |-> workflows.note,
                     tags |-> tags.note, email |-> email.note]
           told == {surface \in DOMAIN notes : notes[surface]}
           paid == _extract_external_events(manago, contacts0.items, TRUE)
           others == _extract_external_events(manago, contacts0.items, FALSE)
           rows == [contacts |-> contacts0.items, catalogs |-> catalogs.items, products |-> products.items,
                    workflows |-> workflows.items, stats |-> stats.items, tags |-> tags.items,
                    email |-> email.items, transactions |-> paid, events |-> others]
           budget == build_manago_rate_budget(email.counter)
           f == WithSurfaces(manago, contacts0)
<1>1. f = [ok |-> TRUE, rows |-> rows, told |-> told, budget |-> budget]
  BY DEF WithSurfaces
<1>2. f.rows = rows /\ f.budget = budget
  <2> HIDE DEF rows, told, budget, f
  <2> QED BY <1>1
<1>3. /\ catalogs.counter.hit => workflows.counter.hit
      /\ manago.workflows.is = "throttled" => workflows.counter.hit
  <2>1. workflows.counter = _post_manago(<<manago.workflows>>, catalogs.counter)
    <3> HIDE DEF catalogs
    <3> QED BY DEF _fetch_workflows, Optional
  <2> HIDE DEF workflows, catalogs
  <2> QED BY <2>1, HitOfOne
<1>4. /\ workflows.counter.hit => stats.counter.hit
      /\ (\E k \in DOMAIN First(workflows.items, StatsCap) : Outcome(manago.stats, k) = "throttled") => stats.counter.hit
  <2> HIDE DEF workflows
  <2> DEFINE asked == First(workflows.items, StatsCap)
             given == [k \in DOMAIN asked |-> [is |-> Outcome(manago.stats, k)]]
  <2>1. stats.counter = _post_manago(given, workflows.counter)
    BY DEF _fetch_workflow_stats
  <2>2. DOMAIN given = DOMAIN asked /\ \A k \in DOMAIN asked : given[k].is = Outcome(manago.stats, k)
    <3> HIDE DEF asked
    <3> QED OBVIOUS
  <2> HIDE DEF stats, given, asked
  <2>3. /\ workflows.counter.hit => _post_manago(given, workflows.counter).hit
        /\ \A k \in DOMAIN given : given[k].is = "throttled" => _post_manago(given, workflows.counter).hit
    BY HitStays
  <2>4. (\E k \in DOMAIN asked : Outcome(manago.stats, k) = "throttled") => stats.counter.hit
    BY <2>1, <2>2, <2>3
  <2> QED BY <2>1, <2>3, <2>4 DEF asked
<1>5. /\ stats.counter.hit => tags.counter.hit
      /\ manago.tags.is = "throttled" => tags.counter.hit
  <2> HIDE DEF stats
  <2>1. tags.counter = _post_manago(<<manago.tags>>, stats.counter)
    BY DEF _fetch_contact_tags, Optional
  <2> HIDE DEF tags
  <2> QED BY <2>1, HitOfOne
<1>6. /\ tags.counter.hit => email.counter.hit
      /\ manago.email.is = "throttled" => email.counter.hit
  <2> HIDE DEF tags
  <2>1. email.counter = _post_manago(<<manago.email>>, tags.counter)
    BY DEF _fetch_email_global_stats, Optional
  <2> HIDE DEF email
  <2> QED BY <2>1, HitOfOne
<1>7. budget.hit_rate_limit = email.counter.hit
  <2> DEFINE ok == email.counter.ok
             hit == email.counter.hit
             room == ~hit /\ ok > 0
  <2> HIDE DEF email
  <2>1. budget = [safe_request_budget |-> ok, hit_rate_limit |-> hit, headroom_ok |-> room]
    BY DEF build_manago_rate_budget
  <2> HIDE DEF ok, hit, room, budget
  <2>2. budget.hit_rate_limit = hit
    BY <2>1
  <2> QED BY <2>2 DEF hit
<1> HIDE DEF catalogs, products, workflows, stats, tags, email, paid, others, budget, told, f
<1>8. rows.workflows = workflows.items
  OBVIOUS
<1> HIDE DEF rows
<1>9. f.rows.workflows = workflows.items
  BY <1>2, <1>8
<1>10. (\/ manago.workflows.is = "throttled" \/ manago.tags.is = "throttled" \/ manago.email.is = "throttled"
        \/ \E k \in DOMAIN First(f.rows.workflows, StatsCap) : Outcome(manago.stats, k) = "throttled")
       => email.counter.hit
  BY <1>3, <1>4, <1>5, <1>6, <1>9
<1>11. email.counter.hit => f.budget.hit_rate_limit
  BY <1>2, <1>7
<1> QED BY <1>10, <1>11 DEF f

LEMMA ManagoThrottlingSeen ==
  ASSUME NEW manago, IsEstate(manago)
  PROVE  ManagoThrottlingIsSeen(manago)
<1> DEFINE f == ManagoFetch(manago)
           stats == {Outcome(manago.stats, k) : k \in DOMAIN First(f.rows.workflows, StatsCap)}
           asked == {manago.users.is} \cup {manago[s].is : s \in {"workflows", "tags", "email"}} \cup stats
<1> SUFFICES ASSUME f.ok, "throttled" \in asked
             PROVE  ~budget_has_headroom(f.budget)
  BY Zenon DEF ManagoThrottlingIsSeen
<1>1. PICK contacts0 : f = WithSurfaces(manago, contacts0)
  BY ManagoSucceeds
<1>2. manago.users.is = "ok"
  BY ManagoSucceeds
<1> DEFINE g == WithSurfaces(manago, contacts0)
<1>3. (\/ manago.workflows.is = "throttled" \/ manago.tags.is = "throttled" \/ manago.email.is = "throttled"
       \/ \E k \in DOMAIN First(g.rows.workflows, StatsCap) : Outcome(manago.stats, k) = "throttled")
      => g.budget.hit_rate_limit
  BY SurfacesHit
<1>4. f = g
  BY <1>1
<1> HIDE DEF f, g
<1>5. f.budget.hit_rate_limit
  BY <1>2, <1>3, <1>4
<1> QED BY <1>5 DEF budget_has_headroom

(* The answers of a platform stay what they were given.                                      *)
AnswersTypeOK == answers = None \/ \E p \in Platforms : \E a \in Answers[p] : answers = [platform |-> p, given |-> a]

(* Whatever a platform answers to the requests of one fetch: an import that succeeds is whole, or *)
(* tells of what it lacks, and one that was throttled leaves no headroom (PlatformClients).       *)
THEOREM ImportTellsItsGapsHolds == ImportsSpec => []ImportTellsItsGaps
<1>1. Init => AnswersTypeOK
  BY DEF Init, AnswersTypeOK
<1>2. AnswersTypeOK /\ [Next]_importVars => AnswersTypeOK'
  BY DEF AnswersTypeOK, Next, importVars
<1>3. AnswersTypeOK => ImportTellsItsGaps
  <2> SUFFICES ASSUME AnswersTypeOK, answers # None PROVE ImportTellsItsGaps
    BY DEF ImportTellsItsGaps
  <2>1. PICK p \in Platforms : \E a \in Answers[p] : answers = [platform |-> p, given |-> a]
    BY DEF AnswersTypeOK
  <2>2. PICK a \in Answers[p] : answers = [platform |-> p, given |-> a]
    BY <2>1
  <2>3. answers.platform = p /\ answers.given = a
    BY <2>2
  <2>4. CASE p = "shopify"
    <3>1. IsShop(a)
      BY <2>2, <2>4, AnswersAssumption
    <3>2. ShopifyTellsItsGaps(a) /\ ShopifyThrottlingIsSeen(a)
      BY <3>1, ShopTells, ShopThrottlingSeen
    <3> QED BY <2>3, <2>4, <3>2 DEF ImportTellsItsGaps
  <2>5. CASE p = "manago_ai"
    <3>1. IsEstate(a)
      BY <2>2, <2>5, AnswersAssumption
    <3>2. ManagoTellsItsGaps(a) /\ ManagoThrottlingIsSeen(a)
      BY <3>1, ManagoTells, ManagoThrottlingSeen
    <3> QED BY <2>3, <2>5, <3>2 DEF ImportTellsItsGaps
  <2> QED BY <2>4, <2>5 DEF Platforms
<1> QED BY <1>1, <1>2, <1>3, PTL DEF ImportsSpec
=================================================================================
