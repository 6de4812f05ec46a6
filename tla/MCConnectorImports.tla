--------------------------- MODULE MCConnectorImports ---------------------------
(* Small platforms for ConnectorImports: a customer who leaves the window while the order  *)
(* stays, a guest, a test order and a refund, a Manago person who is gone with the          *)
(* purchase; and fetches whose requests are answered, refused or throttled.                *)
EXTENDS ConnectorImports, TLC

Person(id, email) == [id |-> id, email |-> email, phone |-> id, link |-> id]
Order(id, buyer, email, status) ==
  [id |-> id, buyer |-> buyer, email |-> email, status |-> status, cancelled |-> FALSE, test |-> FALSE]

MCViews ==
  [shopify |->
     {[people |-> {Person("ann", "a"), Person("bob", "b")},
       orders |-> {Order("o1", "ann", "a", "paid"), Order("o2", "", "g", "paid")}],
      [people |-> {Person("bob", "b")},
       orders |-> {Order("o1", "ann", "b", "refunded"), [Order("o3", "bob", "b", "paid") EXCEPT !.test = TRUE]}]},
   manago_ai |->
     {[people |-> {Person("mia", "a")}, orders |-> {Order("t1", "mia", "", "PURCHASE")}],
      [people |-> {}, orders |-> {}]}]

Symmetry == Permutations(Importers)

---------------------------------------------------------------------------------
(* Answers                                                                            *)

Page(items, headroom) == [ok |-> TRUE, items |-> items, left |-> headroom]
Refused == [ok |-> FALSE, items |-> <<>>, left |-> None]

Read == {<<Page(<<1>>, 5)>>, <<Page(<<1, 2>>, 5), Page(<<3>>, 0)>>, <<Page(<<1>>, 0), Page(<<2>>, None)>>}
Broken == {<<Refused>>, <<Page(<<1>>, 5), Refused>>}

Shop ==
  [customers |-> <<Page(<<1, 2>>, 5)>>, orders |-> <<Page(<<1>>, 5)>>, products |-> <<Page(<<1>>, 5)>>,
   open |-> <<Page(<<1>>, 5)>>, closed |-> <<Page(<<2>>, 5)>>, locations |-> <<Page(<<1, 2, 3>>, 5)>>,
   levels |-> <<Page(<<1>>, 5), Page(<<2>>, 5)>>, metafields |-> <<Page(<<1>>, 5), Page(<<2>>, 5)>>]

MCShops ==
  {[Shop EXCEPT !.customers = c, !.orders = o, !.products = p] :
     c \in Read \cup Broken, o \in Read \cup Broken, p \in Read \cup Broken}
  \cup {[Shop EXCEPT !.open = o, !.closed = c, !.products = p] :
          o \in Read \cup Broken, c \in Read \cup Broken, p \in Read \cup Broken}
  \cup {[Shop EXCEPT !.locations = l, !.levels = v, !.metafields = m] :
          l \in {<<>>, <<Refused>>, <<Page(<<1, 2, 3>>, None)>>},
          v \in {<<Page(<<1>>, 5), Page(<<2>>, 0)>>, <<Refused, Page(<<2>>, 5)>>, <<Page(<<1>>, 5), Refused>>},
          m \in {<<Page(<<1>>, 0), Page(<<2>>, 5)>>, <<Page(<<1>>, 5), Refused>>}}

Ok(items) == [is |-> "ok", items |-> items]
Failed == [is |-> "failed", items |-> <<>>]
Throttled == [is |-> "throttled", items |-> <<>>]
Malformed == [is |-> "malformed", items |-> <<>>]
NoTrouble == [at |-> 0, is |-> "ok"]
Trouble(k) == {NoTrouble} \cup [at : {k}, is : {"failed", "throttled"}]

Contact(id, owner, day) ==
  [id |-> id, owner |-> owner, day |-> day,
   events |-> {[id |-> id, day |-> d, type |-> t] : d \in {day, day + 2}, t \in {"PURCHASE", "VISIT"}}]

Estate ==
  [config |-> [owner |-> "", accounts |-> <<>>], users |-> Ok(<<"anna", "boris">>), from |-> 1, to |-> 6,
   people |-> {Contact("p1", "anna", 1), Contact("p3", "anna", 3), Contact("p6", "anna", 6),
               Contact("p9", "anna", 9), Contact("q4", "boris", 4)},
   listed |-> NoTrouble, bodies |-> NoTrouble, catalogs |-> Ok(<<1>>), feed |-> Ok(<<1>>),
   workflows |-> Ok(<<"w1", "w2", "w3">>), stats |-> NoTrouble, tags |-> Ok(<<1>>), email |-> Ok(<<1>>)]

MCEstates ==
  {[Estate EXCEPT !.config = [owner |-> o, accounts |-> a], !.users = u, !.to = t] :
     o \in {"", "boris"}, u \in {Ok(<<>>), Ok(<<"anna">>), Failed, Throttled}, t \in {1, 3, 4, 6},
     a \in {<<>>, <<[owner |-> "anna", in_scope |-> FALSE], [owner |-> "boris", in_scope |-> TRUE]>>}}
  \cup {[Estate EXCEPT !.listed = l, !.bodies = b, !.to = t] : l \in Trouble(2), b \in Trouble(2), t \in {1, 3, 4, 6}}
  \cup {[Estate EXCEPT !.catalogs = c, !.feed = f, !.workflows = w, !.stats = s, !.tags = g, !.email = e] :
          c \in {None, Ok(<<1>>), Throttled}, f \in {None, Ok(<<1, None>>), Failed, Malformed},
          w \in {Ok(<<"w1", "w2", "w3">>), Failed, Throttled}, s \in Trouble(2) \cup Trouble(3),
          g \in {Ok(<<1>>), Failed, Throttled}, e \in {Ok(<<1>>), Throttled}}

MCAnswers == [shopify |-> MCShops, manago_ai |-> MCEstates]
=================================================================================
