------------------------------- MODULE MCFixCycle -------------------------------
(* Small platforms for FixCycle: one in order, and one per thing that the checks   *)
(* find and the write-backs repair, alone and together.                            *)
EXTENDS FixCycle

Contact(id, email, link) ==
  [NewContact(id, email, link) EXCEPT !.state = [ch \in {"email", "sms"} |-> "in"],
                                      !.proven = TRUE, !.invalid = "no"]
Customer(id, email) ==
  [id |-> id, email |-> email, guest |-> FALSE,
   state |-> [ch \in {"email", "sms"} |-> "in"],
   level |-> [ch \in {"email", "sms"} |-> FALSE],
   at |-> [ch \in {"email", "sms"} |-> 0]]
Sale(id, email, gross, month) ==
  [id |-> id, number |-> id + 10, email |-> email, gross |-> gross, month |-> month,
   day |-> id, state |-> "paid", test |-> FALSE, charged |-> TRUE, whole |-> FALSE,
   back |-> Product!Unknown, currency |-> "eur"]
Merchant == [check |-> "none", judged |-> 0, holds |-> 0, imports |-> 0, proof |-> FALSE]
Purchase(id, key, email, value, month) ==
  [id |-> id, kind |-> "PURCHASE", key |-> key, spine |-> "externalId", email |-> email,
   value |-> value, month |-> month, day |-> key, by |-> Merchant]
Key(ns, base, form) == [ns |-> ns, base |-> base, form |-> form]
Size == Key("none", "size", "a")
Mine == Key("klints", "size", "a")
Theirs == Key("legacy", "size", "a")

InOrder ==
  [on |-> {"shopify", "manago_ai"}, executeOn |-> FALSE,
   manago |-> {Contact(1, 1, 21), Contact(2, 2, 22)},
   shopify |-> {Customer(21, 1), Customer(22, 2)},
   others |-> 2, orders |-> [all |-> 4, guest |-> 1, guestMail |-> 1],
   sales |-> {Sale(31, 1, 10, 1)}, events |-> {Purchase(1, 31, 1, 10, 1)},
   month |-> 2, thin |-> FALSE,
   catalog |-> {[id |-> 51, on |-> TRUE, archived |-> FALSE, bare |-> FALSE]},
   shelf |-> {[id |-> 51, on |-> TRUE, bare |-> FALSE, variants |-> {61}]},
   lines |-> {<<51, 61>>}, mentioned |-> {51}, manyCatalogs |-> FALSE]

Unlinked(u) == [u EXCEPT !.manago = {[c EXCEPT !.link = 0] : c \in @}]
Strangers(u) == [u EXCEPT !.shopify = @ \cup {Customer(23, 3), Customer(24, 5), Customer(25, 4)}]
Hidden(u) == [Strangers(u) EXCEPT !.manago = @ \cup {Contact(3, NoEmail, 23)}]
Taken(u) == [u EXCEPT !.manago = {Contact(1, 1, 0), Contact(2, 2, 22), Contact(3, NoEmail, 21)}]
Alias(u) == [Unlinked(u) EXCEPT !.manago = @ \cup {[Contact(3, 11, 0) EXCEPT !.buys = 1]},
                                !.shopify = @ \cup {Customer(23, 12)}]
Twins(u) ==
  [u EXCEPT !.manago = {[c EXCEPT !.phone = 7] : c \in @}
                         \cup {[Contact(3, 1, 21) EXCEPT !.events = 2], [Contact(4, 14, 26) EXCEPT !.phone = 7]}]
Unproven(u) ==
  [u EXCEPT !.manago = {[c EXCEPT !.proven = FALSE] : c \in @},
            !.shopify = {[s EXCEPT !.level = [ch \in {"email", "sms"} |-> TRUE]] : s \in @}]
Unevidenced(u) == [u EXCEPT !.manago = {[c EXCEPT !.proven = FALSE] : c \in @}]
Mixed(u) ==
  [u EXCEPT !.manago = {[c EXCEPT !.details = Size :> (IF c.id = 1 THEN <<"flag", 1>>
                                                      ELSE <<"number", 5>>)] : c \in @}]
Contracted(u) ==
  [u EXCEPT !.manago = {[c EXCEPT !.details = Key("none", "age", "a") :>
     (IF c.id = 1 THEN <<"token", 1>> ELSE <<"text", 5>>) @@ @] : c \in @}]
TwoKeys(u) ==
  [u EXCEPT !.manago = {[c EXCEPT !.details = Key("none", "weight", "a") :>
     (IF c.id = 1 THEN <<"flag", 0>> ELSE <<"number", 6>>) @@ @] : c \in @}]
SharedAddress(u) ==
  [u EXCEPT !.manago = {[Contact(1, 1, 21) EXCEPT !.proven = FALSE],
                        [Contact(3, 1, 22) EXCEPT !.proven = FALSE, !.worth = 10,
                           !.state = [ch \in {"email", "sms"} |-> "out"]]},
            !.shopify = {IF s.id = 21 THEN [s EXCEPT !.level = [@ EXCEPT !["email"] = TRUE]]
                         ELSE s : s \in @}]
Aliased(u) ==
  [u EXCEPT !.manago = {[Contact(1, 1, 0) EXCEPT !.proven = FALSE],
                        [Contact(3, 11, 21) EXCEPT !.proven = FALSE,
                           !.state = [ch \in {"email", "sms"} |-> "out"]]},
            !.shopify = @ \cup {[Customer(27, 11) EXCEPT !.level = [@ EXCEPT !["email"] = TRUE]]}]
Visited(u) ==
  [u EXCEPT !.shopify = @ \cup {[Customer(28, 1) EXCEPT !.guest = TRUE,
                                                      !.level = [@ EXCEPT !["email"] = TRUE]]}]
Squatted(u) ==
  [u EXCEPT !.manago = {[c EXCEPT !.details = Mine :> <<"number", c.id>> @@ @,
                                  !.tags = {Mine}] : c \in @}]
Conflicted(u) ==
  [Squatted(u) EXCEPT !.manago =
     {IF c.id = 1 THEN [c EXCEPT !.details = Theirs :> <<"text", 3>> @@ @] ELSE c : c \in @}]
Renamed(u) ==
  [u EXCEPT !.manago = {[c EXCEPT !.details =
     IF c.id = 1 THEN Mine :> <<"number", 1>> ELSE Theirs :> <<"text", 3>>] : c \in @}]
Untold(u) == [u EXCEPT !.sales = @ \cup {Sale(32, 2, 6, 1), Sale(33, 1, 4, 2)}]
Writable(u) == [u EXCEPT !.executeOn = TRUE]
Misvalued(u) == [u EXCEPT !.events = {[e EXCEPT !.value = 7] : e \in @}]
Told(u) == [u EXCEPT !.sales = @ \cup {Sale(32, 2, 6, 1)},
                     !.events = @ \cup {Purchase(2, 32, 2, 6, 1)}]
SentBack(u) ==
  [u EXCEPT !.sales = @ \cup {[Sale(34, 2, 8, 2) EXCEPT !.state = "cancelled", !.back = 8],
                              [Sale(35, 1, 8, 2) EXCEPT !.state = "refunded", !.back = 3]}]
Assorted(u) ==
  [u EXCEPT !.catalog = {[p EXCEPT !.on = FALSE] : p \in @}
              \cup {[id |-> 52, on |-> TRUE, archived |-> TRUE, bare |-> FALSE],
                    [id |-> 53, on |-> TRUE, archived |-> FALSE, bare |-> FALSE]},
            !.shelf = @ \cup {[id |-> 52, on |-> TRUE, bare |-> FALSE, variants |-> {62}]}]

MCWorlds ==
  {InOrder, Unlinked(InOrder), Strangers(InOrder), Hidden(InOrder), Alias(InOrder),
   Taken(InOrder), Twins(InOrder), Renamed(InOrder), Unproven(InOrder), Mixed(InOrder), Contracted(Mixed(InOrder)), Squatted(InOrder),
   Conflicted(Unproven(Mixed(InOrder))), Untold(InOrder), Writable(Untold(InOrder)),
   Writable(Unproven(InOrder)), Misvalued(InOrder), SentBack(InOrder),
   SentBack(Misvalued(Untold(InOrder))), Assorted(InOrder),
   Strangers(Unlinked(Untold(InOrder))), Unevidenced(InOrder), Misvalued(Told(InOrder)),
   TwoKeys(Mixed(InOrder)), SharedAddress(InOrder), Aliased(InOrder),
   Visited(Unevidenced(InOrder))}
=================================================================================
