------------------------------- MODULE CheckRules -------------------------------
(* What the DCS checks and the write-back transforms share: a verdict is the      *)
(* first rule that applies, samples are capped prefixes of a list, addresses have *)
(* a normal form and a masked form, and an intent is refused by the first guard   *)
(* that fails.                                                                    *)
EXTENDS Naturals, FiniteSets, Sequences

Statuses == {"PASS", "WARN", "FAIL", "UNKNOWN", "NOT_CONNECTED", "NOT_APPLICABLE"}

(* An if/return chain: rules is a sequence of <<condition, value>> that ends in a *)
(* pair whose condition is TRUE.                                                  *)
FirstRule(rules) ==
  rules[CHOOSE i \in DOMAIN rules :
          rules[i][1] /\ \A j \in 1..(i - 1) : ~rules[j][1]][2]

(* The first n elements of S in the order Before.                                 *)
FirstFew(n, S, Before(_, _)) ==
  {x \in S : Cardinality({y \in S : Before(y, x)}) < n}

(* A dict updated with another: what f says, and g where f says nothing.          *)
Overlay(f, g) ==
  [x \in DOMAIN f \cup DOMAIN g |-> IF x \in DOMAIN f THEN f[x] ELSE g[x]]

(* The element of S, a set of records, that comes first in its list.              *)
Earliest(S) == CHOOSE x \in S : \A y \in S : x.id <= y.id

Above(a, b) == IF a >= b THEN a ELSE b
Apart(a, b) == IF a >= b THEN a - b ELSE b - a
Rounded(a, b) == (a + b \div 2) \div b
Percent(part, whole, limit) == 100 * part <= limit * whole

(* An address is a number: n in 1..9 is a plain address, 10 + n is a plus-alias   *)
(* of n, 90 and 91 are masks and 0 is no address. Masking keeps the first letter  *)
(* and the domain only, so that addresses of one parity share their mask.         *)
NoEmail == 0
Plain(e) == IF e \in 11..19 THEN e - 10 ELSE e
Masked(e) == e \in {90, 91}
Mask(e) == IF e = NoEmail \/ Masked(e) THEN e ELSE 90 + (e % 2)

(* A contact is paired with the customer its link key names, else with the last    *)
(* customer of its address; a guest is no customer. The joins that judge consent    *)
(* and money share this.                                                          *)
Newest(S) == CHOOSE x \in S : \A y \in S : y.id <= x.id
CustomersOf(u, c) ==
  LET customers == {s \in u.shopify : ~s.guest}
      named == {s \in customers : c.link # 0 /\ s.id = c.link}
  IN IF named # {} THEN named
     ELSE {s \in customers : Plain(c.email) # NoEmail /\ Plain(s.email) = Plain(c.email)}

(* What a write-back knows of its contact: the first one of the snapshot that has   *)
(* this id or this address.                                                       *)
find_manago_contact(latest, id, email) ==
  {c \in latest.manago :
     /\ c.id = id \/ (email # NoEmail /\ c.email = email)
     /\ \A d \in latest.manago :
          d.id = id \/ (email # NoEmail /\ d.email = email) => c.id <= d.id}

(* A contact that was created with an address and a link key and nothing else.     *)
NewContact(id, email, link) ==
  [id |-> id, email |-> email, link |-> link, phone |-> 0,
   events |-> 0, buys |-> 0, known |-> TRUE,
   state |-> [ch \in {"email", "sms"} |-> "none"],
   proven |-> FALSE, modified |-> 0, invalid |-> "none", stamp |-> FALSE,
   details |-> <<>>, tags |-> {}, worth |-> 0]

(* The check appears in the worklist, with its evidence.                          *)
Listed(status, coldEstate) ==
  \/ status \in {"FAIL", "WARN"}
  \/ status = "UNKNOWN" /\ coldEstate
=================================================================================
