------------------------------ MODULE SegmentChecks ------------------------------
(* Contact details and tags: the checks SP-03 (one format per detail key) and     *)
(* SP-07 (nothing of the merchant's under the klints_ and klints: names), and     *)
(* their write-backs, which rewrite values and rename keys. Of a universe u,      *)
(*   on      the connected platforms                                              *)
(*   manago  contacts [id, details, tags]: a function of detail keys, and a set   *)
(* A key or a tag is a record [ns, base, form]: the prefix "klints", "legacy" or  *)
(* "none", what the name means, and how it is spelt. A value is a pair of a class *)
(* and a number; the token 0 or 1, the flag false or true and any other word for   *)
(* yes or no are read as booleans, the decimal 0.0 or 1.0 and a numeral are not.   *)
EXTENDS CheckRules, Functions, SequencesExt

CONSTANTS
  OwnedBases,      \* what the mappings of this program call theirs
  ContractBases,   \* the keys whose format a contract fixes
  ValueSamples,    \* values a key keeps as samples
  NormaliseCap     \* rows one SP-03 preview takes

SegmentIds == {"SP-03", "SP-07"}

_classify_value(v) ==
  CASE v[1] \in {"token", "flag", "word"} -> "boolean"
    [] v[1] \in {"decimal", "number"} -> "numeric"
    [] OTHER -> v[1]   \* "text", "date_like" or "empty"

_semantic_key(k) == <<k.ns, k.base>>
is_klints_owned(k) == k.ns = "klints" /\ k.base \in OwnedBases
legacy_namespace_rename(k) == [k EXCEPT !.ns = "legacy"]

-----------------------------------------------------------------------------
(* The snapshot.                                                                  *)

Having(u, k) == {c \in u.manago : k \in DOMAIN c.details}
AllKeys(u) == UNION {DOMAIN c.details : c \in u.manago}
AllTags(u) == UNION {c.tags : c \in u.manago}
Formats(u, k) == {_classify_value(c.details[k]) : c \in Having(u, k)} \ {"empty"}

InconsistentKeys(u) == {k \in AllKeys(u) : Cardinality(Formats(u, k)) > 1}
SemanticDuplicates(u) ==
  {k \in AllKeys(u) : \E l \in AllKeys(u) \ {k} : _semantic_key(l) = _semantic_key(k)}
Collisions(names) == {n \in names : n.ns = "klints" /\ ~is_klints_owned(n)}

evaluate_sp_03(u) ==
  FirstRule(<<
    <<"manago_ai" \notin u.on, "NOT_CONNECTED">>,
    <<u.manago = {}, "UNKNOWN">>,
    <<AllKeys(u) = {}, "PASS">>,
    <<InconsistentKeys(u) # {} \/ SemanticDuplicates(u) # {}, "FAIL">>,
    <<TRUE, "PASS">> >>)

evaluate_sp_07(u) ==
  FirstRule(<<
    <<"manago_ai" \notin u.on, "NOT_CONNECTED">>,
    <<u.manago = {}, "UNKNOWN">>,
    <<Collisions(AllKeys(u)) # {} \/ Collisions(AllTags(u)) # {}, "FAIL">>,
    <<TRUE, "PASS">> >>)

SegmentResults(u) ==
  [c \in SegmentIds |->
     CASE c = "SP-03" -> evaluate_sp_03(u)
       [] c = "SP-07" -> evaluate_sp_07(u)]

(* What the score lists: of SP-03 that some key is inconsistent, of SP-07 the     *)
(* names that collide.                                                            *)
SegmentEvidence(u) ==
  [sp07 |-> IF Listed(evaluate_sp_07(u), FALSE)
            THEN [keys |-> Collisions(AllKeys(u)), tags |-> Collisions(AllTags(u))]
            ELSE [keys |-> {}, tags |-> {}]]

NoSegmentEvidence == [sp07 |-> [keys |-> {}, tags |-> {}]]

-----------------------------------------------------------------------------
(* SP-03. The formats a key may be brought to are judged on the first values of   *)
(* the universe the last good score pinned.                                       *)

Sampled(u, k) ==
  {c.details[k] : c \in FirstFew(ValueSamples, Having(u, k), LAMBDA a, b : a.id < b.id)}

_sp03_is_01_like(v) == v[1] \in {"token", "flag", "decimal"}

ToNumeric(u, k) ==
  \/ k.ns = "none" /\ k.base \in ContractBases
  \/ /\ Formats(u, k) = {"numeric", "boolean"}
     /\ \A v \in Sampled(u, k) : _classify_value(v) = "boolean" => _sp03_is_01_like(v)

(* A token or a flag becomes the decimal of its number, a numeral is written       *)
(* plainly; nothing else can be made numeric.                                     *)
_sp03_coerce_value(v) == IF _sp03_is_01_like(v) THEN <<"decimal", v[2]>> ELSE v
Coercible(v) == _classify_value(_sp03_coerce_value(v)) = "numeric"

(* Every value of an inconsistent key has a row, unless it is as it should be;    *)
(* the cap counts the rows that no contract resolves too.                         *)
_sp03_evidence_rows(u) ==
  LET keys == SetToSeq(InconsistentKeys(u))
  IN FirstFew(NormaliseCap,
       UNION {{[contact |-> c.id, email |-> c.email, place |-> n, key |-> keys[n],
                value |-> c.details[keys[n]],
                ready |-> ToNumeric(u, keys[n]) /\ Coercible(c.details[keys[n]])]
                 : n \in {m \in DOMAIN keys :
                      /\ keys[m] \in DOMAIN c.details
                      /\ ~(/\ ToNumeric(u, keys[m])
                           /\ _classify_value(c.details[keys[m]]) = "numeric")}}
                : c \in u.manago},
       LAMBDA r, q : r.contact < q.contact \/ (r.contact = q.contact /\ r.place < q.place))

(* A value that is equal as a number counts as written already, and so the token 1 *)
(* for the decimal 1.0: of what can be made numeric, only a flag is ever written.  *)
_detail_values_equivalent(v, w) ==
  v = w \/ (v[2] = w[2] /\ {v[1], w[1]} \subseteq {"token", "decimal", "number"})
Holds(c, k, v) == k \in DOMAIN c.details /\ _detail_values_equivalent(c.details[k], v)

SP03Intents(pinned, latest) ==
  {[contact |-> r.contact, email |-> r.email, from |-> r.key, to |-> r.key,
    tag |-> FALSE, value |-> _sp03_coerce_value(r.value)]
     : r \in {x \in _sp03_evidence_rows(pinned) :
                /\ x.ready
                /\ \A c \in find_manago_contact(latest, x.contact, x.email) :
                     ~Holds(c, x.key, _sp03_coerce_value(x.value))}}

-----------------------------------------------------------------------------
(* SP-07. The names come from the last score and the values from the newest       *)
(* snapshot. A rename whose target is taken, by another value or by the tag, is   *)
(* refused.                                                                       *)

_sp07_evidence_rows(evidence, latest) ==
  LET row(c, name, tag, value) ==
        [contact |-> c.id, email |-> c.email, from |-> name,
         to |-> legacy_namespace_rename(name), tag |-> tag, value |-> value]
  IN UNION {{row(c, k, FALSE, c.details[k]) : k \in evidence.sp07.keys \cap DOMAIN c.details}
            \cup {row(c, t, TRUE, <<"empty", 0>>) : t \in evidence.sp07.tags \cap c.tags}
              : c \in latest.manago}

rename_target_conflict(latest, r) ==
  \E c \in latest.manago :
    /\ c.id = r.contact
    /\ IF r.tag THEN r.to \in c.tags
       ELSE r.to \in DOMAIN c.details /\ c.details[r.to] # r.value

(* The contact that is found by the id or the address looks renamed already.       *)
Renamed(latest, r) ==
  \E c \in find_manago_contact(latest, r.contact, r.email) :
    IF r.tag THEN r.to \in c.tags /\ r.from \notin c.tags
    ELSE Holds(c, r.to, r.value) /\ r.from \notin DOMAIN c.details

SP07Intents(evidence, latest) ==
  {r \in _sp07_evidence_rows(evidence, latest) :
     ~rename_target_conflict(latest, r) /\ ~Renamed(latest, r)}

(* The check on which both SP-03 and CC-03 wait: SP-07 passed the last score.     *)
_sp07_namespace_clean(results) == results["SP-07"] = "PASS"

(* The platform sets the detail and clears the one it replaces (an empty string   *)
(* clears it), or adds the tag and removes the one it replaces.                   *)
SetDetail_keepsOld(details, i) == (i.to :> i.value) @@ details
SetDetail(details, i) ==
  (i.to :> i.value) @@ Restrict(details, DOMAIN details \ {i.from})
SetTag(tags, i) == (tags \ {i.from}) \cup {i.to}

WithDetails(c, intents) ==
  LET of(tag) == SetToSeq({i \in intents : i.contact = c.id /\ i.tag = tag})
  IN [c EXCEPT !.details = FoldLeft(SetDetail, @, of(FALSE)),
               !.tags = FoldLeft(SetTag, @, of(TRUE))]
SetDetails(u, intents) == [u EXCEPT !.manago = {WithDetails(c, intents) : c \in @}]
=================================================================================
