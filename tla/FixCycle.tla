--------------------------------- MODULE FixCycle ---------------------------------
(* Judge, fix, judge again. A DCS run imports both platforms, judges every check   *)
(* on what it imported and publishes results and evidence; an approved write-back  *)
(* builds its intents from that evidence, from the universe of the last good run   *)
(* and from the newest import, and writes them to the platform; the merchant goes  *)
(* on changing both platforms. Nothing locks the three against each other.         *)
(* The platforms are one universe, a record with the fields that IdentityChecks,   *)
(* ConsentChecks, SegmentChecks, LifecycleChecks and ProductChecks read.           *)
EXTENDS CheckRules, TLC

CONSTANTS
  Worlds,          \* what the platforms may hold when the first run is published
  Capable,         \* the checks whose capability the deployment confirmed
  MaxImports,      \* bound: runs imported
  MaxEdits,        \* bound: merchant changes
  MaxWrites,       \* bound: write-backs
  SampleCap, BackfillCap, ConsentCap, OwnedBases, ContractBases, ValueSamples,
  NormaliseCap, GapCap, IngestCap, ProductCap

VARIABLES
  live,      \* what the platforms hold
  latest,    \* the newest import
  pinned,    \* the import of the last run that succeeded
  previous,  \* the import of the last run that succeeded before it, while the run that
             \* is shown may still fail: a set of at most one
  shown,     \* results and evidence of the last terminal run
  scoring,   \* the import of the run in progress, a set of at most one
  request,   \* the approved write-back whose intents are built, likewise
  held,      \* once-per-run gates that are taken on the last terminal run
  written,   \* intents written since the last run was published
  count      \* imports, the run that is shown, edits, writes; whether the shown run
             \* missed a change: a write or an edit after its import

fixVars == <<live, latest, pinned, previous, shown, scoring, request, held, written, count>>

Identity == INSTANCE IdentityChecks
Consent == INSTANCE ConsentChecks
Segment == INSTANCE SegmentChecks
Lifecycle == INSTANCE LifecycleChecks
Product == INSTANCE ProductChecks

(* What the platforms give: orders and events are rows with an id, which tells an   *)
(* order from the others, and of either there is a last one.                        *)
Rows(S, fields) == \A x \in S : fields \subseteq DOMAIN x /\ x.id \in Nat \ {0}
Last(S) == \E n \in {0} \cup {x.id : x \in S} : \A x \in S : x.id <= n
OrdersAndEvents(u) ==
  /\ {"manago", "sales", "events", "catalog", "shelf"} \subseteq DOMAIN u
  /\ Rows(u.sales, {"id"}) /\ Rows(u.events, {"id", "kind", "key", "spine", "by"})
  /\ \A o \in u.sales, p \in u.sales : o.id = p.id => o = p
  /\ Last(u.sales) /\ Last(u.events)

(* Contacts and customers are rows too, with addresses and counts that are bounded. *)
Bounded(N) == N \subseteq Nat /\ \E n \in {0} \cup N : \A k \in N : k <= n
ContactFields == {"id", "email", "link", "buys", "events", "state", "proven", "stamp"}
ContactsAndCustomers(u) ==
  /\ {"manago", "shopify", "executeOn"} \subseteq DOMAIN u
  /\ Rows(u.manago, ContactFields) /\ Rows(u.shopify, {"id"})
  /\ \A c \in u.manago, d \in u.manago : c.id = d.id => c = d
  /\ \A s \in u.shopify, t \in u.shopify : s.id = t.id => s = t
  /\ Last(u.manago) /\ Last(u.shopify)
  /\ Bounded({c.buys : c \in u.manago}) /\ Bounded({c.events : c \in u.manago})
  /\ Bounded({s.email : s \in u.shopify})
  /\ \A c \in u.manago : c.email \in Nat /\ "email" \in DOMAIN c.state

(* No fix was written before the first run.                                         *)
Unfixed(u) ==
  /\ \A e \in u.events : e.by.check = "none"
  /\ \A c \in u.manago : ~c.stamp /\ ~Masked(c.email)

ASSUME WorldsAssumption ==
  \A w \in Worlds : OrdersAndEvents(w) /\ ContactsAndCustomers(w) /\ Unfixed(w)

-----------------------------------------------------------------------------
(* A published run.                                                                *)

Judge(u) ==
  [failed |-> FALSE, import |-> {u},
   identity |-> Identity!IdentityResults(u),
   consent |-> Consent!ConsentResults(u),
   segment |-> Segment!SegmentResults(u),
   lifecycle |-> Lifecycle!LifecycleResults(u),
   product |-> Product!ProductResults(u),
   evidence |->
     [identity |-> Identity!IdentityEvidence(u),
      consent |-> Consent!ConsentEvidence(u),
      segment |-> Segment!SegmentEvidence(u),
      lifecycle |-> Lifecycle!LifecycleEvidence(u),
      product |-> Product!ProductEvidence(u)]]

(* A run that failed before it had results: nothing is listed and no name is known *)
(* to be clean.                                                                    *)
Nothing ==
  [failed |-> TRUE, import |-> {},
   evidence |->
     [identity |-> Identity!NoIdentityEvidence,
      consent |-> Consent!NoConsentEvidence,
      segment |-> Segment!NoSegmentEvidence,
      lifecycle |-> Lifecycle!NoLifecycleEvidence,
      product |-> Product!NoProductEvidence]]

run_preflight(check) ==
  /\ "manago_ai" \in live.on
  /\ check \in {"SP-03", "CC-03", "PT-04"}
       => shown.import # {} /\ Segment!_sp07_namespace_clean(shown.segment)

(* What a preview of the check would write now.                                    *)
collect_evidence_rows(check) ==
  LET e == shown.evidence
  IN CASE check \in {"CI-01", "CI-05"} -> Identity!IdentityIntents(check, e.identity, pinned)
       [] check = "CC-03" -> Consent!CC03Intents(e.consent, latest, live.executeOn)
       [] check = "SP-03" -> Segment!SP03Intents(pinned, latest)
       [] check = "SP-07" -> Segment!SP07Intents(e.segment, latest)
       [] check = "LE-01" -> Lifecycle!_le01_evidence_rows(e.lifecycle, latest, live.executeOn)
       [] check = "LE-05" -> Lifecycle!_le05_evidence_rows(e.lifecycle, latest)
       [] check = "LE-02" -> Lifecycle!_le02_evidence_rows(e.lifecycle)
       [] check = "LE-09" -> Lifecycle!_le09_evidence_rows(e.lifecycle, pinned, latest)
       [] check = "PT-03" -> Product!PT03Intents(pinned)
       [] check = "PT-04" -> Product!PT04Intents(e.product, latest)

Executable ==
  {"CI-01", "CI-05", "CC-03", "SP-03", "SP-07", "LE-01", "LE-05", "LE-02", "LE-09",
   "PT-03", "PT-04"}

(* Mappings whose approval takes one intent only.                                  *)
IndividualTier == {"CC-03", "LE-02"}

Applied(u, check, intents, by) ==
  CASE check \in {"CI-01", "CI-05"} -> Identity!UpsertAll(u, intents)
    [] check = "CC-03" -> Consent!StampAll(u, intents)
    [] check \in {"SP-03", "SP-07"} -> Segment!SetDetails(u, intents)
    [] check \in {"LE-01", "LE-05", "LE-02", "LE-09"} -> Lifecycle!TellAll(u, intents, by)
    [] check = "PT-03" -> Product!PublishAll(u, intents)
    [] check = "PT-04" -> Product!StampWorth(u, intents)

-----------------------------------------------------------------------------
FixInit ==
  /\ live \in Worlds
  /\ latest = live /\ pinned = live /\ previous = {}
  /\ shown = Judge(live)
  /\ scoring = {} /\ request = {} /\ held = {} /\ written = {}
  /\ count = [imports |-> 1, shown |-> 1, edits |-> 0, writes |-> 0, missed |-> FALSE]

(* A run imports every connected platform anew, and then scores what it imported.  *)
Import ==
  /\ scoring = {}
  /\ count.imports < MaxImports
  /\ scoring' = {live}
  /\ latest' = live
  /\ count' = [count EXCEPT !.imports = @ + 1]
  /\ UNCHANGED <<live, pinned, previous, shown, request, held, written>>

(* The run becomes the latest terminal one, with gates of its own.                 *)
PublishScore ==
  \E u \in scoring :
    /\ pinned' = u /\ previous' = {pinned}
    /\ shown' = Judge(u)
    /\ scoring' = {} /\ held' = {} /\ written' = {}
    /\ count' = [count EXCEPT !.shown = count.imports, !.missed = live # u]
    /\ UNCHANGED <<live, latest, request>>

ScoreFails ==
  /\ scoring # {}
  /\ shown' = Nothing
  /\ scoring' = {} /\ held' = {} /\ written' = {}
  /\ count' = [count EXCEPT !.shown = count.imports, !.missed = TRUE]
  /\ UNCHANGED <<live, latest, pinned, previous, request>>

(* What follows the commit fails the run: it goes on listing its results, but rows   *)
(* are rebuilt from the last run that succeeded before.                             *)
FailsAfterCommit ==
  \E u \in previous :
    /\ ~shown.failed
    /\ pinned' = u /\ previous' = {}
    /\ shown' = [shown EXCEPT !.failed = TRUE]
    /\ count' = [count EXCEPT !.missed = TRUE]
    /\ UNCHANGED <<live, latest, scoring, request, held, written>>

(* An approved write-back rebuilds its intents, and then takes the gate of the run *)
(* that is the latest by then, and writes.                                         *)
BuildIntents(check) ==
  /\ request = {}
  /\ count.writes < MaxWrites
  /\ check \in Executable \cap Capable
  /\ run_preflight(check)
  /\ collect_evidence_rows(check) # {}
  /\ check \in IndividualTier => Cardinality(collect_evidence_rows(check)) = 1
  /\ request' = {[check |-> check, intents |-> collect_evidence_rows(check),
                  judged |-> count.shown,
                  proof |-> check = "LE-01" /\ ~shown.evidence.lifecycle.other]}
  /\ UNCHANGED <<live, latest, pinned, previous, shown, scoring, held, written, count>>

WriteIntents ==
  \E r \in request :
    /\ r.check \notin held
    /\ live' = Applied(live, r.check, r.intents,
                 [check |-> r.check, judged |-> r.judged, holds |-> count.shown,
                  imports |-> count.imports, proof |-> r.proof])
    /\ held' = held \cup {r.check}
    /\ written' = written \cup {<<r.check, i>> : i \in r.intents}
    /\ count' = [count EXCEPT !.writes = @ + 1, !.missed = @ \/ r.judged # count.shown]
    /\ request' = {}
    /\ UNCHANGED <<latest, pinned, previous, shown, scoring>>

AlreadyExecuted ==
  /\ \E r \in request : r.check \in held
  /\ request' = {}
  /\ UNCHANGED <<live, latest, pinned, previous, shown, scoring, held, written, count>>

-----------------------------------------------------------------------------
(* What the merchant does meanwhile (external).                                    *)

MerchantChanges ==
  \/ \E c \in live.manago :
       \/ live' = [live EXCEPT !.manago = (@ \ {c}) \cup
                    {[c EXCEPT !.state = [@ EXCEPT !["email"] = "out"]]}]
       \/ \E s \in live.shopify :
            /\ c.link = 0 /\ Plain(s.email) = Plain(c.email)
            /\ live' = [live EXCEPT !.manago = (@ \ {c}) \cup {[c EXCEPT !.link = s.id]}]
       \/ \E k \in DOMAIN c.details :
            live' = [live EXCEPT !.manago = (@ \ {c}) \cup
                      {[c EXCEPT !.details = [@ EXCEPT ![k] = <<"text", 7>>]]}]
  \/ \E o \in live.sales :
       /\ o.state = "paid"
       /\ live' = [live EXCEPT !.sales = (@ \ {o}) \cup
                    {[o EXCEPT !.state = "refunded", !.whole = TRUE, !.back = o.gross]}]
  \/ \E p \in live.shelf :
       live' = [live EXCEPT !.shelf = (@ \ {p}) \cup {[p EXCEPT !.on = ~p.on]}]

Edit ==
  /\ count.edits < MaxEdits
  /\ MerchantChanges
  /\ live' # live
  /\ count' = [count EXCEPT !.edits = @ + 1, !.missed = TRUE]
  /\ UNCHANGED <<latest, pinned, previous, shown, scoring, request, held, written>>

FixNext ==
  \/ Import \/ PublishScore \/ ScoreFails \/ FailsAfterCommit
  \/ \E check \in Executable : BuildIntents(check)
  \/ WriteIntents \/ AlreadyExecuted
  \/ Edit

FixSpec == FixInit /\ [][FixNext]_fixVars

-----------------------------------------------------------------------------
(* Properties.                                                                     *)

(* A score is published by which nothing was missed: since the import of the run   *)
(* that was shown the merchant changed nothing, and all that the program wrote     *)
(* came from that run and is in the new import.                                    *)
PublishedQuietly ==
  /\ scoring # {} /\ scoring' = {}
  /\ ~shown.failed /\ ~shown'.failed
  /\ ~count.missed /\ ~count'.missed

(* What check complained of when it made this intent is not so in u. (A product     *)
(* that is archived in Manago stays so, and is missing for ever; CI-01 may address  *)
(* a masked contact, and CC-03 stamps what its check does not read.)                *)
Settled(u, check, i) ==
  CASE check = "CI-05" -> \A r \in Identity!MissingLinks(u) : r.manago # i.contact
    [] check \in {"LE-01", "LE-05"} -> \A o \in Lifecycle!ShopifyOnly(u) : o.id # i.key
    [] check = "LE-02" ->
         \A p \in Lifecycle!_value_mismatches_from_events(u) : p.order.id # i.at
    [] check = "LE-09" -> i.key \in Lifecycle!ToldReturns(u)
    [] check = "SP-03" -> \A c \in u.manago : c.id = i.contact =>
                            Segment!_classify_value(c.details[i.to]) = "numeric"
    [] check = "SP-07" -> \A c \in u.manago : c.id = i.contact =>
                            i.from \notin (IF i.tag THEN c.tags ELSE DOMAIN c.details)
    [] check = "PT-03" -> \/ i.product \notin Product!MissingProducts(u)
                          \/ \E p \in u.catalog : p.id = i.product /\ p.archived
    [] check = "PT-04" -> \A r \in Product!TruthRows(u) :
                            r.contact = i.contact => ~r.failing /\ ~r.blind
    [] OTHER -> TRUE

(* A fix settles what it was made for: when nothing interfered, the next score no   *)
(* longer finds what an executed write-back was to repair, whatever other           *)
(* write-backs ran beside it. (The loop of approve and score again.)                *)
FixesSettle ==
  [][PublishedQuietly => \A w \in written : Settled(pinned', w[1], w[2])]_fixVars

(* An event that this program told is told again only by a write that its request   *)
(* could not know of: judged before the event was imported, for another check or    *)
(* another run (no lock spans checks, and a gate only its run), or as the proof of   *)
(* the write path, which looks at no event.                                         *)
ToldByUs(u) == {e \in u.events : e.by.check # "none"}
ToldOnce ==
  \A e \in ToldByUs(live), f \in ToldByUs(live) :
    e.id < f.id /\ e.key = f.key /\ e.kind = f.kind =>
      \/ f.by.proof
      \/ /\ f.by.judged <= e.by.imports
         /\ f.by.check # e.by.check \/ f.by.holds # e.by.holds

(* The executed write-backs that may spoil a check that passed: telling a purchase  *)
(* twice, creating a contact that exists, and renaming into a name in use.          *)
Spoiled(check) ==
  \/ check = "LE-04" /\ {"LE-01", "LE-05"} \subseteq held
  \/ check \in {"LE-01", "LE-02", "LE-04"} /\ \E e \in ToldByUs(live) : e.by.proof
  \/ check \in {"CI-03", "CI-05"} /\ "CI-01" \in held
  \/ check = "SP-03" /\ "SP-07" \in held

(* Fixes do not undo each other: when nothing interfered, a check that passed        *)
(* passes the next score too, but for the few that one fix is known to spoil.        *)
Results(s) == s.identity @@ s.consent @@ s.segment @@ s.lifecycle @@ s.product
FixesKeepTheRest ==
  [][PublishedQuietly =>
       \A check \in DOMAIN Results(shown) :
         Results(shown)[check] = "PASS" => Results(shown')[check] = "PASS" \/ Spoiled(check)]_fixVars

(* What the plans of the last score would do is sound when it is looked at: the link  *)
(* keys that CI-05 would give differ and no contact has one of them; no contact is    *)
(* merged twice; and no opt-in is proposed that neither platform can prove (PRD_WB_17  *)
(* :162 "never forceOptIn") for the contact or for another one of its address, whose   *)
(* stamp may be found first, unless writing is allowed, where the stamp that CC-03     *)
(* leaves as a proof of the write path counts as one.                                *)
KeysDistinct ==
  Identity!Distinct(pinned, Identity!_ci05_evidence_rows(pinned, shown.evidence.identity))
MergesDisjoint ==
  \A p, q \in Identity!MergePlan(pinned) :
    p # q => ({p.survivor} \cup p.losers) \cap ({q.survivor} \cup q.losers) = {}

SameAddress(c, d) == Plain(c.email) # NoEmail /\ Plain(c.email) = Plain(d.email)
Provable(u, c) ==
  \/ c.proven
  \/ \E s \in u.shopify : /\ ~s.guest /\ (s.id = c.link \/ SameAddress(c, s))
                         /\ Consent!HoldsEvidence([contact |-> c, customer |-> s])
OptInsProvable ==
  \A x \in Consent!ConsentPlan("email", shown.evidence.consent, pinned, latest) :
    x.proposed = "FORCE_OPT_IN" =>
      \/ live.executeOn
      \/ \E u \in {pinned} \cup shown.import : \E c \in u.manago, d \in u.manago :
           /\ c.id = x.contact
           /\ d = c \/ SameAddress(c, d)
           /\ Provable(u, d)
PlansAreSound == KeysDistinct /\ MergesDisjoint /\ OptInsProvable

(* "Worklist may PII-mask emails. Never write the mask": no write-back gives a        *)
(* contact a masked address.                                                        *)
NeverWritesAMask == \A c \in live.manago : ~Masked(c.email)

-----------------------------------------------------------------------------
(* Why no order is told twice: what an event's write could know of the ones before. *)

Telling == {"LE-01", "LE-05", "LE-02", "LE-09"}
GapKeys(evidence, kind) ==
  IF kind = "PURCHASE" THEN evidence.le01 \cup {r.order : r \in evidence.le05}
  ELSE evidence.le09

HasEvidence == {"evidence", "import"} \subseteq DOMAIN shown
InUniverse == \A u \in {live, latest, pinned} \cup scoring \cup previous : OrdersAndEvents(u)

(* The counters, and when each event and the request were made.                     *)
MadeInOrder ==
  /\ count \in [imports : Nat, shown : Nat, edits : Nat, writes : Nat, missed : BOOLEAN]
  /\ count.shown <= count.imports
  /\ scoring # {} => count.shown < count.imports
  /\ \A e \in ToldByUs(live) :
       /\ e.by.imports \in Nat /\ e.by.imports <= count.imports
       /\ e.by.holds \in Nat /\ e.by.holds <= count.shown
       /\ e.spine = "externalId" /\ e.kind \in {"PURCHASE", "RETURN", "CANCELLATION"}
  /\ \A r \in request :
       r.check \in Executable /\ r.judged \in Nat /\ r.judged <= count.shown

(* The gate of the shown run remembers every write of it.                           *)
GateRemembers ==
  \A e \in ToldByUs(live) : e.by.holds = count.shown => e.by.check \in held

(* What was told before an import is in it, the evidence of a score does not ask    *)
(* for what its import held, and nor does a request that was built from it.         *)
ImportKnows ==
  \A u \in scoring : \A e \in ToldByUs(live) : e.by.imports < count.imports =>
    \E d \in u.events : d.key = e.key /\ d.kind = e.kind /\ d.spine = "externalId"
EvidenceKnows ==
  \A e \in ToldByUs(live) :
    e.by.imports < count.shown => e.key \notin GapKeys(shown.evidence.lifecycle, e.kind)
RequestKnows ==
  \A r \in request : r.check \in Telling => r.proof \/
    \A i \in r.intents : i.op = "ingest" =>
      \A e \in ToldByUs(live) :
        e.by.imports < r.judged => ~(e.key = i.key /\ e.kind = i.kind)

(* A request names an order once.                                                   *)
EvidenceOnce ==
  \A q \in shown.evidence.lifecycle.le05, r \in shown.evidence.lifecycle.le05 :
    q.order = r.order => q = r
RequestOnce ==
  \A r \in request : r.check \in Telling =>
    /\ \A i \in r.intents : i.op = "ingest" =>
         /\ i.at \in Nat \ {0} /\ i.kind \in {"PURCHASE", "RETURN", "CANCELLATION"}
    /\ \A i \in r.intents, j \in r.intents :
         i.op = "ingest" /\ j.op = "ingest" /\ i.key = j.key => i = j
    /\ Last({[id |-> i.at] : i \in {j \in r.intents : j.op = "ingest"}})

ToldInv ==
  /\ HasEvidence /\ InUniverse /\ MadeInOrder /\ GateRemembers
  /\ ImportKnows /\ EvidenceKnows /\ RequestKnows
  /\ EvidenceOnce /\ RequestOnce
  /\ ToldOnce

-----------------------------------------------------------------------------
(* Why the plans are sound: a contact goes on being who it was, and gets no link    *)
(* but to a customer of its address; those that CI-01 made have a mask and no        *)
(* opt-in; and a stamp stands on what the platforms can prove.                      *)
AddressLink(u, c) ==
  \E s \in u.shopify : s.id = c.link /\ Plain(s.email) = Plain(c.email)
Relinkable(u, c) == c.link = 0 \/ (c.email # NoEmail /\ AddressLink(u, c))
Grew(u, c, d) ==
  /\ d.id = c.id /\ d.email = c.email /\ d.proven = c.proven
  /\ d.link = c.link \/ (Relinkable(u, c) /\ AddressLink(u, d))
Later(u, v) ==
  /\ v.shopify = u.shopify /\ v.executeOn = u.executeOn
  /\ \A c \in u.manago : \E d \in v.manago : d.id = c.id /\ d.email = c.email
  /\ \A d \in v.manago : Masked(d.email) \/ \E c \in u.manago : Grew(u, c, d)

Stampable(u, c) ==
  u.executeOn \/ (~Masked(c.email) /\ (c.email # NoEmail => Provable(u, c)))
Sound(u) ==
  /\ ContactsAndCustomers(u)
  /\ \A c \in u.manago : /\ Masked(c.email) => c.state["email"] # "in"
                         /\ c.stamp => Stampable(u, c)

EvidenceIsJudged ==
  /\ shown.evidence.identity \in
       {Identity!IdentityEvidence(u) : u \in shown.import} \cup {Identity!NoIdentityEvidence}
  /\ shown.evidence.consent \in
       {Consent!ConsentEvidence(u) : u \in shown.import} \cup {Consent!NoConsentEvidence}

(* What the requests of CI-01, CI-05 and CC-03 may do to u.                          *)
Creates(intents) ==
  /\ Bounded({i.at : i \in intents})
  /\ \A i \in intents : i.contact = 0 /\ Masked(i.email) /\ i.at # 0
  /\ \A i \in intents, j \in intents : i.at = j.at => i = j
Links(u, intents) ==
  /\ \A i \in intents : i.contact # 0 /\ i.at \in Nat
  /\ \A i \in intents, j \in intents : i.contact = j.contact => i = j
  /\ \A i \in intents : \A d \in u.manago : d.id = i.contact =>
       \/ Masked(d.email)
       \/ /\ d.email # NoEmail /\ Relinkable(u, d)
          /\ \E s \in u.shopify : s.id = i.link /\ Plain(s.email) = Plain(d.email)
Stamps(u, intents) ==
  u.executeOn \/ \A i \in intents : \E d \in u.manago : d.id = i.contact /\ Stampable(u, d)
RequestFits ==
  \A r \in request :
    /\ r.check = "CI-01" => Creates(r.intents)
    /\ r.check = "CI-05" => Links(live, r.intents)
    /\ r.check = "CC-03" => Stamps(live, r.intents)

PlansInv ==
  /\ Sound(live) /\ Sound(latest) /\ Later(latest, live)
  /\ \A u \in {pinned} \cup previous \cup shown.import : Sound(u) /\ Later(u, latest)
  /\ scoring \subseteq {latest}
  /\ EvidenceIsJudged /\ RequestFits
===================================================================================
