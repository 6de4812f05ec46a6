--------------------------------- MODULE AuditLog ---------------------------------
(* The hash-chained audit log of one company (dataruns/audit.py): database         *)
(* transactions that append events, some of them (the execute claim of a           *)
(* write-back) while they hold the company row.                                    *)
(*                                                                                 *)
(* An entry is named by its created_at, and its hash by the entry: no two readings *)
(* of the clock are equal and no two entries hash alike.  The database is          *)
(* PostgreSQL at READ COMMITTED: a statement sees what was committed when it       *)
(* began, and a locking read that had to wait returns the row it had chosen.       *)
EXTENDS Integers

CONSTANTS
  Txs,           \* database connections
  MaxEntries,    \* bound on created_at readings
  None           \* null

ASSUME AuditAssumption == MaxEntries \in Nat \ {0} /\ None \notin Nat

VARIABLES
  log,      \* committed entries
  clock,    \* the last reading of timezone.now()
  tx        \* transaction of each connection

vars == <<log, clock, tx>>

Stamps == 1 .. MaxEntries

(* GENESIS_HASH                                                                   *)
Genesis == 0

(* `alone' is history: no other append was in flight between the first clock       *)
(* reading of the entry's transaction and its commit.                              *)
EntryType == [at : Stamps, prev : {0} \cup Stamps, alone : BOOLEAN]

(* `own' are the entries the transaction has inserted, `locks' the audit rows it   *)
(* has locked; a claim holds the company row from its beginning.                   *)
Closed ==
  [pc |-> "closed", claim |-> FALSE, at |-> None, last |-> None, own |-> {},
   locks |-> {}, alone |-> TRUE]

TxType ==
  [pc : {"closed", "open", "stamped", "selected"}, claim : BOOLEAN,
   at : Stamps \cup {None}, last : {0} \cup Stamps \cup {None},
   own : SUBSET EntryType, locks : SUBSET Stamps, alone : BOOLEAN]

TypeOK ==
  /\ log \subseteq EntryType
  /\ clock \in 0 .. MaxEntries
  /\ tx \in [Txs -> TxType]

Init ==
  /\ log = {}
  /\ clock = 0
  /\ tx = [p \in Txs |-> Closed]

---------------------------------------------------------------------------------
InFlight(p) == tx[p].pc \in {"stamped", "selected"} \/ tx[p].own # {}

HoldsCompany(p) == tx[p].pc # "closed" /\ tx[p].claim

(* A claim takes the company row first (acquire_company_execute_lock).            *)
Begin(p, claim) ==
  /\ tx[p].pc = "closed"
  /\ claim => \A q \in Txs : ~HoldsCompany(q)
  /\ tx' = [tx EXCEPT ![p] = [Closed EXCEPT !.pc = "open", !.claim = claim]]
  /\ UNCHANGED <<log, clock>>

(* created_at = timezone.now(), before the last entry is looked up and locked     *)
Stamp(p) ==
  /\ tx[p].pc = "open"
  /\ clock < MaxEntries
  /\ clock' = clock + 1
  /\ LET others == {q \in Txs \ {p} : InFlight(q)}
     IN tx' = [q \in Txs |->
          IF q = p
          THEN [tx[p] EXCEPT !.pc = "stamped", !.at = clock + 1,
                             !.alone = @ /\ others = {}]
          ELSE [tx[q] EXCEPT !.alone = @ /\ q \notin others]]
  /\ UNCHANGED log

CreatedAt(entries) == {e.at : e \in entries}

(* What a statement of the transaction sees.                                      *)
Visible(p) == CreatedAt(log \cup tx[p].own)

LastOf(stamps) ==
  IF stamps = {} THEN Genesis ELSE CHOOSE s \in stamps : \A t \in stamps : t <= s

(* mutant: order_by("created_at") *)
NewestMut(stamps) ==
  IF stamps = {} THEN Genesis ELSE CHOOSE s \in stamps : \A t \in stamps : s <= t

(* order_by("-created_at", "-id").first()                                         *)
Newest(stamps) == LastOf(stamps)

(* The locking read chooses its row ...                                           *)
Select(p) ==
  /\ tx[p].pc = "stamped"
  /\ tx' = [tx EXCEPT ![p].pc = "selected", ![p].last = Newest(Visible(p))]
  /\ UNCHANGED <<log, clock>>

(* ... and waits while another transaction has that row locked; no row, no lock.  *)
RowBusy(p) == \E q \in Txs \ {p} : tx[p].last \in tx[q].locks

Insert(p) ==
  /\ tx[p].pc = "selected"
  /\ ~RowBusy(p)
  /\ LET entry == [at |-> tx[p].at, prev |-> tx[p].last, alone |-> TRUE]
     IN tx' = [tx EXCEPT
          ![p].pc = "open", ![p].at = None, ![p].last = None,
          ![p].own = @ \cup {entry},
          ![p].locks = @ \cup ({tx[p].last} \ {Genesis})]
  /\ UNCHANGED <<log, clock>>

(* At commit the deferred foreign key of a new entry needs the company row.       *)
CompanyBusy(p) == \E q \in Txs \ {p} : HoldsCompany(q)

Commit(p) ==
  /\ tx[p].pc = "open"
  /\ tx[p].own = {} \/ ~CompanyBusy(p)
  /\ log' = log \cup {[e EXCEPT !.alone = tx[p].alone] : e \in tx[p].own}
  /\ tx' = [tx EXCEPT ![p] = Closed]
  /\ UNCHANGED clock

(* The request fails, dies, or is the victim of the deadlock detector.            *)
Rollback(p) ==
  /\ tx[p].pc # "closed"
  /\ tx' = [tx EXCEPT ![p] = Closed]
  /\ UNCHANGED <<log, clock>>

Next ==
  \E p \in Txs :
    \/ \E claim \in BOOLEAN : Begin(p, claim)
    \/ Stamp(p) \/ Select(p) \/ Insert(p) \/ Commit(p) \/ Rollback(p)

Spec == Init /\ [][Next]_vars

---------------------------------------------------------------------------------
(* What verify_audit_chain_for_company expects e to follow: it walks the entries   *)
(* in the order of created_at.                                                     *)
Expected(e) == LastOf({t \in CreatedAt(log) : t < e.at})

Broken(e) == e.prev # Expected(e)

(* A verification that reports a broken link points at an append that ran beside   *)
(* another one: transactions that follow each other, or that are rolled back,      *)
(* never break the chain, however many entries each of them appends.               *)
BreaksNeedOverlap == \A e \in log : e.alone => ~Broken(e)

(* What makes that inductive: readings of the clock only grow, ...                *)
Reading(p) == tx[p].pc \in {"stamped", "selected"}

ReadingsBelowClock ==
  /\ \A e \in log : e.at <= clock
  /\ \A p \in Txs : /\ \A e \in tx[p].own : e.at <= clock
                    /\ Reading(p) => tx[p].at \in Stamps /\ tx[p].at <= clock
                    /\ tx[p].pc = "selected" => tx[p].last \in {0} \cup Stamps
                    /\ tx[p].pc = "closed" => tx[p].own = {}

(* ... who is alone has no rival, ...                                             *)
AloneHasNoRival ==
  \A p, q \in Txs : p # q /\ InFlight(p) /\ tx[p].alone => ~InFlight(q)

(* ... so that the newest entry it sees stays the newest until it commits, ...    *)
AloneIsLinked ==
  \A p \in Txs : InFlight(p) /\ tx[p].alone =>
    /\ Reading(p) => \A t \in Visible(p) : t < tx[p].at
    /\ tx[p].pc = "selected" => tx[p].last = LastOf(Visible(p))
    /\ \A e \in tx[p].own : e.prev = LastOf({t \in Visible(p) : t < e.at})

(* ... and whatever is in flight when it has committed is younger.                *)
RestIsYounger ==
  \A e \in log, p \in Txs : e.alone =>
    /\ Reading(p) => e.at < tx[p].at
    /\ \A f \in tx[p].own : e.at < f.at

IInv ==
  /\ TypeOK
  /\ ReadingsBelowClock
  /\ AloneHasNoRival
  /\ AloneIsLinked
  /\ RestIsYounger
  /\ BreaksNeedOverlap

=================================================================================
