----------------------------- MODULE ReportDeskProofs -----------------------------
(* Proofs about AuditLog, for any number of connections and entries, and about            *)
(* ReportDesk: a desk is a behaviour of the suggestions and one of the audit log, and     *)
(* what each of them promises alone holds when they are composed.                        *)
EXTENDS ReportDesk, TLAPS, SequenceTheorems, WellFoundedInduction

---------------------------------------------------------------------------------
(* The audit log alone                                                             *)

(* The order of the clock has a last element in every set of readings, which is     *)
(* therefore what LastOf chooses.                                                   *)
LEMMA LastOfType ==
  ASSUME NEW S \in SUBSET Stamps
  PROVE  LastOf(S) \in {0} \cup Stamps
<1>1. CASE S = {}
  BY <1>1 DEF LastOf, Genesis
<1>2. CASE S # {}
  <2> DEFINE T == {MaxEntries - s : s \in S}
             R == {r \in Nat \X Nat : r[1] < r[2]}
  <2>1. IsWellFoundedOn(R, Nat)
    <3>1. OpToRel(<, Nat) = R
      BY DEF OpToRel
    <3> HIDE DEF R
    <3> QED
      BY <3>1, NatLessThanWellFounded, Zenon
  <2>2. T \subseteq Nat /\ T # {}
    <3>1. \A u \in S : MaxEntries - u \in Nat
      BY AuditAssumption DEF Stamps
    <3>2. \A u \in S : MaxEntries - u \in T
      OBVIOUS
    <3> QED
      BY <1>2, <3>1, <3>2
  <2>3. PICK x \in T : \A y \in T : <<y, x>> \notin R
    <3> HIDE DEF T, R
    <3> QED
      BY <2>1, <2>2, WFMin
  <2>4. PICK s \in S : x = MaxEntries - s
    OBVIOUS
  <2>5. ASSUME NEW t \in S PROVE t <= s
    <3>1. MaxEntries - t \in T
      OBVIOUS
    <3>2. ~ (MaxEntries - t < x)
      BY <2>2, <2>3, <3>1
    <3> QED
      BY <2>4, <3>2, AuditAssumption DEF Stamps
  <2> QED
    BY <1>2, <2>5 DEF LastOf
<1> QED
  BY <1>1, <1>2

(* An empty log and nobody at work                                                 *)
LEMMA InitInv == ASSUME Init PROVE IInv
  BY AuditAssumption
     DEF Init, IInv, TypeOK, ReadingsBelowClock, AloneHasNoRival, AloneIsLinked,
         RestIsYounger, BreaksNeedOverlap, InFlight, Reading, Closed, TxType, EntryType,
         Stamps

LEMMA StutterInv == ASSUME IInv, UNCHANGED vars PROVE IInv'
  BY DEF vars, IInv, TypeOK, ReadingsBelowClock, AloneHasNoRival, AloneIsLinked,
         RestIsYounger, BreaksNeedOverlap, InFlight, Reading, Visible, Broken, Expected

(* A transaction that begins, or one that ends without a trace in the log, leaves   *)
(* the others as they were.                                                         *)
LEMMA FreshStep ==
  ASSUME IInv, NEW p \in Txs, NEW rec \in TxType,
         rec.pc \in {"closed", "open"}, rec.own = {},
         tx' = [tx EXCEPT ![p] = rec], UNCHANGED <<log, clock>>
  PROVE  IInv'
<1>1. /\ tx'[p] = rec
      /\ \A q \in Txs : q # p => tx'[q] = tx[q]
  BY DEF IInv, TypeOK
<1>2. TypeOK'
  BY DEF IInv, TypeOK
<1>3. ReadingsBelowClock'
  BY <1>1 DEF IInv, ReadingsBelowClock, Reading
<1>4. ~InFlight(p)' /\ \A q \in Txs : q # p => InFlight(q)' = InFlight(q)
  BY <1>1 DEF InFlight
<1>5. AloneHasNoRival'
  BY <1>1, <1>4 DEF IInv, AloneHasNoRival
<1>6. AloneIsLinked'
  BY <1>1, <1>4 DEF IInv, AloneIsLinked, Reading, Visible
<1>7. RestIsYounger'
  BY <1>1 DEF IInv, RestIsYounger, Reading
<1>8. BreaksNeedOverlap'
  BY DEF IInv, BreaksNeedOverlap, Broken, Expected
<1> QED
  BY <1>2, <1>3, <1>5, <1>6, <1>7, <1>8 DEF IInv

LEMMA BeginStep ==
  ASSUME IInv, NEW p \in Txs, NEW claim \in BOOLEAN, Begin(p, claim)
  PROVE  IInv'
<1> DEFINE rec == [Closed EXCEPT !.pc = "open", !.claim = claim]
<1>1. rec \in TxType /\ rec.pc = "open" /\ rec.own = {}
  BY DEF Closed, TxType
<1>2. tx' = [tx EXCEPT ![p] = rec] /\ UNCHANGED <<log, clock>>
  BY DEF Begin
<1> HIDE DEF rec
<1> QED
  BY <1>1, <1>2, FreshStep

LEMMA RollbackStep ==
  ASSUME IInv, NEW p \in Txs, Rollback(p)
  PROVE  IInv'
<1>1. Closed \in TxType /\ Closed.pc = "closed" /\ Closed.own = {}
  BY DEF Closed, TxType
<1> QED
  BY <1>1, FreshStep DEF Rollback

(* The new reading is above every earlier one; whoever is in flight beside it is no *)
(* longer alone.                                                                    *)
LEMMA StampStep ==
  ASSUME IInv, NEW p \in Txs, Stamp(p)
  PROVE  IInv'
<1> DEFINE others == {q \in Txs \ {p} : InFlight(q)}
           still == tx[p].alone /\ others = {}
           stays(q) == tx[q].alone /\ q \notin others
           mine == [tx[p] EXCEPT !.pc = "stamped", !.at = clock + 1, !.alone = still]
           theirs(q) == [tx[q] EXCEPT !.alone = stays(q)]
<1>a. tx' = [q \in Txs |-> IF q = p THEN mine ELSE theirs(q)]
  BY DEF Stamp
<1> HIDE DEF mine, theirs
<1>0. tx[p].pc = "open" /\ clock < MaxEntries /\ clock' = clock + 1 /\ log' = log
  BY DEF Stamp
<1>1. /\ tx \in [Txs -> TxType] /\ clock \in 0 .. MaxEntries /\ log \subseteq EntryType
      /\ clock + 1 \in Stamps
  BY <1>0, AuditAssumption DEF IInv, TypeOK, Stamps
<1> still \in BOOLEAN /\ \A q \in Txs : stays(q) \in BOOLEAN
  OBVIOUS
<1> HIDE DEF still, stays
<1>2. /\ mine \in TxType
      /\ mine.pc = "stamped" /\ mine.at = clock + 1 /\ mine.own = tx[p].own
      /\ mine.alone = still
  BY <1>1 DEF TxType, mine
<1>3. ASSUME NEW q \in Txs
      PROVE  /\ theirs(q) \in TxType
             /\ theirs(q).pc = tx[q].pc /\ theirs(q).at = tx[q].at
             /\ theirs(q).last = tx[q].last /\ theirs(q).own = tx[q].own
             /\ theirs(q).alone = stays(q)
  BY <1>1 DEF TxType, theirs
<1>4. /\ tx'[p] = mine
      /\ \A q \in Txs : q # p => tx'[q] = theirs(q)
  BY <1>a
<1>5. /\ tx'[p].pc = "stamped" /\ tx'[p].at = clock + 1 /\ tx'[p].own = tx[p].own
      /\ (tx'[p].alone <=> tx[p].alone /\ others = {})
  BY <1>2, <1>4 DEF still
<1>6. \A q \in Txs : q # p =>
         /\ tx'[q].pc = tx[q].pc /\ tx'[q].at = tx[q].at
         /\ tx'[q].last = tx[q].last /\ tx'[q].own = tx[q].own
         /\ (tx'[q].alone <=> tx[q].alone /\ q \notin others)
  BY <1>3, <1>4 DEF stays
<1>7. TypeOK'
  <2>1. tx' \in [Txs -> TxType]
    BY <1>a, <1>2, <1>3
  <2> QED
    BY <1>0, <1>1, <2>1 DEF TypeOK, Stamps
<1>8. InFlight(p)' /\ \A q \in Txs : q # p => InFlight(q)' = InFlight(q)
  BY <1>5, <1>6 DEF InFlight
<1>9. \A q \in Txs : Visible(q)' = Visible(q)
  BY <1>0, <1>5, <1>6 DEF Visible
<1>10. \A q \in Txs : \A e \in tx[q].own : e \in EntryType /\ e.at <= clock
  BY <1>1 DEF IInv, ReadingsBelowClock, TxType
<1>11. \A e \in log : e.at <= clock /\ e.at \in Nat
  BY <1>1 DEF IInv, ReadingsBelowClock, EntryType, Stamps
<1>12. \A q \in Txs : \A e \in tx[q].own : e.at \in Nat
  BY <1>10 DEF EntryType, Stamps
<1>13. ReadingsBelowClock'
  <2>1. \A e \in log' : e.at <= clock'
    BY <1>0, <1>1, <1>11
  <2>2. ASSUME NEW q \in Txs
        PROVE  (/\ \A e \in tx[q].own : e.at <= clock
                /\ Reading(q) => tx[q].at \in Stamps /\ tx[q].at <= clock
                /\ tx[q].pc = "selected" => tx[q].last \in {0} \cup Stamps
                /\ tx[q].pc = "closed" => tx[q].own = {})'
    <3>1. \A e \in tx'[q].own : e.at <= clock'
      BY <1>0, <1>1, <1>5, <1>6, <1>10, <1>12
    <3>2. CASE q = p
      BY <1>0, <1>1, <1>5, <3>1, <3>2 DEF Reading
    <3>3. CASE q # p
      BY <1>0, <1>1, <1>6, <3>1, <3>3 DEF IInv, ReadingsBelowClock, Reading, Stamps
    <3> QED
      BY <3>2, <3>3
  <2> QED
    BY <2>1, <2>2 DEF ReadingsBelowClock
<1>14. AloneHasNoRival'
  BY <1>5, <1>6, <1>8 DEF IInv, AloneHasNoRival
<1>15. AloneIsLinked'
  <2> SUFFICES ASSUME NEW q \in Txs, InFlight(q)', tx'[q].alone
               PROVE  (/\ Reading(q) => \A t \in Visible(q) : t < tx[q].at
                       /\ tx[q].pc = "selected" => tx[q].last = LastOf(Visible(q))
                       /\ \A e \in tx[q].own : e.prev = LastOf({t \in Visible(q) : t < e.at}))'
    BY DEF AloneIsLinked
  <2>1. CASE q = p
    <3>1. \A t \in Visible(p) : t < clock + 1
      BY <1>1, <1>10, <1>11, <1>12 DEF Visible, CreatedAt
    <3>2. \A e \in tx[p].own : e.prev = LastOf({t \in Visible(p) : t < e.at})
      <4>1. CASE tx[p].own = {}
        BY <4>1
      <4>2. CASE tx[p].own # {}
        BY <1>5, <2>1, <4>2 DEF IInv, AloneIsLinked, InFlight
      <4> QED
        BY <4>1, <4>2
    <3> QED
      BY <1>5, <1>9, <2>1, <3>1, <3>2
  <2>2. CASE q # p
    BY <1>6, <1>8, <1>9, <2>2 DEF IInv, AloneIsLinked, Reading
  <2> QED
    BY <2>1, <2>2
<1>16. RestIsYounger'
  BY <1>0, <1>1, <1>5, <1>6, <1>11 DEF IInv, RestIsYounger, Reading
<1>17. BreaksNeedOverlap'
  BY <1>0 DEF IInv, BreaksNeedOverlap, Broken, Expected
<1> QED
  BY <1>7, <1>13, <1>14, <1>15, <1>16, <1>17 DEF IInv

(* The row chosen is the newest the statement sees.                                 *)
LEMMA SelectStep ==
  ASSUME IInv, NEW p \in Txs, Select(p)
  PROVE  IInv'
<1> DEFINE rec == [tx[p] EXCEPT !.pc = "selected", !.last = LastOf(Visible(p))]
<1>0. /\ tx[p].pc = "stamped" /\ UNCHANGED <<log, clock>>
      /\ tx' = [tx EXCEPT ![p] = rec]
  BY DEF Select, Newest, IInv, TypeOK
<1>1. tx \in [Txs -> TxType] /\ log \subseteq EntryType
  BY DEF IInv, TypeOK
<1>2. LastOf(Visible(p)) \in {0} \cup Stamps
  <2>1. Visible(p) \subseteq Stamps
    BY <1>1 DEF Visible, CreatedAt, EntryType, TxType
  <2> QED
    BY <2>1, LastOfType
<1>3. /\ rec \in TxType
      /\ rec.pc = "selected" /\ rec.at = tx[p].at /\ rec.own = tx[p].own
      /\ rec.alone = tx[p].alone /\ rec.last = LastOf(Visible(p))
  BY <1>1, <1>2 DEF TxType
<1> HIDE DEF rec
<1>4. /\ tx'[p] = rec
      /\ \A q \in Txs : q # p => tx'[q] = tx[q]
  BY <1>0, <1>1
<1>5. TypeOK'
  BY <1>0, <1>3 DEF IInv, TypeOK
<1>6. \A q \in Txs : /\ InFlight(q)' = InFlight(q) /\ Visible(q)' = Visible(q)
                     /\ Reading(q)' = Reading(q)
  BY <1>0, <1>3, <1>4 DEF InFlight, Visible, Reading
<1>7. ReadingsBelowClock'
  BY <1>0, <1>2, <1>3, <1>4 DEF IInv, ReadingsBelowClock, Reading
<1>8. AloneHasNoRival'
  BY <1>3, <1>4, <1>6 DEF IInv, AloneHasNoRival
<1>9. AloneIsLinked'
  BY <1>3, <1>4, <1>6 DEF IInv, AloneIsLinked
<1>10. RestIsYounger'
  BY <1>0, <1>3, <1>4, <1>6 DEF IInv, RestIsYounger
<1>11. BreaksNeedOverlap'
  BY <1>0 DEF IInv, BreaksNeedOverlap, Broken, Expected
<1> QED
  BY <1>5, <1>7, <1>8, <1>9, <1>10, <1>11 DEF IInv

(* The new entry is above everything its transaction sees, so it changes none of   *)
(* the links already made.                                                          *)
LEMMA InsertStep ==
  ASSUME IInv, NEW p \in Txs, Insert(p)
  PROVE  IInv'
<1> DEFINE entry == [at |-> tx[p].at, prev |-> tx[p].last, alone |-> TRUE]
           rec == [tx[p] EXCEPT !.pc = "open", !.at = None, !.last = None,
                     !.own = tx[p].own \cup {entry},
                     !.locks = tx[p].locks \cup ({tx[p].last} \ {Genesis})]
<1>1. tx \in [Txs -> TxType] /\ log \subseteq EntryType /\ clock \in 0 .. MaxEntries
  BY DEF IInv, TypeOK
<1>0. /\ tx[p].pc = "selected" /\ UNCHANGED <<log, clock>>
      /\ tx' = [tx EXCEPT ![p] = rec]
  BY <1>1 DEF Insert
<1>2. /\ Reading(p) /\ InFlight(p)
      /\ tx[p].at \in Stamps /\ tx[p].at <= clock /\ tx[p].last \in {0} \cup Stamps
  BY <1>0 DEF Reading, InFlight, IInv, ReadingsBelowClock
<1>3. entry \in EntryType /\ entry.at = tx[p].at /\ entry.prev = tx[p].last
  BY <1>2 DEF EntryType
<1> HIDE DEF entry
<1>4. /\ rec \in TxType
      /\ rec.pc = "open" /\ rec.own = tx[p].own \cup {entry} /\ rec.alone = tx[p].alone
  BY <1>1, <1>2, <1>3 DEF TxType, Genesis
<1> HIDE DEF rec
<1>5. /\ tx'[p] = rec
      /\ \A q \in Txs : q # p => tx'[q] = tx[q]
  BY <1>0, <1>1
<1>6. TypeOK'
  BY <1>0, <1>4 DEF IInv, TypeOK
<1>7. \A q \in Txs : InFlight(q)' = InFlight(q)
  BY <1>2, <1>4, <1>5 DEF InFlight
<1>8. ReadingsBelowClock'
  BY <1>0, <1>2, <1>3, <1>4, <1>5 DEF IInv, ReadingsBelowClock, Reading
<1>9. AloneHasNoRival'
  BY <1>4, <1>5, <1>7 DEF IInv, AloneHasNoRival
<1>10. AloneIsLinked'
  <2> SUFFICES ASSUME NEW q \in Txs, InFlight(q)', tx'[q].alone
               PROVE  (/\ Reading(q) => \A t \in Visible(q) : t < tx[q].at
                       /\ tx[q].pc = "selected" => tx[q].last = LastOf(Visible(q))
                       /\ \A e \in tx[q].own : e.prev = LastOf({t \in Visible(q) : t < e.at}))'
    BY DEF AloneIsLinked
  <2>1. CASE q = p
    <3>1. /\ \A t \in Visible(p) : t < entry.at
          /\ entry.prev = LastOf(Visible(p))
          /\ \A e \in tx[p].own : e.prev = LastOf({t \in Visible(p) : t < e.at})
      BY <1>0, <1>2, <1>3, <1>4, <1>5, <2>1 DEF IInv, AloneIsLinked
    <3>2. /\ Visible(p)' = Visible(p) \cup {entry.at}
          /\ Visible(p) \subseteq Nat /\ entry.at \in Nat
          /\ \A e \in tx[p].own : e.at \in Visible(p)
      BY <1>0, <1>1, <1>3, <1>4, <1>5 DEF Visible, CreatedAt, EntryType, TxType, Stamps
    <3>3. ASSUME NEW e \in tx'[p].own
          PROVE  e.prev = LastOf({t \in Visible(p)' : t < e.at})
      <4>1. CASE e = entry
        <5>1. {t \in Visible(p)' : t < entry.at} = Visible(p)
          BY <3>1, <3>2
        <5> QED
          BY <3>1, <4>1, <5>1
      <4>2. CASE e \in tx[p].own
        <5>1. {t \in Visible(p)' : t < e.at} = {t \in Visible(p) : t < e.at}
          BY <3>1, <3>2, <4>2
        <5> QED
          BY <3>1, <4>2, <5>1
      <4> QED
        BY <1>4, <1>5, <4>1, <4>2
    <3> QED
      BY <1>4, <1>5, <2>1, <3>3 DEF Reading
  <2>2. CASE q # p
    BY <1>0, <1>5, <1>7, <2>2 DEF IInv, AloneIsLinked, Reading, Visible
  <2> QED
    BY <2>1, <2>2
<1>11. RestIsYounger'
  <2> SUFFICES ASSUME NEW e \in log, NEW q \in Txs, e.alone
               PROVE  (/\ Reading(q) => e.at < tx[q].at
                       /\ \A f \in tx[q].own : e.at < f.at)'
    BY <1>0 DEF RestIsYounger
  <2>1. CASE q = p
    BY <1>2, <1>3, <1>4, <1>5, <2>1 DEF IInv, RestIsYounger, Reading
  <2>2. CASE q # p
    BY <1>5, <2>2 DEF IInv, RestIsYounger, Reading
  <2> QED
    BY <2>1, <2>2
<1>12. BreaksNeedOverlap'
  BY <1>0 DEF IInv, BreaksNeedOverlap, Broken, Expected
<1> QED
  BY <1>6, <1>8, <1>9, <1>10, <1>11, <1>12 DEF IInv

(* An entry committed alone keeps the link it was given: nothing older can follow.  *)
LEMMA CommitStep ==
  ASSUME IInv, NEW p \in Txs, Commit(p)
  PROVE  IInv'
<1> DEFINE mark(e) == [e EXCEPT !.alone = tx[p].alone]
<1>0. /\ tx[p].pc = "open" /\ clock' = clock
      /\ log' = log \cup {mark(e) : e \in tx[p].own}
      /\ tx' = [tx EXCEPT ![p] = Closed]
  BY DEF Commit
<1>1. tx \in [Txs -> TxType] /\ log \subseteq EntryType /\ tx[p].own \subseteq EntryType
  BY DEF IInv, TypeOK, TxType
<1>2. \A e \in tx[p].own : /\ mark(e) \in EntryType
                           /\ mark(e).at = e.at /\ mark(e).prev = e.prev
                           /\ mark(e).alone = tx[p].alone
  BY <1>1 DEF EntryType, TxType
<1> HIDE DEF mark
<1>3. Closed \in TxType /\ Closed.pc = "closed" /\ Closed.own = {}
  BY DEF Closed, TxType
<1>4. /\ tx'[p] = Closed
      /\ \A q \in Txs : q # p => tx'[q] = tx[q]
  BY <1>0, <1>1
<1>5. TypeOK'
  BY <1>0, <1>1, <1>2, <1>3 DEF IInv, TypeOK
<1>6. ~InFlight(p)' /\ \A q \in Txs : q # p => InFlight(q)' = InFlight(q)
  BY <1>3, <1>4 DEF InFlight
<1>7. CreatedAt(log') = Visible(p)
  BY <1>0, <1>2 DEF Visible, CreatedAt
<1>8. ReadingsBelowClock'
  BY <1>0, <1>2, <1>3, <1>4 DEF IInv, ReadingsBelowClock, Reading
<1>9. AloneHasNoRival'
  BY <1>4, <1>6 DEF IInv, AloneHasNoRival
<1>10. tx[p].own # {} => InFlight(p)
  BY DEF InFlight
<1>11. AloneIsLinked'
  <2> SUFFICES ASSUME NEW q \in Txs, q # p, InFlight(q), tx[q].alone
               PROVE  (/\ Reading(q) => \A t \in Visible(q) : t < tx[q].at
                       /\ tx[q].pc = "selected" => tx[q].last = LastOf(Visible(q))
                       /\ \A e \in tx[q].own : e.prev = LastOf({t \in Visible(q) : t < e.at}))'
    BY <1>4, <1>6 DEF AloneIsLinked
  <2>1. tx[p].own = {}
    BY <1>10 DEF IInv, AloneHasNoRival
  <2>2. log' = log
    BY <1>0, <2>1
  <2> QED
    BY <1>4, <2>2 DEF IInv, AloneIsLinked, Reading, Visible
<1>12. RestIsYounger'
  <2> SUFFICES ASSUME NEW e \in log', NEW q \in Txs, e.alone, q # p
               PROVE  /\ Reading(q) => e.at < tx[q].at
                      /\ \A f \in tx[q].own : e.at < f.at
    BY <1>3, <1>4 DEF RestIsYounger, Reading
  <2>1. CASE e \in log
    BY <2>1 DEF IInv, RestIsYounger
  <2>2. CASE e \notin log
    <3>1. PICK f \in tx[p].own : e = mark(f)
      BY <1>0, <2>2
    <3>2. ~InFlight(q)
      BY <1>2, <1>10, <3>1 DEF IInv, AloneHasNoRival
    <3> QED
      BY <3>2 DEF InFlight, Reading
  <2> QED
    BY <2>1, <2>2
<1>13. BreaksNeedOverlap'
  <2> SUFFICES ASSUME NEW e \in log', e.alone
               PROVE  e.prev = LastOf({t \in CreatedAt(log') : t < e.at})
    BY DEF BreaksNeedOverlap, Broken, Expected
  <2>1. CASE e \in log
    <3>1. \A f \in tx[p].own : ~ (f.at < e.at)
      BY <1>1, <2>1 DEF IInv, RestIsYounger, EntryType, Stamps
    <3>2. {t \in CreatedAt(log') : t < e.at} = {t \in CreatedAt(log) : t < e.at}
      BY <1>7, <3>1 DEF Visible, CreatedAt
    <3> QED
      BY <2>1, <3>2 DEF IInv, BreaksNeedOverlap, Broken, Expected
  <2>2. CASE e \notin log
    <3>1. PICK f \in tx[p].own : e = mark(f)
      BY <1>0, <2>2
    <3>2. f.prev = LastOf({t \in Visible(p) : t < f.at})
      BY <1>2, <1>10, <3>1 DEF IInv, AloneIsLinked
    <3> QED
      BY <1>2, <1>7, <3>1, <3>2
  <2> QED
    BY <2>1, <2>2
<1> QED
  BY <1>5, <1>8, <1>9, <1>11, <1>12, <1>13 DEF IInv

---------------------------------------------------------------------------------
(* IInv holds of every reachable state: one lemma for each action.                  *)
THEOREM Invariance == Spec => []IInv
<1>1. Init => IInv
  BY InitInv
<1>2. IInv /\ [Next]_vars => IInv'
  BY BeginStep, StampStep, SelectStep, InsertStep, CommitStep, RollbackStep, StutterInv
     DEF Next
<1> QED
  BY <1>1, <1>2, PTL DEF Spec

(* Entries, the clock and transactions keep their types.                            *)
THEOREM TypeCorrect == Spec => []TypeOK
<1>1. IInv => TypeOK
  BY DEF IInv
<1> QED
  BY <1>1, Invariance, PTL

(* verify_audit_chain reports no broken link at an entry whose append ran beside no *)
(* other one, with any number of connections, entries and rollbacks.                *)
THEOREM BreaksNeedOverlapHolds == Spec => []BreaksNeedOverlap
<1>1. IInv => BreaksNeedOverlap
  BY DEF IInv
<1> QED
  BY <1>1, Invariance, PTL

---------------------------------------------------------------------------------
(* The suggestions and the desk                                                    *)

LEMMA Element ==
  ASSUME NEW S, NEW s \in Seq(S), NEW i \in DOMAIN s
  PROVE  s[i] \in S
OBVIOUS

(* Removing an element leaves the others in their order.                            *)
LEMMA RemoveAtType ==
  ASSUME NEW S, NEW s \in Seq(S), NEW i \in DOMAIN s
  PROVE  /\ RemoveAt(s, i) \in Seq(S)
         /\ Len(RemoveAt(s, i)) = Len(s) - 1
         /\ \A j \in 1 .. Len(s) - 1 :
              RemoveAt(s, i)[j] = IF j < i THEN s[j] ELSE s[j + 1]
<1> DEFINE left == SubSeq(s, 1, i - 1)
           right == SubSeq(s, i + 1, Len(s))
<1>1. DOMAIN s = 1 .. Len(s) /\ Len(s) \in Nat /\ i \in 1 .. Len(s)
  OBVIOUS
<1>2. /\ left \in Seq(S) /\ Len(left) = i - 1
      /\ \A j \in 1 .. i - 1 : left[j] = s[j]
  <2>1. \A j \in 1 .. i - 1 : s[j] \in S
    BY <1>1
  <2> QED
    BY <1>1, <2>1, SubSeqProperties
<1>3. /\ right \in Seq(S) /\ Len(right) = Len(s) - i
      /\ \A j \in 1 .. Len(s) - i : right[j] = s[i + j]
  <2>1. i + 1 \in Int /\ Len(s) \in Int /\ \A j \in i + 1 .. Len(s) : s[j] \in S
    BY <1>1
  <2>2. /\ right \in Seq(S)
        /\ Len(right) = IF i + 1 <= Len(s) THEN Len(s) - (i + 1) + 1 ELSE 0
        /\ \A j \in 1 .. Len(s) - (i + 1) + 1 : right[j] = s[(i + 1) + j - 1]
    BY <2>1, SubSeqProperties
  <2>3. ASSUME NEW j \in 1 .. Len(s) - i
        PROVE  j \in 1 .. Len(s) - (i + 1) + 1 /\ (i + 1) + j - 1 = i + j
    BY <1>1
  <2>4. Len(s) - (i + 1) + 1 = Len(s) - i /\ (~(i + 1 <= Len(s)) => Len(s) - i = 0)
    BY <1>1
  <2> HIDE DEF right
  <2>5. ASSUME NEW j \in 1 .. Len(s) - i PROVE right[j] = s[i + j]
    <3>1. right[j] = s[(i + 1) + j - 1]
      BY <2>2, <2>3
    <3> QED
      BY <2>3, <3>1
  <2>6. Len(right) = Len(s) - i
    BY <1>1, <2>2, <2>4
  <2> QED
    BY <2>2, <2>5, <2>6
<1>4. RemoveAt(s, i) = left \o right
  BY DEF RemoveAt
<1> HIDE DEF left, right
<1>5. /\ left \o right \in Seq(S) /\ Len(left \o right) = Len(left) + Len(right)
      /\ \A j \in 1 .. Len(left) + Len(right) :
           (left \o right)[j] = IF j <= Len(left) THEN left[j] ELSE right[j - Len(left)]
  BY <1>2, <1>3, ConcatProperties
<1>6. ASSUME NEW j \in 1 .. Len(s) - 1
      PROVE  (left \o right)[j] = IF j < i THEN s[j] ELSE s[j + 1]
  <2>1. CASE j < i
    <3>1. j \in 1 .. i - 1 /\ j \in 1 .. Len(left) + Len(right) /\ j <= Len(left)
      BY <1>1, <1>2, <1>3, <2>1
    <3> QED
      BY <1>2, <1>5, <2>1, <3>1
  <2>2. CASE ~(j < i)
    <3>0. /\ j \in 1 .. Len(left) + Len(right) /\ ~(j <= Len(left))
          /\ j - Len(left) = j - (i - 1)
      BY <1>1, <1>2, <1>3, <2>2
    <3>1. (left \o right)[j] = right[j - (i - 1)]
      BY <1>5, <3>0
    <3>2. j - (i - 1) \in 1 .. Len(s) - i /\ i + (j - (i - 1)) = j + 1
      BY <1>1, <2>2
    <3> QED
      BY <1>3, <2>2, <3>1, <3>2
  <2> QED
    BY <2>1, <2>2
<1> QED
  BY <1>1, <1>2, <1>3, <1>4, <1>5, <1>6

(* What is new after a step that only changes one request                            *)
LEMMA SlotStep ==
  ASSUME AiInv, NEW a \in Asks, NEW slot \in SlotType, SlotTells(slot),
         asks' = [asks EXCEPT ![a] = slot], requests' \in Nat,
         saved' \in Seq(RowType), UNCHANGED <<dcs, reports>>
  PROVE  AiInv'
<1>1. asks \in [Asks -> SlotType]
  BY DEF AiInv, AiTypeOK
<1>2. /\ asks'[a] = slot
      /\ \A b \in Asks : b # a => asks'[b] = asks[b]
  BY <1>1
<1>3. AiTypeOK'
  BY <1>1 DEF AiInv, AiTypeOK
<1>4. \A b \in Asks : SlotTells(asks'[b])
  BY <1>2 DEF AiInv
<1>5. \A b \in Asks : SlotTells(asks[b])'
  BY <1>4 DEF SlotTells, Answered, BriefTells, AttachTells, FixesTell, RunShown
<1>6. \A i \in DOMAIN reports' : ReportTells(reports[i])'
  BY DEF AiInv, ReportTells, RunShown, NarrativeTells, FixesTell
<1> QED
  BY <1>3, <1>5, <1>6 DEF AiInv

---------------------------------------------------------------------------------
(* Runs, rows and reports are where the sequences have them.                        *)
LEMMA Elements ==
  ASSUME AiInv
  PROVE  /\ DOMAIN dcs \subseteq Nat /\ \A r \in DOMAIN dcs : dcs[r] \in RunType
         /\ DOMAIN dcs = 1 .. Len(dcs) /\ Len(dcs) \in Nat
         /\ \A i \in DOMAIN saved : saved[i] \in RowType
         /\ DOMAIN reports \subseteq Nat /\ \A i \in DOMAIN reports : reports[i] \in ReportType
         /\ DOMAIN reports = 1 .. Len(reports) /\ Len(reports) \in Nat
         /\ asks \in [Asks -> SlotType]
  BY DEF AiInv, AiTypeOK

LEMMA IdleType == Idle \in SlotType /\ SlotTells(Idle)
<1>1. Idle \in SlotType
  BY DEF Idle, SlotType, Working, FixesType
<1>2. Idle.pc = "idle" /\ Idle.goal = "answer" /\ Idle.run = Nothing
  BY DEF Idle
<1>3. FixesTell(Idle)
  BY DEF Idle, FixesTell
<1> QED
  BY <1>1, <1>2, <1>3 DEF SlotTells, Answered, BriefTells, AttachTells, Working

(* A context is about the run it was resolved to.                                    *)
LEMMA Resolved ==
  ASSUME AiInv, NEW named, NEW r \in resolve_dcs_run_for_ai(named)
  PROVE  r \in DOMAIN dcs /\ (named # Nothing => r = named)
BY DEF resolve_dcs_run_for_ai

LEMMA Issue ==
  ASSUME AiInv, NEW task \in AiTasks, NEW check \in Checks, NEW named,
         NEW context \in load_issue_for_ai(task, check, named)
  PROVE  /\ context \in ContextType
         /\ context.task = task /\ context.check = check
         /\ context.run \in DOMAIN dcs /\ (named # Nothing => context.run = named)
         /\ context.body = dcs[context.run].found[check]
<1>1. PICK r \in resolve_dcs_run_for_ai(named) :
        dcs[r].found[check] # Clean /\ context = _issue_base_fields(task, check, r)
  BY DEF load_issue_for_ai
<1>2. r \in DOMAIN dcs /\ (named # Nothing => r = named)
  BY <1>1, Resolved
<1>3. dcs[r] \in RunType /\ r \in Nat
  BY <1>2, Elements
<1>4. dcs[r].found[check] \in Bodies
  BY <1>1, <1>3 DEF RunType, Found, Bodies
<1> QED
  BY <1>1, <1>2, <1>3, <1>4 DEF _issue_base_fields, ContextType, Subjects

LEMMA Rollup ==
  ASSUME AiInv, NEW named, NEW context \in build_report_narrative_projected(named)
  PROVE  /\ context \in ContextType
         /\ context.task = Narrative
         /\ context.run \in DOMAIN dcs /\ (named # Nothing => context.run = named)
         /\ context.body = dcs[context.run].found
<1>1. PICK r \in resolve_dcs_run_for_ai(named) :
        context = project_report_narrative_context(r, dcs[r].found)
  BY DEF build_report_narrative_projected
<1>2. r \in DOMAIN dcs /\ (named # Nothing => r = named)
  BY <1>1, Resolved
<1>3. dcs[r] \in RunType /\ r \in Nat
  BY <1>2, Elements
<1>4. dcs[r].found \in Bodies
  BY <1>3 DEF RunType, Bodies
<1> QED
  BY <1>1, <1>2, <1>3, <1>4 DEF project_report_narrative_context, ContextType, Subjects, AiTasks

(* A request that goes on from a context keeps what it is for.                       *)
LEMMA StartedKeeps ==
  ASSUME NEW slot \in SlotType, NEW context \in ContextType, NEW pc \in {"soft", "gate"}
  PROVE  LET s == Started(slot, context, pc)
         IN /\ s \in SlotType /\ s.pc = pc /\ s.context = context
            /\ s.goal = slot.goal /\ s.run = slot.run /\ s.shown = slot.shown
            /\ s.fixes = slot.fixes /\ s.report = slot.report /\ s.named = slot.named
            /\ s.refresh = slot.refresh
<1>1. Told(context) \in BOOLEAN
  BY Zenon DEF Told
<1> QED
  BY <1>1 DEF Started, SlotType, Working

LEMMA StartedTells ==
  ASSUME NEW slot \in SlotType, NEW context \in ContextType, NEW pc \in {"soft", "gate"},
         NEW s \in SlotType, s.pc = pc, s.context = context,
         s.goal = slot.goal, s.run = slot.run, s.shown = slot.shown,
         s.fixes = slot.fixes, s.report = slot.report, s.named = slot.named,
         pc = "soft" => context.task = Fix,
         BriefTells(s), AttachTells(s), FixesTell(slot)
  PROVE  SlotTells(s)
BY DEF SlotTells, Answered, FixesTell, Working

(* A request that only moves on to another step keeps what it tells.                 *)
LEMMA MovedTells ==
  ASSUME NEW slot \in SlotType, SlotTells(slot), slot.pc \in Working,
         NEW s \in SlotType, s.pc \in Working \ {"soft"},
         s.context = slot.context, s.goal = slot.goal, s.run = slot.run,
         s.shown = slot.shown, s.fixes = slot.fixes, s.report = slot.report,
         s.named = slot.named, Answered(s)
  PROVE  SlotTells(s)
BY DEF SlotTells, BriefTells, AttachTells, FixesTell, RunShown, Working

---------------------------------------------------------------------------------
LEMMA MoveStep ==
  ASSUME AiInv, NEW a \in Asks, asks[a].pc \in Working,
         NEW pc \in {"gate", "model", "save", "refused"}, NEW tries \in Nat,
         asks' = [asks EXCEPT ![a] = [asks[a] EXCEPT !.pc = pc, !.tries = tries]],
         UNCHANGED <<dcs, saved, reports, requests>>
  PROVE  AiInv'
<1> DEFINE s == [asks[a] EXCEPT !.pc = pc, !.tries = tries]
<1>1. asks[a] \in SlotType /\ SlotTells(asks[a])
  BY Elements DEF AiInv
<1>2. /\ s \in SlotType /\ s.pc = pc
      /\ s.context = asks[a].context /\ s.goal = asks[a].goal /\ s.run = asks[a].run
      /\ s.shown = asks[a].shown /\ s.fixes = asks[a].fixes
      /\ s.report = asks[a].report /\ s.named = asks[a].named
  BY <1>1 DEF SlotType, Working
<1>3. asks' = [asks EXCEPT ![a] = s]
  OBVIOUS
<1> HIDE DEF s
<1>4. Answered(s)
  BY <1>2 DEF Answered
<1>5. SlotTells(s)
  BY <1>1, <1>2, <1>4, MovedTells DEF Working
<1>6. requests' \in Nat /\ saved' \in Seq(RowType)
  BY DEF AiInv, AiTypeOK
<1> QED
  BY <1>2, <1>3, <1>5, <1>6, SlotStep

(* A row answers a request it fits.                                                  *)
LEMMA AnswerStep ==
  ASSUME AiInv, NEW a \in Asks, asks[a].pc \in Working,
         NEW row \in RowType, NEW stale \in BOOLEAN,
         row.of.task = asks[a].context.task, row.of.check = asks[a].context.check,
         IF stale THEN row.content_hash = Blank ELSE row.of.body = asks[a].context.body,
         asks[a].context.task # Fix => ~stale /\ row.of = asks[a].context,
         asks' = [asks EXCEPT ![a] =
                    [asks[a] EXCEPT !.pc = "answered", !.answer = Answer(row, stale)]],
         saved' \in Seq(RowType), UNCHANGED <<dcs, reports, requests>>
  PROVE  AiInv'
<1> DEFINE answer == Answer(row, stale)
           s == [asks[a] EXCEPT !.pc = "answered", !.answer = answer]
<1>1. asks[a] \in SlotType /\ SlotTells(asks[a])
  BY Elements DEF AiInv
<1>2. /\ answer \in AnswerType /\ answer.of = row.of /\ answer.stale = stale
      /\ answer.legacy = (row.content_hash = Blank)
  BY DEF Answer, AnswerType, RowType
<1>3. asks' = [asks EXCEPT ![a] = s]
  OBVIOUS
<1> HIDE DEF answer
<1>4. /\ s \in SlotType /\ s.pc = "answered" /\ s.answer = answer
      /\ s.context = asks[a].context /\ s.goal = asks[a].goal /\ s.run = asks[a].run
      /\ s.shown = asks[a].shown /\ s.fixes = asks[a].fixes
      /\ s.report = asks[a].report /\ s.named = asks[a].named
  BY <1>1, <1>2 DEF SlotType, Working
<1> HIDE DEF s
<1>5. Answered(s)
  BY <1>2, <1>4 DEF Answered, Fits
<1>6. SlotTells(s)
  BY <1>1, <1>4, <1>5, MovedTells DEF Working
<1>7. requests' \in Nat
  BY DEF AiInv, AiTypeOK
<1> QED
  BY <1>3, <1>4, <1>6, <1>7, SlotStep

LEMMA SoftStep ==
  ASSUME AiInv, NEW a \in Asks, _soft_fix_suggestion_or_none(a)
  PROVE  AiInv'
<1> DEFINE context == asks[a].context
           matched == _first_valid_soft(Hashed(context))
           legacy == _first_valid_soft(BlankRows(context.check))
<1>1. /\ asks[a].pc \in Working /\ asks[a] \in SlotType
      /\ context \in ContextType /\ context.task = Fix
  BY Elements DEF _soft_fix_suggestion_or_none, AiInv, SlotTells, Working
<1>2. saved' \in Seq(RowType) /\ UNCHANGED <<dcs, saved, reports, requests>>
  BY DEF AiInv, AiTypeOK, _soft_fix_suggestion_or_none
<1>3. asks' = [asks EXCEPT ![a] =
          IF matched \cup legacy = {} THEN [asks[a] EXCEPT !.pc = "gate"]
          ELSE [asks[a] EXCEPT !.pc = "answered",
                  !.answer = IF matched # {}
                             THEN Answer(saved[CHOOSE i \in matched : TRUE], FALSE)
                             ELSE Answer(saved[CHOOSE i \in legacy : TRUE], TRUE)]]
  BY DEF _soft_fix_suggestion_or_none
<1>4. \A i \in matched :
        /\ i \in DOMAIN saved /\ saved[i] \in RowType
        /\ saved[i].of.task = Fix /\ saved[i].of.check = context.check
        /\ saved[i].of.body = context.body
  <2> SUFFICES ASSUME NEW i \in matched
               PROVE  /\ i \in DOMAIN saved /\ saved[i] \in RowType
                      /\ saved[i].of.task = Fix /\ saved[i].of.check = context.check
                      /\ saved[i].of.body = context.body
    OBVIOUS
  <2>1. /\ i \in DOMAIN saved /\ saved[i].task = Fix
        /\ saved[i].content_hash = <<context.check, context.body>>
    BY DEF _first_valid_soft, Hashed, FixRows, compute_fix_content_hash
  <2>2. saved[i] \in RowType /\ Filed(saved[i])
    BY <2>1, Elements DEF RowType
  <2>3. saved[i].content_hash # Blank
    BY <2>1 DEF Blank
  <2> QED
    BY <2>1, <2>2, <2>3 DEF Filed, compute_fix_content_hash
<1>5. \A i \in legacy :
        /\ i \in DOMAIN saved /\ saved[i] \in RowType
        /\ saved[i].of.task = Fix /\ saved[i].of.check = context.check
        /\ saved[i].content_hash = Blank
  <2> SUFFICES ASSUME NEW i \in legacy
               PROVE  /\ i \in DOMAIN saved /\ saved[i] \in RowType
                      /\ saved[i].of.task = Fix /\ saved[i].of.check = context.check
                      /\ saved[i].content_hash = Blank
    OBVIOUS
  <2>1. /\ i \in DOMAIN saved /\ saved[i].task = Fix /\ saved[i].check = context.check
        /\ saved[i].content_hash = Blank
    BY DEF _first_valid_soft, BlankRows, FixRows
  <2>2. saved[i] \in RowType /\ Filed(saved[i])
    BY <2>1, Elements DEF RowType
  <2> QED
    BY <2>1, <2>2 DEF Filed
<1> HIDE DEF matched, legacy
<1>6. CASE matched # {}
  <2>1. PICK i \in matched : i = CHOOSE j \in matched : TRUE
    BY <1>6
  <2>2. asks' = [asks EXCEPT ![a] =
                   [asks[a] EXCEPT !.pc = "answered", !.answer = Answer(saved[i], FALSE)]]
    BY <1>3, <1>6, <2>1
  <2> QED
    BY <1>1, <1>2, <1>4, <2>2, AnswerStep
<1>7. CASE matched = {} /\ legacy # {}
  <2>1. PICK i \in legacy : i = CHOOSE j \in legacy : TRUE
    BY <1>7
  <2>2. asks' = [asks EXCEPT ![a] =
                   [asks[a] EXCEPT !.pc = "answered", !.answer = Answer(saved[i], TRUE)]]
    BY <1>3, <1>7, <2>1
  <2> QED
    BY <1>1, <1>2, <1>5, <2>2, AnswerStep
<1>8. CASE matched = {} /\ legacy = {}
  <2>1. asks[a].tries \in Nat /\ [asks[a] EXCEPT !.pc = "gate"] =
          [asks[a] EXCEPT !.pc = "gate", !.tries = asks[a].tries]
    BY <1>1 DEF SlotType
  <2>2. asks' = [asks EXCEPT ![a] = [asks[a] EXCEPT !.pc = "gate", !.tries = asks[a].tries]]
    BY <1>3, <1>8, <2>1
  <2> QED
    BY <1>1, <1>2, <2>1, <2>2, MoveStep
<1> QED
  BY <1>6, <1>7, <1>8

LEMMA GateStep ==
  ASSUME AiInv, NEW a \in Asks, GateAndCache(a)
  PROVE  AiInv'
<1> DEFINE context == asks[a].context
           cached == {i \in get_cached_suggestion(context) :
                        saved[i].valid /\ ~asks[a].refresh}
<1>1. /\ asks[a].pc \in Working /\ asks[a] \in SlotType /\ context \in ContextType
      /\ asks[a].tries \in Nat
  BY Elements DEF GateAndCache, AiInv, SlotTells, SlotType, Working
<1>2. saved' \in Seq(RowType) /\ UNCHANGED <<dcs, saved, reports, requests>>
  BY DEF AiInv, AiTypeOK, GateAndCache
<1>3. asks' = [asks EXCEPT ![a] =
          IF ~ensure_safe_context(context) THEN [asks[a] EXCEPT !.pc = "refused"]
          ELSE IF cached = {} THEN [asks[a] EXCEPT !.pc = "model"]
          ELSE [asks[a] EXCEPT !.pc = "answered",
                         !.answer = Answer(saved[CHOOSE i \in cached : TRUE], FALSE)]]
  BY DEF GateAndCache
<1>4. \A i \in cached : saved[i] \in RowType /\ saved[i].of = context
  <2> SUFFICES ASSUME NEW i \in cached
               PROVE  saved[i] \in RowType /\ saved[i].of = context
    OBVIOUS
  <2>1. i \in DOMAIN saved /\ saved[i].fingerprint = compute_fingerprint(context)
    BY DEF get_cached_suggestion
  <2>2. saved[i] \in RowType /\ Filed(saved[i]) /\ saved[i].of \in ContextType
    BY <2>1, Elements DEF RowType
  <2>3. compute_fingerprint(saved[i].of) = compute_fingerprint(context)
    BY <2>1, <2>2 DEF Filed
  <2>4. /\ saved[i].of.task = context.task /\ saved[i].of.run = context.run
        /\ saved[i].of.check = context.check /\ saved[i].of.body = context.body
    BY <2>3 DEF compute_fingerprint
  <2> QED
    BY <1>1, <2>2, <2>4 DEF ContextType
<1> HIDE DEF cached
<1>5. \A pc \in {"refused", "model"} :
        [asks[a] EXCEPT !.pc = pc] = [asks[a] EXCEPT !.pc = pc, !.tries = asks[a].tries]
  BY <1>1 DEF SlotType
<1>6. CASE ~ensure_safe_context(context)
  <2>1. asks' = [asks EXCEPT ![a] = [asks[a] EXCEPT !.pc = "refused", !.tries = asks[a].tries]]
    BY <1>3, <1>5, <1>6
  <2> QED
    BY <1>1, <1>2, <2>1, MoveStep
<1>7. CASE ensure_safe_context(context) /\ cached = {}
  <2>1. asks' = [asks EXCEPT ![a] = [asks[a] EXCEPT !.pc = "model", !.tries = asks[a].tries]]
    BY <1>3, <1>5, <1>7
  <2> QED
    BY <1>1, <1>2, <2>1, MoveStep
<1>8. CASE ensure_safe_context(context) /\ cached # {}
  <2>1. PICK i \in cached : i = CHOOSE j \in cached : TRUE
    BY <1>8
  <2>2. asks' = [asks EXCEPT ![a] =
                   [asks[a] EXCEPT !.pc = "answered", !.answer = Answer(saved[i], FALSE)]]
    BY <1>3, <1>8, <2>1
  <2> QED
    BY <1>1, <1>2, <1>4, <2>2, AnswerStep
<1> QED
  BY <1>6, <1>7, <1>8

LEMMA ModelStep ==
  ASSUME AiInv, NEW a \in Asks, complete_json(a)
  PROVE  AiInv'
<1>1. /\ asks[a].pc \in Working /\ asks[a] \in SlotType
      /\ asks[a].tries \in Nat /\ asks[a].tries + 1 \in Nat
  BY Elements DEF complete_json, SlotType, Working
<1>2. UNCHANGED <<dcs, saved, reports, requests>>
  BY DEF complete_json
<1>3. PICK pc \in {"model", "save", "refused"}, tries \in {asks[a].tries, asks[a].tries + 1} :
        asks' = [asks EXCEPT ![a] = [asks[a] EXCEPT !.pc = pc, !.tries = tries]]
  <2>1. CASE asks' = [asks EXCEPT ![a] = [asks[a] EXCEPT !.pc = "save"]]
    <3>1. [asks[a] EXCEPT !.pc = "save"] =
            [asks[a] EXCEPT !.pc = "save", !.tries = asks[a].tries]
      BY <1>1 DEF SlotType
    <3> QED
      BY <2>1, <3>1
  <2>2. CASE asks' = [asks EXCEPT ![a] = [asks[a] EXCEPT !.tries = asks[a].tries + 1]]
    <3>1. [asks[a] EXCEPT !.tries = asks[a].tries + 1] =
            [asks[a] EXCEPT !.pc = "model", !.tries = asks[a].tries + 1]
      BY <1>1 DEF SlotType, complete_json
    <3> QED
      BY <2>2, <3>1
  <2>3. CASE asks' = [asks EXCEPT ![a] = [asks[a] EXCEPT !.pc = "refused"]]
    <3>1. [asks[a] EXCEPT !.pc = "refused"] =
            [asks[a] EXCEPT !.pc = "refused", !.tries = asks[a].tries]
      BY <1>1 DEF SlotType
    <3> QED
      BY <2>3, <3>1
  <2> QED
    BY <2>1, <2>2, <2>3 DEF complete_json
<1> QED
  BY <1>1, <1>2, <1>3, MoveStep

LEMMA UpsertedType ==
  ASSUME NEW context \in ContextType
  PROVE  Upserted(context) \in RowType /\ Upserted(context).of = context
<1> DEFINE hash == IF context.task = Fix THEN compute_fix_content_hash(context) ELSE Blank
<1>1. hash \in {Blank} \cup (Subjects \X Bodies)
  BY DEF compute_fix_content_hash, ContextType
<1>2. hash # Blank => hash = compute_fix_content_hash(context)
  OBVIOUS
<1>3. compute_fingerprint(context) \in
        [task : AiTasks, subject : Subjects \X Bodies, run : Nat]
  BY DEF compute_fingerprint, ContextType
<1> HIDE DEF hash
<1>4. Upserted(context) =
        [task |-> context.task, check |-> context.check,
         fingerprint |-> compute_fingerprint(context), content_hash |-> hash,
         valid |-> TRUE, of |-> context]
  BY DEF Upserted, hash
<1> QED
  BY <1>1, <1>2, <1>3, <1>4 DEF RowType, Filed, ContextType

LEMMA UpsertStep ==
  ASSUME AiInv, NEW a \in Asks, upsert_ai_suggestion(a)
  PROVE  AiInv'
<1> DEFINE row == Upserted(asks[a].context)
           old == get_cached_suggestion(asks[a].context)
           others == IF old = {} THEN saved ELSE RemoveAt(saved, CHOOSE i \in old : TRUE)
<1>1. asks[a].pc \in Working /\ asks[a].context \in ContextType
  BY DEF upsert_ai_suggestion, AiInv, SlotTells, Working
<1>2. row \in RowType /\ row.of = asks[a].context
  BY <1>1, UpsertedType
<1>3. others \in Seq(RowType)
  <2>1. saved \in Seq(RowType)
    BY DEF AiInv, AiTypeOK
  <2>2. CASE old # {}
    <3>1. PICK i \in old : i = CHOOSE j \in old : TRUE
      BY <2>2
    <3>2. i \in DOMAIN saved
      BY DEF get_cached_suggestion
    <3> QED
      BY <2>1, <2>2, <3>1, <3>2, RemoveAtType
  <2> QED
    BY <2>1, <2>2
<1>4. /\ saved' = Append(others, row) /\ UNCHANGED <<dcs, reports, requests>>
      /\ asks' = [asks EXCEPT ![a] =
                    [asks[a] EXCEPT !.pc = "answered", !.answer = Answer(row, FALSE)]]
  BY DEF upsert_ai_suggestion
<1> HIDE DEF row, others
<1>5. saved' \in Seq(RowType)
  BY <1>2, <1>3, <1>4
<1> QED
  BY <1>1, <1>2, <1>4, <1>5, AnswerStep

---------------------------------------------------------------------------------
(* A request that goes on from a context, for an answer only ...                      *)
LEMMA AskStep ==
  ASSUME AiInv, NEW a \in Asks, NEW context \in ContextType,
         NEW pc \in {"soft", "gate"}, pc = "soft" => context.task = Fix,
         NEW refresh \in BOOLEAN,
         asks' = [asks EXCEPT ![a] =
                    [Started(Idle, context, pc) EXCEPT !.refresh = refresh]],
         requests' = requests + 1, UNCHANGED <<dcs, saved, reports>>
  PROVE  AiInv'
<1> DEFINE begun == Started(Idle, context, pc)
           s == [begun EXCEPT !.refresh = refresh]
<1>1. Idle \in SlotType /\ SlotTells(Idle) /\ Idle.goal = "answer" /\ Idle.run = Nothing
  BY IdleType DEF Idle
<1>2. /\ begun \in SlotType /\ begun.pc = pc /\ begun.context = context
      /\ begun.goal = Idle.goal /\ begun.run = Idle.run /\ begun.shown = Idle.shown
      /\ begun.fixes = Idle.fixes /\ begun.report = Idle.report /\ begun.named = Idle.named
  BY <1>1, StartedKeeps
<1>3. asks' = [asks EXCEPT ![a] = s]
  OBVIOUS
<1> HIDE DEF begun
<1>4. /\ s \in SlotType /\ s.pc = pc /\ s.context = context
      /\ s.goal = Idle.goal /\ s.run = Idle.run /\ s.shown = Idle.shown
      /\ s.fixes = Idle.fixes /\ s.report = Idle.report /\ s.named = Idle.named
  BY <1>2 DEF SlotType
<1> HIDE DEF s
<1>5. BriefTells(s) /\ AttachTells(s) /\ FixesTell(Idle)
  BY <1>1, <1>4 DEF BriefTells, AttachTells, SlotTells
<1>6. SlotTells(s)
  BY <1>1, <1>4, <1>5, StartedTells
<1>7. requests' \in Nat /\ saved' \in Seq(RowType)
  BY DEF AiInv, AiTypeOK
<1> QED
  BY <1>3, <1>4, <1>6, <1>7, SlotStep

LEMMA AskFixStep ==
  ASSUME AiInv, NEW a \in Asks, NEW c \in Checks, NEW named \in Named,
         NEW refresh \in BOOLEAN, AskFix(a, c, named, refresh)
  PROVE  AiInv'
<1>1. PICK context \in load_issue_for_ai(Fix, c, named) :
        asks' = [asks EXCEPT ![a] = get_or_create_fix_suggestion(Idle, context, refresh)]
  BY DEF AskFix
<1>2. context \in ContextType /\ context.task = Fix
  BY Issue DEF AiTasks
<1>3. requests' = requests + 1 /\ UNCHANGED <<dcs, saved, reports>>
  BY DEF AskFix, Arrives
<1>4. CASE refresh
  BY <1>1, <1>2, <1>3, <1>4, AskStep DEF get_or_create_fix_suggestion
<1>5. CASE ~refresh
  BY <1>1, <1>2, <1>3, <1>5, AskStep DEF get_or_create_fix_suggestion
<1> QED
  BY <1>4, <1>5

LEMMA AskOtherStep ==
  ASSUME AiInv, NEW a \in Asks, NEW c \in Checks, NEW named \in Named,
         AskExplain(a, c, named) \/ AskBlurb(a, c, named)
  PROVE  AiInv'
<1>1. PICK task \in AiTasks :
        \E context \in load_issue_for_ai(task, c, named) :
          asks' = [asks EXCEPT ![a] = Started(Idle, context, "gate")]
  BY DEF AskExplain, AskBlurb, get_or_create_explain_finding, get_or_create_nba_blurb, AiTasks
<1>0. PICK context \in load_issue_for_ai(task, c, named) :
        asks' = [asks EXCEPT ![a] = Started(Idle, context, "gate")]
  BY <1>1
<1>2. context \in ContextType
  BY Issue
<1>3. requests' = requests + 1 /\ UNCHANGED <<dcs, saved, reports>>
  BY DEF AskExplain, AskBlurb, Arrives
<1>4. Started(Idle, context, "gate") =
        [Started(Idle, context, "gate") EXCEPT !.refresh = FALSE]
  <2> DEFINE s == Started(Idle, context, "gate")
  <2>1. s \in SlotType /\ s.refresh = Idle.refresh
    BY <1>2, IdleType, StartedKeeps
  <2>2. s.refresh = FALSE
    BY <2>1 DEF Idle
  <2> HIDE DEF s
  <2>3. s = [s EXCEPT !.refresh = FALSE]
    BY <2>1, <2>2 DEF SlotType
  <2> QED
    BY <2>3 DEF s
<1>5. asks' = [asks EXCEPT ![a] = [Started(Idle, context, "gate") EXCEPT !.refresh = FALSE]]
  BY <1>0, <1>4
<1> QED
  BY <1>2, <1>3, <1>5, AskStep

(* ... for a report that is there, ...                                                *)
LEMMA AttachStep ==
  ASSUME AiInv, NEW a \in Asks, NEW slot \in SlotType,
         FixesTell(slot), BriefTells(slot), slot.goal \in {"answer", "attach"},
         NEW context \in ContextType, context.task = Narrative,
         slot.goal = "attach" =>
           /\ slot.report \in DOMAIN reports
           /\ ~slot.named => /\ context.run = reports[slot.report].run
                             /\ context.body = dcs[context.run].found,
         asks' = [asks EXCEPT ![a] = get_or_create_report_narrative(slot, context)],
         requests' \in Nat, UNCHANGED <<dcs, saved, reports>>
  PROVE  AiInv'
<1> DEFINE s == Started(slot, context, "gate")
<1>1. /\ s \in SlotType /\ s.pc = "gate" /\ s.context = context
      /\ s.goal = slot.goal /\ s.run = slot.run /\ s.shown = slot.shown
      /\ s.fixes = slot.fixes /\ s.report = slot.report /\ s.named = slot.named
  BY StartedKeeps
<1>2. asks' = [asks EXCEPT ![a] = s]
  BY DEF get_or_create_report_narrative
<1> HIDE DEF s
<1>3. BriefTells(s)
  BY <1>1 DEF BriefTells, RunShown
<1>4. AttachTells(s)
  <2> SUFFICES ASSUME slot.goal = "attach", ~slot.named
               PROVE  context.body \in reports[slot.report].shown
    BY <1>1 DEF AttachTells
  <2>1. RunShown(reports[slot.report])
    BY DEF AiInv, ReportTells
  <2> QED
    BY <2>1 DEF RunShown
<1>5. SlotTells(s)
  BY <1>1, <1>3, <1>4, StartedTells
<1>6. saved' \in Seq(RowType)
  BY DEF AiInv, AiTypeOK
<1> QED
  BY <1>1, <1>2, <1>5, <1>6, SlotStep

LEMMA AskNarrativeStep ==
  ASSUME AiInv, NEW a \in Asks, NEW named \in Named,
         NEW report \in DOMAIN reports \cup {Nothing}, AskNarrative(a, named, report)
  PROVE  AiInv'
<1> DEFINE slot == [Idle EXCEPT !.goal = IF report = Nothing THEN "answer" ELSE "attach",
                                !.report = report, !.named = named # Nothing]
<1>1. PICK context \in build_report_narrative_projected(NarrativeRun(named, report)) :
        asks' = [asks EXCEPT ![a] = get_or_create_report_narrative(slot, context)]
  BY DEF AskNarrative
<1>2. Idle \in SlotType /\ FixesTell(Idle) /\ Idle.run = Nothing
  BY IdleType DEF SlotTells, Idle
<1>3. report \in Nat \cup {Nothing} /\ Nothing \notin Nat
  BY Elements, AiAssumption
<1>4. /\ slot \in SlotType /\ slot.fixes = Idle.fixes /\ slot.shown = Idle.shown
      /\ slot.run = Nothing /\ slot.goal = IF report = Nothing THEN "answer" ELSE "attach"
      /\ slot.report = report /\ slot.named = (named # Nothing)
  <2> DEFINE goal == IF report = Nothing THEN "answer" ELSE "attach"
             flag == named # Nothing
  <2>1. goal \in {"answer", "attach", "brief"} /\ flag \in BOOLEAN
    OBVIOUS
  <2>2. slot = [Idle EXCEPT !.goal = goal, !.report = report, !.named = flag]
    OBVIOUS
  <2> HIDE DEF goal, flag, slot
  <2>3. /\ slot \in SlotType /\ slot.fixes = Idle.fixes /\ slot.shown = Idle.shown
        /\ slot.run = Nothing /\ slot.goal = goal
        /\ slot.report = report /\ slot.named = flag
    BY ZenonT(60), <1>2, <1>3, <2>1, <2>2 DEF SlotType
  <2> QED
    BY <2>3 DEF goal, flag
<1> HIDE DEF slot
<1>5. FixesTell(slot) /\ BriefTells(slot)
  <2>1. slot.goal # "brief" /\ slot.pc # "brief"
    BY <1>2, <1>4 DEF Idle, slot
  <2> QED
    BY <1>2, <1>4, <2>1 DEF FixesTell, BriefTells
<1>6. /\ context \in ContextType /\ context.task = Narrative
      /\ context.body = dcs[context.run].found
      /\ NarrativeRun(named, report) # Nothing => context.run = NarrativeRun(named, report)
  BY Rollup
<1>7. slot.goal = "attach" =>
        /\ slot.report \in DOMAIN reports
        /\ ~slot.named => /\ context.run = reports[slot.report].run
                          /\ context.body = dcs[context.run].found
  <2>1. report \in DOMAIN reports => reports[report].run \in Nat
    BY Elements DEF ReportType
  <2> QED
    BY <1>3, <1>4, <1>6, <2>1 DEF NarrativeRun
<1>8. requests' \in Nat /\ UNCHANGED <<dcs, saved, reports>>
  BY DEF AskNarrative, Arrives, AiInv, AiTypeOK
<1>9. slot.goal \in {"answer", "attach"}
  BY <1>4
<1> QED
  BY <1>1, <1>4, <1>5, <1>6, <1>7, <1>8, <1>9, AttachStep

LEMMA FailOpenStep ==
  ASSUME AiInv, NEW a \in Asks, attach_report_narrative_fail_open(a)
  PROVE  AiInv'
<1> DEFINE slot == asks[a]
<1>1. PICK context \in build_report_narrative_projected(NarrativeRun(Nothing, slot.report)) :
        asks' = [asks EXCEPT ![a] = get_or_create_report_narrative(slot, context)]
  BY DEF attach_report_narrative_fail_open
<1>2. slot \in SlotType /\ SlotTells(slot) /\ slot.pc = "stored"
  BY Elements DEF AiInv, attach_report_narrative_fail_open
<1> HIDE DEF slot
<1>3. slot.goal \in {"answer", "attach"} /\ FixesTell(slot) /\ BriefTells(slot)
  BY <1>2 DEF SlotTells, BriefTells, SlotType, Working
<1>4. /\ context \in ContextType /\ context.task = Narrative
      /\ context.body = dcs[context.run].found
      /\ NarrativeRun(Nothing, slot.report) # Nothing =>
           context.run = NarrativeRun(Nothing, slot.report)
  BY Rollup
<1>5. slot.goal = "attach" =>
        slot.report \in DOMAIN reports /\ context.run = reports[slot.report].run
  <2> SUFFICES ASSUME slot.goal = "attach"
               PROVE  slot.report \in DOMAIN reports /\ context.run = reports[slot.report].run
    OBVIOUS
  <2>1. slot.report \in DOMAIN reports
    BY <1>2 DEF SlotTells, AttachTells
  <2>2. slot.report # Nothing /\ reports[slot.report].run # Nothing
    BY <2>1, Elements, AiAssumption DEF ReportType
  <2> QED
    BY <1>4, <2>1, <2>2 DEF NarrativeRun
<1>6. requests' \in Nat /\ UNCHANGED <<dcs, saved, reports>>
  BY DEF attach_report_narrative_fail_open, AiInv, AiTypeOK
<1>7. slot.goal = "attach" =>
        /\ slot.report \in DOMAIN reports
        /\ ~slot.named => /\ context.run = reports[slot.report].run
                          /\ context.body = dcs[context.run].found
  BY <1>4, <1>5
<1> QED
  BY <1>1, <1>2, <1>3, <1>4, <1>6, <1>7, AttachStep

(* ... or for the brief of a report to come.                                          *)
LEMMA ComposeStep ==
  ASSUME AiInv, NEW a \in Asks, NEW named \in Named, NEW brief \in BOOLEAN,
         Compose(a, named, brief)
  PROVE  AiInv'
<1>1. PICK r \in resolve_dcs_run_for_compose(named) :
        asks' = [asks EXCEPT ![a] =
          [Idle EXCEPT !.pc = "brief", !.run = r, !.shown = {dcs[r].found},
                       !.todo = IF brief THEN OpenIssues(dcs[r].found) ELSE {}]]
  BY DEF Compose
<1>2. r \in DOMAIN dcs
  BY <1>1 DEF resolve_dcs_run_for_compose
<1>3. r \in Nat /\ dcs[r].found \in Found
  BY <1>2, Elements DEF RunType
<1> DEFINE todo == IF brief THEN OpenIssues(dcs[r].found) ELSE {}
           s == [Idle EXCEPT !.pc = "brief", !.run = r, !.shown = {dcs[r].found}, !.todo = todo]
<1>4. todo \in SUBSET Checks
  BY DEF OpenIssues
<1>5. Idle \in SlotType /\ FixesTell(Idle) /\ Idle.goal = "answer"
  BY IdleType DEF SlotTells, Idle
<1>6. asks' = [asks EXCEPT ![a] = s]
  BY <1>1
<1> HIDE DEF todo
<1>7. /\ s \in SlotType /\ s.pc = "brief" /\ s.goal = "answer" /\ s.fixes = Idle.fixes
      /\ s.run = r /\ s.shown = {dcs[r].found}
  BY <1>3, <1>4, <1>5 DEF SlotType
<1> HIDE DEF s
<1>8. FixesTell(s)
  <2>0. Idle.fixes = [c \in Checks |-> Nothing]
    BY DEF Idle
  <2>1. \A c \in Checks : Idle.fixes[c] = Nothing
    BY <2>0
  <2> QED
    BY <1>7, <2>1 DEF FixesTell
<1>9. SlotTells(s)
  BY <1>2, <1>3, <1>7, <1>8, AiAssumption
     DEF SlotTells, Answered, BriefTells, AttachTells, RunShown, Working
<1>10. requests' \in Nat /\ saved' \in Seq(RowType) /\ UNCHANGED <<dcs, reports>>
  BY DEF Compose, Arrives, AiInv, AiTypeOK
<1> QED
  BY <1>6, <1>7, <1>9, <1>10, SlotStep

LEMMA CollectStep ==
  ASSUME AiInv, NEW a \in Asks, collect_fix_suggestions_for_report(a)
  PROVE  AiInv'
<1>1. PICK c \in asks[a].todo :
        LET slot == [asks[a] EXCEPT !.todo = asks[a].todo \ {c}]
            contexts == load_issue_for_ai(Fix, c, asks[a].run)
        IN asks' = [asks EXCEPT ![a] =
             IF contexts = {} THEN slot
             ELSE get_or_create_fix_suggestion([slot EXCEPT !.goal = "brief"],
                    CHOOSE context \in contexts : TRUE, FALSE)]
  BY DEF collect_fix_suggestions_for_report
<1> DEFINE slot == [asks[a] EXCEPT !.todo = asks[a].todo \ {c}]
           contexts == load_issue_for_ai(Fix, c, asks[a].run)
<1>2. asks[a] \in SlotType /\ SlotTells(asks[a]) /\ asks[a].pc = "brief"
  BY Elements DEF AiInv, collect_fix_suggestions_for_report
<1>3. c \in Checks
  BY <1>2 DEF SlotType
<1>4. /\ slot \in SlotType /\ slot.pc = "brief" /\ slot.goal = asks[a].goal
      /\ slot.run = asks[a].run /\ slot.shown = asks[a].shown /\ slot.fixes = asks[a].fixes
      /\ slot.report = asks[a].report /\ slot.named = asks[a].named
      /\ slot.context = asks[a].context
  BY <1>2 DEF SlotType
<1>5. asks' = [asks EXCEPT ![a] =
             IF contexts = {} THEN slot
             ELSE get_or_create_fix_suggestion([slot EXCEPT !.goal = "brief"],
                    CHOOSE context \in contexts : TRUE, FALSE)]
  BY <1>1
<1> HIDE DEF slot
<1>6. SlotTells(slot)
  BY <1>2, <1>4 DEF SlotTells, Answered, BriefTells, AttachTells, FixesTell, RunShown, Working
<1>7. /\ requests' \in Nat /\ saved' \in Seq(RowType)
      /\ UNCHANGED <<dcs, saved, reports, requests>>
  BY DEF collect_fix_suggestions_for_report, AiInv, AiTypeOK
<1>8. CASE contexts = {}
  <2>1. asks' = [asks EXCEPT ![a] = slot]
    BY <1>5, <1>8
  <2> QED
    BY <1>4, <1>6, <1>7, <2>1, SlotStep
<1>9. CASE contexts # {}
  <2>1. PICK context \in contexts : context = CHOOSE x \in contexts : TRUE
    BY <1>9
  <2>2. slot.run # Nothing /\ RunShown(slot)
    BY <1>4, <1>6 DEF SlotTells, BriefTells
  <2>3. /\ context \in ContextType /\ context.task = Fix /\ context.check = c
        /\ context.body = dcs[slot.run].found[c]
    BY <1>3, <1>4, <2>2, Issue DEF AiTasks
  <2> DEFINE ask == [slot EXCEPT !.goal = "brief"]
             begun == Started(ask, context, "soft")
             s == [begun EXCEPT !.refresh = FALSE]
  <2>4. /\ ask \in SlotType /\ ask.goal = "brief"
        /\ ask.run = slot.run /\ ask.shown = slot.shown /\ ask.fixes = slot.fixes
        /\ ask.report = slot.report /\ ask.named = slot.named
    BY <1>4 DEF SlotType
  <2>5. asks' = [asks EXCEPT ![a] = get_or_create_fix_suggestion(ask, context, FALSE)]
    BY <1>5, <1>9, <2>1
  <2> HIDE DEF ask, contexts
  <2>6. /\ begun \in SlotType /\ begun.pc = "soft" /\ begun.context = context
        /\ begun.goal = ask.goal /\ begun.run = ask.run /\ begun.shown = ask.shown
        /\ begun.fixes = ask.fixes /\ begun.report = ask.report /\ begun.named = ask.named
    BY <2>3, <2>4, StartedKeeps
  <2>7. asks' = [asks EXCEPT ![a] = s]
    BY <2>5 DEF get_or_create_fix_suggestion
  <2> HIDE DEF begun
  <2>8. /\ s \in SlotType /\ s.pc = "soft" /\ s.context = context
        /\ s.goal = ask.goal /\ s.run = ask.run /\ s.shown = ask.shown
        /\ s.fixes = ask.fixes /\ s.report = ask.report /\ s.named = ask.named
    BY <2>6 DEF SlotType
  <2> HIDE DEF s
  <2>9. BriefTells(s)
    BY <1>3, <2>2, <2>3, <2>4, <2>8 DEF BriefTells, RunShown, Working
  <2>10. AttachTells(s) /\ FixesTell(ask)
    BY <1>6, <2>4, <2>8 DEF AttachTells, SlotTells, FixesTell
  <2>11. SlotTells(s)
    BY <2>3, <2>4, <2>8, <2>9, <2>10, StartedTells
  <2> QED
    BY <1>7, <2>7, <2>8, <2>11, SlotStep
<1> QED
  BY <1>8, <1>9

LEMMA KilledStep ==
  ASSUME AiInv, NEW a \in Asks, Killed(a)
  PROVE  AiInv'
BY IdleType, SlotStep DEF Killed, AiInv, AiTypeOK

---------------------------------------------------------------------------------
(* Requests keep what they tell when reports are added, or say more.                  *)
LEMMA ReportsKeep ==
  ASSUME NEW b \in Asks, SlotTells(asks[b]), asks'[b] = asks[b], dcs' = dcs,
         \A i \in DOMAIN reports :
           /\ i \in DOMAIN reports'
           /\ reports'[i].run = reports[i].run /\ reports'[i].shown = reports[i].shown
  PROVE  SlotTells(asks[b])'
<1>1. AttachTells(asks[b])'
  BY DEF SlotTells, AttachTells
<1>2. BriefTells(asks[b])' /\ FixesTell(asks[b])' /\ Answered(asks[b])'
  BY DEF SlotTells, BriefTells, FixesTell, Answered, RunShown
<1> QED
  BY <1>1, <1>2 DEF SlotTells

LEMMA StoreStep ==
  ASSUME AiInv, NEW a \in Asks, StoreReport(a)
  PROVE  AiInv'
<1> DEFINE report == [run |-> asks[a].run, shown |-> asks[a].shown, fixes |-> asks[a].fixes,
                      narrative |-> Nothing, named |-> FALSE]
           s == [Idle EXCEPT !.pc = "stored", !.report = Len(reports) + 1, !.goal = "attach"]
<1>1. /\ asks[a] \in SlotType /\ SlotTells(asks[a]) /\ asks[a].pc = "brief"
      /\ Idle \in SlotType /\ SlotTells(Idle) /\ Idle.run = Nothing /\ Idle.fixes \in FixesType
  BY Elements, IdleType DEF AiInv, StoreReport, Briefed, Idle, SlotType
<1>2. RunShown(asks[a]) /\ FixesTell(asks[a])
  BY <1>1 DEF SlotTells, BriefTells
<1>3. report \in ReportType
  <2>1. asks[a].run \in Nat
    BY <1>2, Elements DEF RunShown
  <2> QED
    BY <1>1, <2>1 DEF ReportType, SlotType
<1>4. /\ reports' = Append(reports, report) /\ UNCHANGED <<dcs, saved, requests>>
      /\ asks' = [asks EXCEPT ![a] = s]
  BY DEF StoreReport
<1>5. /\ report.run = asks[a].run /\ report.shown = asks[a].shown
      /\ report.fixes = asks[a].fixes /\ report.narrative = Nothing
  OBVIOUS
<1> HIDE DEF report
<1>6. /\ reports' \in Seq(ReportType)
      /\ DOMAIN reports' = 1 .. Len(reports) + 1
      /\ reports'[Len(reports) + 1] = report
      /\ \A i \in DOMAIN reports : i \in DOMAIN reports' /\ reports'[i] = reports[i]
  BY <1>3, <1>4, Elements DEF AiInv, AiTypeOK
<1>7. /\ s \in SlotType /\ s.pc = "stored" /\ s.run = Nothing /\ s.fixes = Idle.fixes
      /\ s.shown = Idle.shown /\ s.goal = "attach" /\ s.report = Len(reports) + 1
  <2>1. Len(reports) + 1 \in Nat
    BY Elements
  <2> QED
    BY ZenonT(60), <1>1, <2>1 DEF SlotType
<1> HIDE DEF s
<1>8. asks'[a] = s /\ \A b \in Asks : b # a => asks'[b] = asks[b]
  BY <1>4, Elements
<1>9. SlotTells(asks[a])'
  <2>1. FixesTell(s)
    BY <1>1, <1>7 DEF SlotTells, FixesTell
  <2>2. Len(reports) + 1 \in DOMAIN reports'
    BY <1>6, Elements
  <2> QED
    BY <1>7, <1>8, <2>1, <2>2
       DEF SlotTells, Answered, BriefTells, AttachTells, FixesTell, Working
<1>10. \A b \in Asks : SlotTells(asks[b])'
  BY <1>4, <1>6, <1>8, <1>9, ReportsKeep DEF AiInv
<1>11. \A i \in DOMAIN reports' : ReportTells(reports[i])'
  <2> SUFFICES ASSUME NEW i \in DOMAIN reports'
               PROVE  ReportTells(reports[i])'
    OBVIOUS
  <2>1. CASE i \in DOMAIN reports
    BY <1>4, <1>6, <2>1 DEF AiInv, ReportTells, RunShown, NarrativeTells, FixesTell
  <2>2. CASE i = Len(reports) + 1
    BY <1>2, <1>4, <1>5, <1>6, <2>2 DEF ReportTells, RunShown, NarrativeTells, FixesTell
  <2> QED
    BY <1>6, <2>1, <2>2, Elements
<1>12. AiTypeOK'
  BY <1>4, <1>6, <1>7, Elements DEF AiInv, AiTypeOK
<1> QED
  BY <1>10, <1>11, <1>12 DEF AiInv

LEMMA DeliverStep ==
  ASSUME AiInv, NEW a \in Asks, Deliver(a)
  PROVE  AiInv'
<1> DEFINE slot == asks[a]
           fixes == IF slot.pc = "answered"
                    THEN [slot.fixes EXCEPT ![slot.context.check] = slot.answer]
                    ELSE slot.fixes
           brief == [Idle EXCEPT !.pc = "brief", !.run = slot.run, !.shown = slot.shown,
                                 !.todo = slot.todo, !.fixes = fixes]
           s == IF slot.goal # "brief" THEN Idle ELSE brief
<1>1. /\ slot \in SlotType /\ SlotTells(slot) /\ slot.pc \in {"answered", "refused"}
      /\ UNCHANGED <<dcs, saved, requests>>
  BY Elements DEF AiInv, Deliver
<1>2. /\ reports' = IF slot.goal = "attach" /\ slot.pc = "answered"
                    THEN [reports EXCEPT ![slot.report] =
                            [reports[slot.report] EXCEPT !.narrative = slot.answer,
                                                         !.named = slot.named]]
                    ELSE reports
      /\ asks' = [asks EXCEPT ![a] = s]
  BY DEF Deliver
<1>3. fixes \in FixesType
  BY <1>1 DEF SlotTells, Answered, SlotType, FixesType
<1>4. slot.goal = "brief" =>
        /\ slot.run # Nothing /\ RunShown(slot) /\ slot.context.check \in Checks
        /\ \E found \in slot.shown : slot.context.body = found[slot.context.check]
  BY <1>1 DEF SlotTells, BriefTells
<1>5. slot.goal = "brief" =>
        \A c \in Checks :
          \/ fixes[c] = Nothing \/ fixes[c].stale
          \/ \E found \in slot.shown : fixes[c].of.body = found[c]
  <2> SUFFICES ASSUME slot.goal = "brief", NEW c \in Checks
               PROVE  \/ fixes[c] = Nothing \/ fixes[c].stale
                      \/ \E found \in slot.shown : fixes[c].of.body = found[c]
    OBVIOUS
  <2>1. CASE slot.pc = "answered" /\ c = slot.context.check
    <3>1. fixes[c] = slot.answer
      BY <1>1, <2>1 DEF SlotType, FixesType
    <3>2. slot.answer \in AnswerType /\ Fits(slot.answer, slot.context)
      BY <1>1, <2>1 DEF SlotTells, Answered
    <3> QED
      BY <1>4, <2>1, <3>1, <3>2 DEF Fits, AnswerType
  <2>2. CASE ~(slot.pc = "answered" /\ c = slot.context.check)
    <3>1. fixes[c] = slot.fixes[c]
      BY <1>1, <2>2 DEF SlotType, FixesType
    <3> QED
      BY <1>1, <3>1 DEF SlotTells, FixesTell
  <2> QED
    BY <2>1, <2>2
<1>6. /\ Idle \in SlotType /\ SlotTells(Idle)
      /\ Idle.pc = "idle" /\ Idle.goal = "answer" /\ Idle.run = Nothing
  BY IdleType DEF Idle
<1> HIDE DEF fixes, slot
<1>7. /\ brief \in SlotType /\ brief.pc = "brief" /\ brief.goal = "answer"
      /\ brief.run = slot.run /\ brief.shown = slot.shown /\ brief.fixes = fixes
  BY ZenonT(60), <1>1, <1>3, <1>6 DEF SlotType
<1> HIDE DEF brief
<1>8. s \in SlotType /\ SlotTells(s)
  <2>1. CASE slot.goal = "brief"
    BY <1>4, <1>5, <1>7, <2>1
       DEF SlotTells, Answered, BriefTells, AttachTells, FixesTell, RunShown, Working
  <2>2. CASE slot.goal # "brief"
    BY <1>6, <2>2
  <2> QED
    BY <2>1, <2>2
<1> HIDE DEF s
<1>9. CASE ~(slot.goal = "attach" /\ slot.pc = "answered")
  <2>1. reports' = reports /\ requests' \in Nat /\ saved' \in Seq(RowType) /\ dcs' = dcs
    BY <1>1, <1>2, <1>9 DEF AiInv, AiTypeOK
  <2> QED
    BY <1>2, <1>8, <2>1, SlotStep
<1>10. CASE slot.goal = "attach" /\ slot.pc = "answered"
  <2> DEFINE n == slot.report
             old == reports[n]
             new == [old EXCEPT !.narrative = slot.answer, !.named = slot.named]
  <2>1. /\ n \in DOMAIN reports /\ slot.context.task = Narrative
        /\ slot.answer \in AnswerType /\ slot.answer.of = slot.context
        /\ ~slot.named => /\ slot.context.run = old.run
                          /\ slot.context.body \in old.shown
    BY <1>1, <1>10 DEF SlotTells, Answered, AttachTells, Working, Fix, Narrative
  <2>2. old \in ReportType /\ ReportTells(old)
    BY <2>1, Elements DEF AiInv
  <2>3. reports' = [reports EXCEPT ![n] = new]
    BY <1>2, <1>10
  <2> HIDE DEF n, old
  <2>4. /\ new \in ReportType /\ new.run = old.run /\ new.shown = old.shown
        /\ new.fixes = old.fixes /\ new.narrative = slot.answer /\ new.named = slot.named
    BY <1>1, <2>1, <2>2 DEF ReportType, SlotType
  <2>5. new.named \/ (new.narrative.of.run = new.run /\ new.narrative.of.body \in new.shown)
    BY <2>1, <2>4
  <2> HIDE DEF new
  <2>6. /\ DOMAIN reports' = DOMAIN reports /\ reports'[n] = new
        /\ \A i \in DOMAIN reports : i # n => reports'[i] = reports[i]
        /\ reports' \in Seq(ReportType)
    BY <2>1, <2>3, <2>4, Elements DEF AiInv, AiTypeOK
  <2>7. \A i \in DOMAIN reports :
          /\ i \in DOMAIN reports'
          /\ reports'[i].run = reports[i].run /\ reports'[i].shown = reports[i].shown
    BY <2>4, <2>6 DEF old
  <2>8. asks'[a] = s /\ \A b \in Asks : b # a => asks'[b] = asks[b]
    BY <1>2, Elements
  <2>9. SlotTells(asks[a])'
    <3>1. s.goal = "answer"
      BY <1>6, <1>10 DEF s
    <3> QED
      BY <1>1, <1>8, <2>8, <3>1
         DEF SlotTells, Answered, BriefTells, AttachTells, FixesTell, RunShown
  <2>10. \A b \in Asks : SlotTells(asks[b])'
    BY <1>1, <2>7, <2>8, <2>9, ReportsKeep DEF AiInv
  <2>11. \A i \in DOMAIN reports' : ReportTells(reports[i])'
    <3> SUFFICES ASSUME NEW i \in DOMAIN reports'
                 PROVE  ReportTells(reports[i])'
      OBVIOUS
    <3>1. CASE i = n
      BY <1>1, <2>2, <2>4, <2>5, <2>6, <3>1
         DEF ReportTells, RunShown, NarrativeTells, FixesTell
    <3>2. CASE i # n
      BY <1>1, <2>6, <3>2 DEF AiInv, ReportTells, RunShown, NarrativeTells, FixesTell
    <3> QED
      BY <3>1, <3>2
  <2>12. AiTypeOK'
    BY <1>1, <1>2, <1>8, <2>6, Elements DEF AiInv, AiTypeOK
  <2> QED
    BY <2>10, <2>11, <2>12 DEF AiInv
<1> QED
  BY <1>9, <1>10

(* A run that is scored again leaves what it found before among what has been shown. *)
LEMMA ScoreStep ==
  ASSUME AiInv, NEW r \in 1 .. Len(dcs) + 1, NEW outcome \in Outcomes, NEW at \in NextScore,
         Score(r, outcome, at)
  PROVE  AiInv'
<1> DEFINE row == [ok |-> outcome.ok, scored |-> outcome.scored, found |-> outcome.found,
                   at |-> at]
<1>1. row \in RunType /\ row.found = outcome.found /\ outcome.found \in Found
  <2>1. at \in Nat
    BY AiAssumption DEF NextScore
  <2> QED
    BY <2>1, AiAssumption DEF RunType, Found
<1>2. /\ dcs' = IF r \in DOMAIN dcs THEN [dcs EXCEPT ![r] = row] ELSE Append(dcs, row)
      /\ asks' = [a \in Asks |->
                   IF asks[a].run = r
                   THEN [asks[a] EXCEPT !.shown = asks[a].shown \cup {outcome.found}]
                   ELSE asks[a]]
      /\ reports' = [i \in DOMAIN reports |->
                      IF reports[i].run = r
                      THEN [reports[i] EXCEPT !.shown = reports[i].shown \cup {outcome.found}]
                      ELSE reports[i]]
      /\ UNCHANGED <<saved, requests>>
  BY DEF Score
<1> HIDE DEF row
<1>3. /\ dcs' \in Seq(RunType) /\ dcs'[r] = row
      /\ \A q \in DOMAIN dcs : q \in DOMAIN dcs' /\ (q # r => dcs'[q] = dcs[q])
  BY <1>1, <1>2, Elements DEF AiInv, AiTypeOK
<1>0. \A shown : \A q \in DOMAIN dcs :
        dcs[q].found \in shown =>
          /\ q \in DOMAIN dcs'
          /\ q = r => dcs'[q].found \in shown \cup {outcome.found}
          /\ q # r => dcs'[q].found \in shown
  BY <1>1, <1>3
<1>4. \A a \in Asks :
        LET x == asks[a]
            y == asks'[a]
        IN /\ y \in SlotType
           /\ y.shown = IF x.run = r THEN x.shown \cup {outcome.found} ELSE x.shown
           /\ y.pc = x.pc /\ y.context = x.context /\ y.answer = x.answer /\ y.run = x.run
           /\ y.goal = x.goal /\ y.fixes = x.fixes /\ y.report = x.report /\ y.named = x.named
  <2> SUFFICES ASSUME NEW a \in Asks
               PROVE  LET x == asks[a]
                          y == asks'[a]
                      IN /\ y \in SlotType
                         /\ y.shown = IF x.run = r THEN x.shown \cup {outcome.found}
                                                   ELSE x.shown
                         /\ y.pc = x.pc /\ y.context = x.context /\ y.answer = x.answer
                         /\ y.run = x.run /\ y.goal = x.goal /\ y.fixes = x.fixes
                         /\ y.report = x.report /\ y.named = x.named
    OBVIOUS
  <2>1. asks[a] \in SlotType
    BY Elements
  <2>2. CASE asks[a].run = r
    <3>1. asks'[a] = [asks[a] EXCEPT !.shown = asks[a].shown \cup {outcome.found}]
      BY <1>2, <2>2
    <3> QED
      BY <1>1, <2>1, <2>2, <3>1 DEF SlotType
  <2>3. CASE asks[a].run # r
    BY <1>2, <2>1, <2>3
  <2> QED
    BY <2>2, <2>3
<1>5. /\ DOMAIN reports' = DOMAIN reports /\ reports' \in Seq(ReportType)
      /\ \A i \in DOMAIN reports :
           LET x == reports[i]
               y == reports'[i]
           IN /\ y.shown = IF x.run = r THEN x.shown \cup {outcome.found} ELSE x.shown
              /\ y.run = x.run /\ y.fixes = x.fixes
              /\ y.narrative = x.narrative /\ y.named = x.named
  <2>1. ASSUME NEW i \in DOMAIN reports
        PROVE  LET x == reports[i]
                   y == reports'[i]
               IN /\ y \in ReportType
                  /\ y.shown = IF x.run = r THEN x.shown \cup {outcome.found} ELSE x.shown
                  /\ y.run = x.run /\ y.fixes = x.fixes
                  /\ y.narrative = x.narrative /\ y.named = x.named
    <3>1. reports[i] \in ReportType
      BY <2>1, Elements
    <3>2. CASE reports[i].run = r
      <4>1. reports'[i] = [reports[i] EXCEPT !.shown = reports[i].shown \cup {outcome.found}]
        BY <1>2, <2>1, <3>2
      <4> QED
        BY <1>1, <3>1, <3>2, <4>1 DEF ReportType
    <3>3. CASE reports[i].run # r
      BY <1>2, <2>1, <3>1, <3>3
    <3> QED
      BY <3>2, <3>3
  <2>2. DOMAIN reports' = 1 .. Len(reports) /\ Len(reports) \in Nat
    BY <1>2, Elements
  <2>3. reports' = [i \in 1 .. Len(reports) |-> reports'[i]]
    BY <1>2, <2>2
  <2>4. \A i \in 1 .. Len(reports) : reports'[i] \in ReportType
    BY <2>1, Elements
  <2>5. reports' \in Seq(ReportType)
    BY <2>2, <2>3, <2>4, SeqDef
  <2> QED
    BY <2>1, <2>2, <2>5, Elements
<1>6. AiTypeOK'
  <2>1. asks' \in [Asks -> SlotType]
    BY <1>2, <1>4
  <2> QED
    BY <1>2, <1>3, <1>5, <2>1 DEF AiInv, AiTypeOK
<1>7. ASSUME NEW a \in Asks PROVE SlotTells(asks[a])'
  <2>1. SlotTells(asks[a])
    BY DEF AiInv
  <2>2. (asks[a].pc \in Working => asks[a].context \in ContextType)'
        /\ (asks[a].pc = "soft" => asks[a].context.task = Fix)' /\ Answered(asks[a])'
    BY <1>4, <2>1 DEF SlotTells, Answered
  <2>3. BriefTells(asks[a])'
    <3>1. CASE asks[a].run = Nothing
      BY <1>4, <2>1, <3>1 DEF SlotTells, BriefTells
    <3>2. CASE asks[a].run # Nothing
      <4>1. RunShown(asks[a])
        BY <2>1, <3>2 DEF SlotTells, BriefTells
      <4>2. /\ asks'[a].run \in DOMAIN dcs'
            /\ dcs'[asks'[a].run].found \in asks'[a].shown
        BY <1>0, <1>4, <4>1 DEF RunShown
      <4>3. \A found \in asks[a].shown : found \in asks'[a].shown
        BY <1>4
      <4> QED
        BY <1>4, <2>1, <4>2, <4>3 DEF SlotTells, BriefTells, RunShown
    <3> QED
      BY <3>1, <3>2
  <2>4. AttachTells(asks[a])'
    BY <1>4, <1>5, <2>1 DEF SlotTells, AttachTells
  <2>5. FixesTell(asks[a])'
    BY <1>4, <2>1 DEF SlotTells, FixesTell
  <2> QED
    BY <2>2, <2>3, <2>4, <2>5 DEF SlotTells
<1>8. ASSUME NEW i \in DOMAIN reports' PROVE ReportTells(reports[i])'
  <2>1. i \in DOMAIN reports /\ ReportTells(reports[i])
    BY <1>5, <1>8 DEF AiInv
  <2>2. RunShown(reports[i])'
    BY <1>0, <1>5, <2>1 DEF ReportTells, RunShown
  <2>3. NarrativeTells(reports[i])' /\ FixesTell(reports[i])'
    BY <1>5, <2>1 DEF ReportTells, NarrativeTells, FixesTell
  <2> QED
    BY <2>2, <2>3 DEF ReportTells
<1> QED
  BY <1>6, <1>7, <1>8 DEF AiInv

LEMMA AiInitInv == ASSUME AiInit PROVE AiInv
<1>1. /\ dcs = <<>> /\ reports = <<>> /\ requests = 0
      /\ asks = [a \in Asks |-> Idle]
      /\ saved \in {<<>>} \cup {<<Legacy(c, f, v)>> : c \in Checks, f \in Findings, v \in BOOLEAN}
  BY DEF AiInit
<1>2. ASSUME NEW c \in Checks, NEW f \in Findings, NEW v \in BOOLEAN
      PROVE  Legacy(c, f, v) \in RowType
  BY DEF Legacy, RowType, Filed, ContextType, compute_fingerprint, Subjects, Bodies, AiTasks
<1>3. saved \in Seq(RowType)
  <2>1. CASE saved = <<>>
    BY <2>1
  <2>2. CASE saved # <<>>
    <3>1. saved \in {<<Legacy(c, f, v)>> : c \in Checks, f \in Findings, v \in BOOLEAN}
      BY <1>1, <2>2
    <3>2. \E c \in Checks, f \in Findings, v \in BOOLEAN : saved = <<Legacy(c, f, v)>>
      BY <3>1, SMT
    <3>3. PICK row \in RowType : saved = <<row>>
      BY <1>2, <3>2
    <3> QED
      BY <3>3
  <2> QED
    BY <2>1, <2>2
<1>4. AiTypeOK
  BY <1>1, <1>3, IdleType DEF AiTypeOK
<1>5. DOMAIN reports = {}
  BY <1>1
<1> QED
  BY <1>1, <1>4, <1>5, IdleType DEF AiInv

LEMMA AiStutter == ASSUME AiInv, UNCHANGED aiVars PROVE AiInv'
<1>1. UNCHANGED <<dcs, saved, reports, asks, requests>>
  BY DEF aiVars
<1>2. AiTypeOK'
  BY <1>1 DEF AiInv, AiTypeOK
<1>3. \A a \in Asks : SlotTells(asks[a])'
  BY <1>1 DEF AiInv, SlotTells, Answered, BriefTells, AttachTells, FixesTell, RunShown
<1>4. \A i \in DOMAIN reports' : ReportTells(reports[i])'
  BY <1>1 DEF AiInv, ReportTells, RunShown, NarrativeTells, FixesTell
<1> QED
  BY <1>2, <1>3, <1>4 DEF AiInv

LEMMA AiNextInv == ASSUME AiInv, AiNext PROVE AiInv'
<1>1. CASE Scores
  BY <1>1, ScoreStep DEF Scores
<1>2. ASSUME NEW a \in Asks, AiStep(a) PROVE AiInv'
  BY <1>2, AskFixStep, AskOtherStep, AskNarrativeStep, ComposeStep, SoftStep, GateStep,
     ModelStep, UpsertStep, CollectStep, FailOpenStep, DeliverStep DEF AiStep
<1> QED
  BY <1>1, <1>2, StoreStep, KilledStep DEF AiNext

(* Whatever requests, score runs, retries, refusals and kills come together, rows stay *)
(* filed under what they were written about, and requests and reports know their run. *)
THEOREM AiInvariance == AiSpec => []AiInv
<1>1. AiInit => AiInv
  BY AiInitInv
<1>2. AiInv /\ [AiNext]_aiVars => AiInv'
  BY AiNextInv, AiStutter
<1> QED
  BY <1>1, <1>2, PTL DEF AiSpec

---------------------------------------------------------------------------------
(* Connections of reports are connections.                                           *)
StoringOK == storing \in [Asks -> Txs \cup {None}]

LEMMA StoringInv == DeskSpec => []StoringOK
<1>1. DeskInit => StoringOK
  BY DEF DeskInit, StoringOK
<1>2. StoringOK /\ [DeskNext]_deskVars => StoringOK'
  BY DEF StoringOK, DeskNext, deskVars, Elsewhere, BeginReport, AppendComposed, CommitReport,
         AbortReport
<1> QED
  BY <1>1, <1>2, PTL DEF DeskSpec

(* The desk implements the suggestions: every step of it is one of theirs, or leaves    *)
(* them alone (CommitReport stores a report, AbortReport kills its request).           *)
THEOREM DeskImplementsSuggestions == DeskSpec => AiSpec
<1>1. DeskInit => AiInit
  BY DEF DeskInit
<1>2. [DeskNext]_deskVars => [AiNext]_aiVars
  <2> SUFFICES ASSUME DeskNext PROVE AiNext \/ UNCHANGED aiVars
    BY DEF deskVars
  <2>1. ASSUME NEW p \in Txs, Elsewhere(p) PROVE UNCHANGED aiVars
    BY <2>1 DEF Elsewhere
  <2>2. ASSUME NEW a \in Asks, NEW p \in Txs, BeginReport(a, p) PROVE UNCHANGED aiVars
    BY <2>2 DEF BeginReport
  <2>3. ASSUME NEW a \in Asks, AppendComposed(a) PROVE UNCHANGED aiVars
    BY <2>3 DEF AppendComposed
  <2>4. ASSUME NEW a \in Asks, CommitReport(a) PROVE StoreReport(a)
    BY <2>4 DEF CommitReport
  <2>5. ASSUME NEW a \in Asks, AbortReport(a) PROVE Killed(a)
    BY <2>5 DEF AbortReport
  <2> QED
    BY <2>1, <2>2, <2>3, <2>4, <2>5 DEF DeskNext, AiNext
<1> QED
  BY <1>1, <1>2, PTL DEF DeskSpec, AiSpec

(* The desk implements the audit log: the transaction of a report is one of its         *)
(* transactions, so that composing a report never breaks a chain by itself.            *)
THEOREM DeskImplementsAuditLog == DeskSpec => Spec
<1>1. DeskInit => Init
  BY DEF DeskInit
<1>2. StoringOK /\ [DeskNext]_deskVars => [Next]_vars
  <2> SUFFICES ASSUME StoringOK, DeskNext PROVE Next \/ UNCHANGED vars
    BY DEF deskVars
  <2>1. ASSUME NEW p \in Txs, Elsewhere(p) PROVE Next
    BY <2>1 DEF Elsewhere, Next
  <2>2. ASSUME NEW a \in Asks, NEW p \in Txs, BeginReport(a, p) PROVE Next
    BY <2>2 DEF BeginReport, Next
  <2>3. ASSUME NEW a \in Asks, storing[a] # None PROVE storing[a] \in Txs
    BY <2>3 DEF StoringOK
  <2>4. ASSUME NEW a \in Asks, AppendComposed(a) PROVE Next
    BY <2>3, <2>4 DEF AppendComposed, Append1, Next
  <2>5. ASSUME NEW a \in Asks, CommitReport(a) PROVE Next
    BY <2>3, <2>5 DEF CommitReport, Next
  <2>6. ASSUME NEW a \in Asks, AbortReport(a) PROVE Next
    BY <2>3, <2>6 DEF AbortReport, Next
  <2> QED
    BY <2>1, <2>2, <2>4, <2>5, <2>6 DEF DeskNext
<1> QED
  BY <1>1, <1>2, StoringInv, PTL DEF DeskSpec, Spec

---------------------------------------------------------------------------------
(* A set of places in a sequence has a last one.                                     *)
LEMMA LastPlace ==
  ASSUME NEW n \in Nat, NEW S \in SUBSET (1 .. n), S # {}
  PROVE  \E m \in S : \A j \in S : j <= m
<1> DEFINE T == {n - i : i \in S}
           R == {r \in Nat \X Nat : r[1] < r[2]}
<1>1. IsWellFoundedOn(R, Nat)
  <2>1. OpToRel(<, Nat) = R
    BY DEF OpToRel
  <2> HIDE DEF R
  <2> QED
    BY <2>1, NatLessThanWellFounded, Zenon
<1>2. T \subseteq Nat /\ T # {}
  <2>1. \A i \in S : n - i \in Nat
    OBVIOUS
  <2>2. PICK i \in S : TRUE
    OBVIOUS
  <2>3. n - i \in T
    OBVIOUS
  <2> QED
    BY <2>1, <2>3
<1>3. PICK x \in T : \A y \in T : <<y, x>> \notin R
  <2> HIDE DEF T, R
  <2> QED
    BY <1>1, <1>2, WFMin
<1>4. PICK m \in S : x = n - m
  OBVIOUS
<1>5. ASSUME NEW j \in S PROVE j <= m
  <2>1. n - j \in T
    OBVIOUS
  <2>2. ~ (n - j < x)
    BY <1>2, <1>3, <2>1
  <2> QED
    BY <1>4, <2>2
<1> QED
  BY <1>5

(* The soft path finds a suggestion if there is one.                                 *)
LEMMA SoftFinds ==
  ASSUME AiInv, NEW context \in ContextType, Told(context)
  PROVE  \/ _first_valid_soft(Hashed(context)) # {}
         \/ _first_valid_soft(BlankRows(context.check)) # {}
<1>1. PICK i \in DOMAIN saved :
        /\ saved[i].task = Fix /\ saved[i].valid
        /\ saved[i].of.check = context.check /\ saved[i].of.body = context.body
  BY DEF Told
<1>2. saved[i] \in RowType /\ Filed(saved[i])
  BY Elements DEF RowType
<1>3. i \in FixRows(context.check)
  BY <1>1, <1>2 DEF Filed, FixRows
<1>4. \/ saved[i].content_hash = Blank
      \/ saved[i].content_hash = compute_fix_content_hash(context)
  BY <1>1, <1>2 DEF Filed, compute_fix_content_hash
<1>5. ASSUME NEW rows \in SUBSET DOMAIN saved, i \in rows
      PROVE  _first_valid_soft(rows) # {}
  <2> DEFINE S == {j \in rows : _valid_fix_payload(j)}
  <2>1. DOMAIN saved = 1 .. Len(saved) /\ Len(saved) \in Nat
    BY DEF AiInv, AiTypeOK
  <2>2. S \in SUBSET (1 .. Len(saved)) /\ i \in S
    BY <1>1, <1>5, <2>1 DEF _valid_fix_payload
  <2>3. PICK m \in S : \A j \in S : j <= m
    <3> HIDE DEF S
    <3> QED
      BY <2>1, <2>2, LastPlace
  <2>4. m \in _first_valid_soft(rows)
    BY <2>3 DEF _first_valid_soft
  <2> QED
    BY <2>4
<1>6. /\ Hashed(context) \in SUBSET DOMAIN saved
      /\ BlankRows(context.check) \in SUBSET DOMAIN saved
  BY DEF Hashed, BlankRows, FixRows
<1>7. i \in Hashed(context) \/ i \in BlankRows(context.check)
  BY <1>3, <1>4 DEF Hashed, BlankRows
<1> QED
  BY <1>5, <1>6, <1>7

(* Writing a row over leaves a finding told that was.                                *)
LEMMA ToldStays ==
  ASSUME AiInv, NEW a \in Asks, upsert_ai_suggestion(a), NEW context, Told(context)
  PROVE  Told(context)'
<1> DEFINE new == Upserted(asks[a].context)
           old == get_cached_suggestion(asks[a].context)
           k == CHOOSE i \in old : TRUE
           others == IF old = {} THEN saved ELSE RemoveAt(saved, k)
<1>1. /\ saved \in Seq(RowType) /\ DOMAIN saved = 1 .. Len(saved) /\ Len(saved) \in Nat
      /\ asks[a].context \in ContextType
  BY DEF AiInv, AiTypeOK, SlotTells, upsert_ai_suggestion, Working
<1>2. new \in RowType /\ new.of = asks[a].context /\ new.valid
  BY <1>1, UpsertedType DEF Upserted
<1>3. saved' = Append(others, new)
  BY DEF upsert_ai_suggestion
<1>4. PICK i \in DOMAIN saved :
        /\ saved[i].task = Fix /\ saved[i].valid
        /\ saved[i].of.check = context.check /\ saved[i].of.body = context.body
  BY DEF Told
<1> HIDE DEF new
<1>5. CASE old = {}
  <2>1. saved' = Append(saved, new)
    BY <1>3, <1>5
  <2>2. i \in DOMAIN saved' /\ saved'[i] = saved[i]
    BY <1>1, <1>2, <2>1
  <2> QED
    BY <1>4, <2>2 DEF Told
<1>6. CASE old # {}
  <2>1. k \in DOMAIN saved /\ saved[k].fingerprint = compute_fingerprint(asks[a].context)
    <3>1. k \in old
      BY <1>6
    <3> QED
      BY <3>1 DEF get_cached_suggestion
  <2> HIDE DEF k
  <2>2. RemoveAt(saved, k) \in Seq(RowType)
    BY <1>1, <2>1, RemoveAtType
  <2>3. saved' = Append(RemoveAt(saved, k), new)
    BY <1>3, <1>6
  <2>4. CASE i = k
    <3>1. Filed(saved[i]) /\ Filed(new) /\ saved[i] \in RowType
      BY <1>1, <1>2 DEF RowType
    <3>2. compute_fingerprint(saved[i].of) = compute_fingerprint(new.of)
      BY <1>2, <2>1, <2>4, <3>1 DEF Filed
    <3>3. /\ new.of.task = saved[i].of.task /\ new.of.check = saved[i].of.check
          /\ new.of.body = saved[i].of.body
      BY <3>2 DEF compute_fingerprint
    <3>4. /\ new.task = Fix /\ new.valid
          /\ new.of.check = context.check /\ new.of.body = context.body
      BY <1>2, <1>4, <3>1, <3>3 DEF Filed
    <3>5. /\ Len(RemoveAt(saved, k)) + 1 \in DOMAIN saved'
          /\ saved'[Len(RemoveAt(saved, k)) + 1] = new
      BY <1>2, <2>2, <2>3
    <3> QED
      BY <3>4, <3>5 DEF Told
  <2>5. CASE i # k
    <3> DEFINE j == IF i < k THEN i ELSE i - 1
    <3>0. /\ Len(RemoveAt(saved, k)) = Len(saved) - 1
          /\ \A n \in 1 .. Len(saved) - 1 :
               RemoveAt(saved, k)[n] = IF n < k THEN saved[n] ELSE saved[n + 1]
      BY <1>1, <2>1, RemoveAtType
    <3>1. /\ Len(RemoveAt(saved, k)) = Len(saved) - 1
          /\ j \in 1 .. Len(saved) - 1 /\ RemoveAt(saved, k)[j] = saved[i]
      <4>1. i \in 1 .. Len(saved) /\ k \in 1 .. Len(saved)
        BY <1>1, <2>1
      <4>2. CASE i < k
        BY <1>1, <3>0, <4>1, <4>2
      <4>3. CASE k < i
        <5>1. j = i - 1 /\ j \in 1 .. Len(saved) - 1 /\ ~(j < k) /\ j + 1 = i
          BY <1>1, <4>1, <4>3
        <5> HIDE DEF j
        <5> QED
          BY <3>0, <5>1
      <4> QED
        BY <2>5, <4>1, <4>2, <4>3
    <3>2. j \in DOMAIN saved' /\ saved'[j] = saved[i]
      BY <1>2, <2>2, <2>3, <3>1
    <3> HIDE DEF j
    <3> QED
      BY <1>4, <3>2 DEF Told
  <2> QED
    BY <2>4, <2>5
<1> QED
  BY <1>5, <1>6

(* A step keeps what is told, apart from the request it is about.                     *)
LEMMA ReuseStep ==
  ASSUME AiInv, ReuseInv, NEW a \in Asks, NEW slot, Reuses(slot),
         asks' = [asks EXCEPT ![a] = slot],
         saved' = saved \/ (upsert_ai_suggestion(a) /\ slot.pc = "answered")
  PROVE  ReuseInv'
<1>1. asks'[a] = slot /\ \A b \in Asks : b # a => asks'[b] = asks[b]
  BY Elements
<1>2. ASSUME NEW b \in Asks, b # a PROVE Reuses(asks[b])'
  <2>1. Reuses(asks[b])
    BY DEF ReuseInv
  <2>2. Told(asks[b].context) => Told(asks[b].context)'
    <3>1. asks'[b] = asks[b]
      BY <1>1, <1>2
    <3>2. CASE saved' = saved
      BY <3>1, <3>2 DEF Told
    <3>3. CASE upsert_ai_suggestion(a)
      <4>1. \A context : Told(context) =>
              \E i \in DOMAIN saved' :
                /\ saved'[i].task = Fix /\ saved'[i].valid
                /\ saved'[i].of.check = context.check /\ saved'[i].of.body = context.body
        BY <3>3, ToldStays DEF Told
      <4> QED
        BY <3>1, <4>1 DEF Told
    <3> QED
      BY <3>2, <3>3
  <2> QED
    BY <1>1, <1>2, <2>1, <2>2 DEF Reuses
<1>3. Reuses(asks[a])'
  <2>1. CASE saved' = saved
    BY <1>1, <2>1 DEF Reuses, Told
  <2>2. CASE slot.pc = "answered"
    BY <1>1, <2>2 DEF Reuses
  <2> QED
    BY <2>1, <2>2
<1> QED
  BY <1>2, <1>3 DEF ReuseInv

(* A request that has begun to look has not looked yet, or was told to renew.         *)
LEMMA StartReuses ==
  ASSUME NEW slot \in SlotType, NEW context \in ContextType, NEW refresh \in BOOLEAN
  PROVE  /\ Reuses(get_or_create_fix_suggestion(slot, context, refresh))
         /\ context.task # Fix => Reuses(Started(slot, context, "gate"))
<1> DEFINE s == get_or_create_fix_suggestion(slot, context, refresh)
           t == Started(slot, context, "gate")
<1>1. Told(context) \in BOOLEAN
  BY Zenon DEF Told
<1>2. /\ s.pc = IF refresh THEN "gate" ELSE "soft"
      /\ s.context = context /\ s.refresh = refresh /\ s.had = Told(context)
  BY <1>1 DEF get_or_create_fix_suggestion, Started, SlotType
<1>3. t.pc = "gate" /\ t.context = context
  BY <1>1 DEF Started, SlotType
<1> HIDE DEF s, t
<1>4. Reuses(s)
  <2>1. CASE refresh
    BY <1>2, <2>1 DEF Reuses
  <2>2. CASE ~refresh
    BY <1>2, <2>2 DEF Reuses
  <2> QED
    BY <2>1, <2>2
<1>5. context.task # Fix => Reuses(t)
  BY <1>3 DEF Reuses
<1> QED
  BY <1>4, <1>5 DEF s, t

LEMMA ReuseNext ==
  ASSUME AiInv, ReuseInv, AiNext
  PROVE  ReuseInv'
<1>1. ASSUME NEW a \in Asks, NEW slot, asks' = [asks EXCEPT ![a] = slot], saved' = saved,
             slot.pc \notin {"soft", "gate", "model", "save"}
      PROVE  ReuseInv'
  BY <1>1, ReuseStep DEF Reuses
<1>2. Idle \in SlotType /\ Idle.pc = "idle"
  BY IdleType DEF Idle
<1>3. CASE Scores
  <2>1. PICK r \in 1 .. Len(dcs) + 1, outcome \in Outcomes, at \in NextScore :
          Score(r, outcome, at)
    BY <1>3 DEF Scores
  <2>2. saved' = saved
    BY <2>1 DEF Score
  <2>3. ASSUME NEW a \in Asks
        PROVE  /\ asks'[a].pc = asks[a].pc /\ asks'[a].context = asks[a].context
               /\ asks'[a].refresh = asks[a].refresh /\ asks'[a].had = asks[a].had
    <3>1. asks[a] \in SlotType
      BY Elements
    <3>2. asks'[a] = IF asks[a].run = r
                     THEN [asks[a] EXCEPT !.shown = asks[a].shown \cup {outcome.found}]
                     ELSE asks[a]
      BY <2>1 DEF Score
    <3> QED
      BY <3>1, <3>2 DEF SlotType
  <2> QED
    BY <2>2, <2>3 DEF ReuseInv, Reuses, Told
<1>4. ASSUME NEW a \in Asks, NEW c \in Checks, NEW named \in Named, NEW refresh \in BOOLEAN,
             AskFix(a, c, named, refresh)
      PROVE  ReuseInv'
  <2>1. PICK context \in load_issue_for_ai(Fix, c, named) :
          asks' = [asks EXCEPT ![a] = get_or_create_fix_suggestion(Idle, context, refresh)]
    BY <1>4 DEF AskFix
  <2>2. context \in ContextType
    BY Issue DEF AiTasks
  <2>3. saved' = saved
    BY <1>4 DEF AskFix, Arrives
  <2> QED
    BY <1>2, <2>1, <2>2, <2>3, StartReuses, ReuseStep
<1>5. ASSUME NEW a \in Asks, NEW c \in Checks, NEW named \in Named,
             AskExplain(a, c, named) \/ AskBlurb(a, c, named)
      PROVE  ReuseInv'
  <2>1. PICK task \in AiTasks \ {Fix} :
          \E context \in load_issue_for_ai(task, c, named) :
            asks' = [asks EXCEPT ![a] = Started(Idle, context, "gate")]
    BY <1>5 DEF AskExplain, AskBlurb, get_or_create_explain_finding, get_or_create_nba_blurb,
                AiTasks, Fix
  <2>2. PICK context \in load_issue_for_ai(task, c, named) :
          asks' = [asks EXCEPT ![a] = Started(Idle, context, "gate")]
    BY <2>1
  <2>3. context \in ContextType /\ context.task # Fix
    BY Issue
  <2>4. saved' = saved
    BY <1>5 DEF AskExplain, AskBlurb, Arrives
  <2>5. Reuses(Started(Idle, context, "gate"))
    BY <1>2, <2>3, StartReuses
  <2> QED
    BY <2>2, <2>4, <2>5, ReuseStep
<1>6. ASSUME NEW a \in Asks, NEW slot \in SlotType, NEW named,
             NEW context \in build_report_narrative_projected(named), saved' = saved,
             asks' = [asks EXCEPT ![a] = get_or_create_report_narrative(slot, context)]
      PROVE  ReuseInv'
  <2>1. context \in ContextType /\ context.task # Fix
    BY Rollup DEF Fix, Narrative
  <2>2. Reuses(Started(slot, context, "gate"))
    BY <2>1, StartReuses
  <2> QED
    BY <1>6, <2>2, ReuseStep DEF get_or_create_report_narrative
<1>7. ASSUME NEW a \in Asks, NEW named \in Named, NEW report \in DOMAIN reports \cup {Nothing},
             AskNarrative(a, named, report)
      PROVE  ReuseInv'
  <2> DEFINE slot == [Idle EXCEPT !.goal = IF report = Nothing THEN "answer" ELSE "attach",
                                  !.report = report, !.named = named # Nothing]
  <2>1. PICK context \in build_report_narrative_projected(NarrativeRun(named, report)) :
          asks' = [asks EXCEPT ![a] = get_or_create_report_narrative(slot, context)]
    BY <1>7 DEF AskNarrative
  <2>2. slot \in SlotType
    <3> DEFINE goal == IF report = Nothing THEN "answer" ELSE "attach"
               flag == named # Nothing
    <3>1. goal \in {"answer", "attach", "brief"} /\ flag \in BOOLEAN
      OBVIOUS
    <3>2. report \in Nat \cup {Nothing}
      BY Elements
    <3>3. slot = [Idle EXCEPT !.goal = goal, !.report = report, !.named = flag]
      OBVIOUS
    <3> HIDE DEF goal, flag, slot
    <3> QED
      BY <1>2, <3>1, <3>2, <3>3 DEF SlotType
  <2>3. saved' = saved
    BY <1>7 DEF AskNarrative, Arrives
  <2> HIDE DEF slot
  <2> QED
    BY <1>6, <2>1, <2>2, <2>3
<1>8. ASSUME NEW a \in Asks, attach_report_narrative_fail_open(a)
      PROVE  ReuseInv'
  <2>1. PICK context \in
          build_report_narrative_projected(NarrativeRun(Nothing, asks[a].report)) :
            asks' = [asks EXCEPT ![a] = get_or_create_report_narrative(asks[a], context)]
    BY <1>8 DEF attach_report_narrative_fail_open
  <2>2. asks[a] \in SlotType /\ saved' = saved
    BY <1>8, Elements DEF attach_report_narrative_fail_open
  <2> QED
    BY <1>6, <2>1, <2>2
<1>9. ASSUME NEW a \in Asks, saved' = saved, Reuses(asks[a]), asks[a].pc \in {"gate", "model"},
             NEW slot, asks' = [asks EXCEPT ![a] = slot],
             slot.pc \in {"gate", "model", "save"}, slot.context = asks[a].context,
             slot.refresh = asks[a].refresh, slot.had = asks[a].had
      PROVE  ReuseInv'
  <2>1. Reuses(slot)
    BY <1>9 DEF Reuses
  <2> QED
    BY <1>9, <2>1, ReuseStep
<1>10. ASSUME NEW a \in Asks
       PROVE  Reuses(asks[a]) /\ asks[a] \in SlotType /\ SlotTells(asks[a])
  BY Elements DEF ReuseInv, AiInv
<1>11. ASSUME NEW a \in Asks, _soft_fix_suggestion_or_none(a) PROVE ReuseInv'
  <2> DEFINE context == asks[a].context
             matched == _first_valid_soft(Hashed(context))
             legacy == _first_valid_soft(BlankRows(context.check))
             gated == [asks[a] EXCEPT !.pc = "gate"]
  <2>1. asks[a].pc = "soft" /\ context \in ContextType /\ saved' = saved
    BY <1>10, <1>11 DEF _soft_fix_suggestion_or_none, SlotTells, Working
  <2>2. CASE matched \cup legacy = {}
    <3>1. ~Told(context)
      BY <2>1, <2>2, SoftFinds
    <3>2. /\ gated.pc = "gate" /\ gated.context = asks[a].context
          /\ gated.refresh = asks[a].refresh /\ gated.had = asks[a].had
      BY <1>10 DEF SlotType
    <3>3. asks' = [asks EXCEPT ![a] = gated]
      BY <1>11, <2>2 DEF _soft_fix_suggestion_or_none
    <3>4. asks[a].had \in BOOLEAN /\ (asks[a].had => Told(context))
      BY <1>10, <2>1 DEF Reuses, SlotType
    <3> HIDE DEF gated
    <3>5. Reuses(gated)
      BY <2>1, <3>1, <3>2, <3>4 DEF Reuses
    <3> QED
      BY <2>1, <3>3, <3>5, ReuseStep
  <2>3. CASE matched \cup legacy # {}
    <3> DEFINE answer == IF matched # {}
                         THEN Answer(saved[CHOOSE i \in matched : TRUE], FALSE)
                         ELSE Answer(saved[CHOOSE i \in legacy : TRUE], TRUE)
               told == [asks[a] EXCEPT !.pc = "answered", !.answer = answer]
    <3>1. asks' = [asks EXCEPT ![a] = told]
      BY <1>11, <2>3 DEF _soft_fix_suggestion_or_none
    <3> HIDE DEF answer
    <3>2. told.pc = "answered"
      BY <1>10 DEF SlotType
    <3> HIDE DEF told
    <3> QED
      BY <1>1, <2>1, <3>1, <3>2
  <2> QED
    BY <2>2, <2>3
<1>12. ASSUME NEW a \in Asks, GateAndCache(a) PROVE ReuseInv'
  <2> DEFINE cached == {i \in get_cached_suggestion(asks[a].context) :
                          saved[i].valid /\ ~asks[a].refresh}
             refused == [asks[a] EXCEPT !.pc = "refused"]
             model == [asks[a] EXCEPT !.pc = "model"]
             answer == Answer(saved[CHOOSE i \in cached : TRUE], FALSE)
             told == [asks[a] EXCEPT !.pc = "answered", !.answer = answer]
  <2>1. /\ asks[a].pc = "gate" /\ saved' = saved
        /\ \/ asks' = [asks EXCEPT ![a] = refused]
           \/ asks' = [asks EXCEPT ![a] = model]
           \/ asks' = [asks EXCEPT ![a] = told]
    BY <1>12 DEF GateAndCache
  <2> HIDE DEF answer
  <2>2. /\ refused.pc = "refused" /\ told.pc = "answered"
        /\ model.pc = "model" /\ model.context = asks[a].context
        /\ model.refresh = asks[a].refresh /\ model.had = asks[a].had
    BY <1>10 DEF SlotType
  <2> HIDE DEF refused, model, told
  <2>3. CASE asks' = [asks EXCEPT ![a] = refused]
    BY <1>1, <2>1, <2>2, <2>3
  <2>4. CASE asks' = [asks EXCEPT ![a] = model]
    BY <1>9, <1>10, <2>1, <2>2, <2>4
  <2>5. CASE asks' = [asks EXCEPT ![a] = told]
    BY <1>1, <2>1, <2>2, <2>5
  <2> QED
    BY <2>1, <2>3, <2>4, <2>5
<1>13. ASSUME NEW a \in Asks, complete_json(a) PROVE ReuseInv'
  <2> DEFINE save == [asks[a] EXCEPT !.pc = "save"]
             again == [asks[a] EXCEPT !.tries = asks[a].tries + 1]
             refused == [asks[a] EXCEPT !.pc = "refused"]
  <2>1. /\ asks[a].pc = "model" /\ saved' = saved
        /\ \/ asks' = [asks EXCEPT ![a] = save]
           \/ asks' = [asks EXCEPT ![a] = again]
           \/ asks' = [asks EXCEPT ![a] = refused]
    BY <1>13 DEF complete_json
  <2>2. /\ refused.pc = "refused" /\ save.pc = "save" /\ again.pc = "model"
        /\ save.context = asks[a].context /\ again.context = asks[a].context
        /\ save.refresh = asks[a].refresh /\ save.had = asks[a].had
        /\ again.refresh = asks[a].refresh /\ again.had = asks[a].had
    BY <1>10, <2>1 DEF SlotType
  <2> HIDE DEF refused, save, again
  <2>3. CASE asks' = [asks EXCEPT ![a] = save]
    BY <1>9, <1>10, <2>1, <2>2, <2>3
  <2>4. CASE asks' = [asks EXCEPT ![a] = again]
    BY <1>9, <1>10, <2>1, <2>2, <2>4
  <2>5. CASE asks' = [asks EXCEPT ![a] = refused]
    BY <1>1, <2>1, <2>2, <2>5
  <2> QED
    BY <2>1, <2>3, <2>4, <2>5
<1>14. ASSUME NEW a \in Asks, upsert_ai_suggestion(a) PROVE ReuseInv'
  <2> DEFINE answer == Answer(Upserted(asks[a].context), FALSE)
             told == [asks[a] EXCEPT !.pc = "answered", !.answer = answer]
  <2>1. asks' = [asks EXCEPT ![a] = told]
    BY <1>14 DEF upsert_ai_suggestion
  <2> HIDE DEF answer
  <2>2. told.pc = "answered"
    BY <1>10 DEF SlotType
  <2> HIDE DEF told
  <2>3. Reuses(told)
    BY <2>2 DEF Reuses
  <2> QED
    BY <1>14, <2>1, <2>2, <2>3, ReuseStep
<1>15. ASSUME NEW a \in Asks, NEW named \in Named, NEW brief \in BOOLEAN,
              Compose(a, named, brief)
       PROVE  ReuseInv'
  <2>1. PICK r \in resolve_dcs_run_for_compose(named) :
          asks' = [asks EXCEPT ![a] =
            [Idle EXCEPT !.pc = "brief", !.run = r, !.shown = {dcs[r].found},
                         !.todo = IF brief THEN OpenIssues(dcs[r].found) ELSE {}]]
    BY <1>15 DEF Compose
  <2> DEFINE todo == IF brief THEN OpenIssues(dcs[r].found) ELSE {}
             slot == [Idle EXCEPT !.pc = "brief", !.run = r, !.shown = {dcs[r].found},
                                  !.todo = todo]
  <2>2. asks' = [asks EXCEPT ![a] = slot]
    BY <2>1
  <2> HIDE DEF todo
  <2>3. slot.pc = "brief"
    BY <1>2 DEF SlotType
  <2>4. saved' = saved
    BY <1>15 DEF Compose, Arrives
  <2> HIDE DEF slot
  <2> QED
    BY <1>1, <2>2, <2>3, <2>4
<1>16. ASSUME NEW a \in Asks, collect_fix_suggestions_for_report(a) PROVE ReuseInv'
  <2>1. PICK c \in asks[a].todo :
          LET slot == [asks[a] EXCEPT !.todo = asks[a].todo \ {c}]
              contexts == load_issue_for_ai(Fix, c, asks[a].run)
          IN asks' = [asks EXCEPT ![a] =
               IF contexts = {} THEN slot
               ELSE get_or_create_fix_suggestion([slot EXCEPT !.goal = "brief"],
                      CHOOSE context \in contexts : TRUE, FALSE)]
    BY <1>16 DEF collect_fix_suggestions_for_report
  <2> DEFINE slot == [asks[a] EXCEPT !.todo = asks[a].todo \ {c}]
             contexts == load_issue_for_ai(Fix, c, asks[a].run)
             ask == [slot EXCEPT !.goal = "brief"]
  <2>2. c \in Checks /\ asks[a].pc = "brief" /\ saved' = saved
    BY <1>10, <1>16 DEF SlotType, collect_fix_suggestions_for_report
  <2>3. slot \in SlotType /\ slot.pc = "brief"
    BY <1>10, <2>2 DEF SlotType
  <2>4. asks' = [asks EXCEPT ![a] =
               IF contexts = {} THEN slot
               ELSE get_or_create_fix_suggestion(ask, CHOOSE context \in contexts : TRUE, FALSE)]
    BY <2>1
  <2> HIDE DEF slot
  <2>5. ask \in SlotType
    BY <2>3 DEF SlotType
  <2> HIDE DEF ask
  <2>6. CASE contexts = {}
    <3>1. asks' = [asks EXCEPT ![a] = slot]
      BY <2>4, <2>6
    <3> QED
      BY <1>1, <2>2, <2>3, <3>1
  <2>7. CASE contexts # {}
    <3>1. PICK context \in contexts : context = CHOOSE x \in contexts : TRUE
      BY <2>7
    <3>2. context \in ContextType
      BY <2>2, Issue DEF AiTasks
    <3>3. asks' = [asks EXCEPT ![a] = get_or_create_fix_suggestion(ask, context, FALSE)]
      BY <2>4, <2>7, <3>1
    <3>4. Reuses(get_or_create_fix_suggestion(ask, context, FALSE))
      BY <2>5, <3>2, StartReuses
    <3> QED
      BY <2>2, <3>3, <3>4, ReuseStep
  <2> QED
    BY <2>6, <2>7
<1>17. ASSUME NEW a \in Asks, Deliver(a) PROVE ReuseInv'
  <2> DEFINE fixes == IF asks[a].pc = "answered"
                      THEN [asks[a].fixes EXCEPT ![asks[a].context.check] = asks[a].answer]
                      ELSE asks[a].fixes
             brief == [Idle EXCEPT !.pc = "brief", !.run = asks[a].run, !.shown = asks[a].shown,
                                   !.todo = asks[a].todo, !.fixes = fixes]
             slot == IF asks[a].goal # "brief" THEN Idle ELSE brief
  <2>1. asks' = [asks EXCEPT ![a] = slot] /\ saved' = saved
    BY <1>17 DEF Deliver
  <2> HIDE DEF fixes
  <2>2. brief.pc = "brief"
    BY <1>2 DEF SlotType
  <2>3. slot.pc \in {"idle", "brief"}
    BY <1>2, <2>2
  <2> HIDE DEF slot
  <2> QED
    BY <1>1, <2>1, <2>3
<1>18. ASSUME NEW a \in Asks, StoreReport(a) PROVE ReuseInv'
  <2> DEFINE slot == [Idle EXCEPT !.pc = "stored", !.report = Len(reports) + 1,
                                  !.goal = "attach"]
  <2>1. asks' = [asks EXCEPT ![a] = slot] /\ saved' = saved
    BY <1>18 DEF StoreReport
  <2>2. slot.pc = "stored"
    BY <1>2 DEF SlotType
  <2> HIDE DEF slot
  <2> QED
    BY <1>1, <2>1, <2>2
<1>19. ASSUME NEW a \in Asks, Killed(a) PROVE ReuseInv'
  <2>1. asks' = [asks EXCEPT ![a] = Idle] /\ saved' = saved
    BY <1>19 DEF Killed
  <2> QED
    BY <1>1, <1>2, <2>1
<1>20. ASSUME NEW a \in Asks, AiStep(a) PROVE ReuseInv'
  BY <1>4, <1>5, <1>7, <1>8, <1>11, <1>12, <1>13, <1>14, <1>15, <1>16, <1>17, <1>20 DEF AiStep
<1> QED
  BY <1>3, <1>18, <1>19, <1>20 DEF AiNext

(* A finding for which a suggestion is saved when a request loads it does not reach the *)
(* model, however many requests write rows meanwhile, unless it is to be renewed.       *)
THEOREM FixesAreReusedHolds == DeskSpec => []FixesAreReused
<1>1. AiInit => ReuseInv
  BY IdleType DEF AiInit, ReuseInv, Reuses, Idle
<1>2. AiInv /\ ReuseInv /\ [AiNext]_aiVars => ReuseInv'
  <2>1. ASSUME AiInv, ReuseInv, UNCHANGED aiVars PROVE ReuseInv'
    BY <2>1 DEF aiVars, ReuseInv, Reuses, Told
  <2> QED
    BY <2>1, ReuseNext
<1>3. ReuseInv => FixesAreReused
  BY DEF ReuseInv, Reuses, FixesAreReused
<1> QED
  BY <1>1, <1>2, <1>3, AiInvariance, DeskImplementsSuggestions, PTL DEF AiSpec

---------------------------------------------------------------------------------
(* A suggestion that is not marked stale was written about the finding it is shown    *)
(* for, with any number of checks, findings, runs and requests.                       *)
THEOREM AnswersFitTheFindingHolds == DeskSpec => []AnswersFitTheFinding
<1>1. AiInv => AnswersFitTheFinding
  BY DEF AiInv, SlotTells, Answered, AnswersFitTheFinding
<1> QED
  BY <1>1, AiInvariance, DeskImplementsSuggestions, PTL

(* Narrative and brief of a stored report are about findings that its run had since    *)
(* the report was begun, however often the run is scored again meanwhile.             *)
THEOREM ReportsTellOneStoryHolds == DeskSpec => []ReportsTellOneStory
<1>1. AiInv => ReportsTellOneStory
  BY DEF AiInv, ReportTells, ReportsTellOneStory
<1> QED
  BY <1>1, AiInvariance, DeskImplementsSuggestions, PTL

(* Reports that are stored while others append leave a chain whose broken links point  *)
(* at appends that overlapped.                                                        *)
THEOREM DeskBreaksNeedOverlap == DeskSpec => []BreaksNeedOverlap
  BY BreaksNeedOverlapHolds, DeskImplementsAuditLog, PTL

=================================================================================
