---------------------------- MODULE ConnectorBootstrapProofs ----------------------------
(* Proofs about ConnectorBootstrap, for any number of requests, workers, runs,          *)
(* credentials and faults.                                                              *)
EXTENDS ConnectorBootstrap, TLAPS

At(pc) == pc \notin {"idle", "claim", "done"}

Live(status) == status \in {"pending", "running"}

LEMMA InitInv == ASSUME Init PROVE IInv
<1>1. <<>> \in [{} -> MetaType] /\ {} \in SUBSET Runs
  OBVIOUS
<1>2. /\ <<>> \in UNION {[S -> MetaType] : S \in SUBSET Runs}
      /\ 0 \in Creds
  <2>1. <<>> \in UNION {[S -> MetaType] : S \in SUBSET Runs}
    BY <1>1, Zenon
  <2>2. 0 \in Creds
    BY BootstrapAssumption DEF Creds
  <2> QED
    BY <2>1, <2>2
<1>3. Away \in CallerType
  BY <1>2 DEF Away, CallerType
<1>4. TypeOK
  BY <1>2, <1>3, BootstrapAssumption
     DEF Init, TypeOK, RunType, NoRun, Bare, MetaType, ConnectorType, Free, WorkerType
<1>5. RunsInHand /\ OneImporter /\ Progress /\ SucceededWhole /\ LoadedIsOwed /\ OthersAreNew
      /\ ReconnectUsesItsCredentials
  BY DEF Init, RunsInHand, OneImporter, Progress, SucceededWhole, LoadedIsOwed, OthersAreNew,
         ReconnectUsesItsCredentials, Importing, Loaded, Row, IsActive, NoRun, Free, Away
<1>6. CredsGrow
  BY BootstrapAssumption DEF Init, CredsGrow, Away, NoRun
<1> QED
  BY <1>4, <1>5, <1>6 DEF IInv

LEMMA StutterInv == ASSUME IInv, UNCHANGED vars PROVE IInv'
  BY DEF vars, IInv, TypeOK, RunsInHand, OneImporter, Progress, SucceededWhole, CredsGrow,
         LoadedIsOwed, OthersAreNew, ReconnectUsesItsCredentials, Importing, Loaded, Row,
         IsActive

(* A step of a task: it changes the row of its run, or not, and moves on.               *)
LEMMA TaskStep ==
  ASSUME IInv,
         NEW w \in Workers, worker[w].pc # "idle",
         NEW rec \in WorkerType, NEW row \in RunType,
         worker' = [worker EXCEPT ![w] = rec],
         runs' = [runs EXCEPT ![worker[w].run] = row],
         connector' \in ConnectorType,
         connector'.row = connector.row, connector'.creds = connector.creds,
         UNCHANGED <<queue, caller, faults>>,
         rec.run = worker[w].run, rec.pc # "idle",
         row = Row(w) \/ Importing(w) \/ Row(w).status = "pending",
         At(rec.pc) => Importing(w) \/ Row(w).status = "pending",
         At(rec.pc) => row.status # "pending",
         row.status # "absent", Live(row.status) => Live(Row(w).status),
         At(rec.pc) /\ rec.pc \notin {"return", "report", "status"} => row.status # "succeeded",
         rec.pc \in {"persisted", "mark", "save"} => row.used # 0,
         rec.pc = "report" /\ row.status = "succeeded" => rec.copy.snapshot,
         row.status = "succeeded" => row.meta.snapshot /\ row.used # 0,
         row.owed = Row(w).owed,
         row.used = Row(w).used \/ (row.used = worker[w].creds /\ Loaded(w)),
         rec.pc \in {"fetch", "attach", "persist"} =>
           \/ Loaded(w) /\ rec.creds = worker[w].creds
           \/ rec.creds = connector.creds
  PROVE  IInv'
<1> DEFINE q == worker[w].run
<1>1. q \in Runs /\ runs[q] \in RunType /\ worker[w] \in WorkerType /\ Row(w) = runs[q]
  BY DEF IInv, RunsInHand, TypeOK, Row
<1>2. /\ runs' \in [Runs -> RunType] /\ worker' \in [Workers -> WorkerType]
      /\ runs'[q] = row /\ worker'[w] = rec
      /\ \A r \in Runs : r # q => runs'[r] = runs[r]
      /\ \A v \in Workers : v # w => worker'[v] = worker[v]
  BY <1>1 DEF IInv, TypeOK
<1> HIDE DEF q
<1>3. TypeOK'
  BY <1>2 DEF IInv, TypeOK
<1>4. RunsInHand'
  BY <1>1, <1>2 DEF IInv, RunsInHand, Row, q
<1>5. \A v \in Workers : v # w /\ Importing(v) /\ worker[v].run = q => row = runs[q] /\ ~At(rec.pc)
  BY <1>1 DEF IInv, OneImporter, Progress, Row, q
<1>6. OneImporter'
  BY <1>2, <1>5 DEF IInv, OneImporter, Importing, At, q
<1>7. Progress'
  BY <1>1, <1>2, <1>5 DEF IInv, Progress, Importing, At, Row, q
<1>8. SucceededWhole'
  BY <1>1, <1>2 DEF IInv, SucceededWhole
<1>9. CredsGrow'
  BY <1>1, <1>2 DEF IInv, CredsGrow
<1>10. LoadedIsOwed'
  BY <1>1, <1>2 DEF IInv, LoadedIsOwed, CredsGrow, Loaded, Row, RunsInHand, q
<1>11. OthersAreNew'
  BY <1>1, <1>2 DEF IInv, OthersAreNew, CredsGrow, Loaded, IsActive, Live, q
<1>12. ReconnectUsesItsCredentials'
  BY <1>1, <1>2 DEF IInv, ReconnectUsesItsCredentials, LoadedIsOwed, Row, q
<1> QED
  BY <1>3, <1>4, <1>6, <1>7, <1>8, <1>9, <1>10, <1>11, <1>12 DEF IInv

(* A step of a task that leaves the row of its run alone                                *)
LEMMA LookStep ==
  ASSUME IInv,
         NEW w \in Workers, worker[w].pc # "idle",
         NEW rec \in WorkerType,
         worker' = [worker EXCEPT ![w] = rec],
         connector' \in ConnectorType,
         connector'.row = connector.row, connector'.creds = connector.creds,
         UNCHANGED <<runs, queue, caller, faults>>,
         rec.run = worker[w].run, rec.pc # "idle",
         At(rec.pc) => Importing(w),
         At(rec.pc) /\ rec.pc \notin {"return", "report", "status"} =>
           Row(w).status # "succeeded",
         rec.pc \in {"persisted", "mark", "save"} => Row(w).used # 0,
         rec.pc = "report" /\ Row(w).status = "succeeded" => rec.copy.snapshot,
         rec.pc \in {"fetch", "attach", "persist"} =>
           \/ Loaded(w) /\ rec.creds = worker[w].creds
           \/ rec.creds = connector.creds
  PROVE  IInv'
<1>1. worker[w].run \in Runs /\ Row(w) = runs[worker[w].run]
  BY DEF IInv, RunsInHand, Row
<1>2. Row(w) \in RunType /\ runs' = [runs EXCEPT ![worker[w].run] = Row(w)]
  BY <1>1 DEF IInv, TypeOK
<1>3. Row(w).status # "absent" /\ (At(rec.pc) => Row(w).status # "pending")
  BY DEF IInv, RunsInHand, Progress
<1>4. Row(w).status = "succeeded" => Row(w).meta.snapshot /\ Row(w).used # 0
  BY <1>1 DEF IInv, SucceededWhole
<1>5. PICK row \in RunType : row = Row(w)
  BY <1>2
<1> QED
  BY ZenonT(60), <1>2, <1>3, <1>4, <1>5, TaskStep

LEMMA WorkerTyped ==
  ASSUME IInv, NEW w \in Workers
  PROVE  /\ worker[w] \in WorkerType
         /\ worker[w].pc # "idle" => Row(w) \in RunType /\ Row(w).meta \in MetaType
         /\ connector \in ConnectorType
         /\ Bare \in MetaType
  BY DEF IInv, TypeOK, RunsInHand, Row, RunType, Bare, MetaType

LEMMA EndStep ==
  ASSUME IInv, NEW w \in Workers, worker[w].pc # "idle", End(w),
         connector' \in ConnectorType,
         connector'.row = connector.row, connector'.creds = connector.creds,
         UNCHANGED <<runs, queue, caller, faults>>
  PROVE  IInv'
<1>1. worker[w] \in WorkerType /\ Bare \in MetaType /\ 0 \in Creds
  BY WorkerTyped, BootstrapAssumption DEF Creds
<1>2. Over(w) \in WorkerType /\ Over(w).pc = "done" /\ Over(w).run = worker[w].run
  BY <1>1 DEF Over, Free, WorkerType
<1> QED
  BY <1>2, LookStep DEF End, At

(* A look after which the task goes on to where nothing is asked of the row but that it *)
(* has not succeeded                                                                    *)
LEMMA CheckStep ==
  ASSUME IInv, NEW w \in Workers, Importing(w), NEW ok \in BOOLEAN,
         NEW pc \in {"load", "import", "attach", "mark", "failing", "save", "return", "broken",
                     "snapshot", "saveFailed", "failed", "crashMark", "crashSave", "report"},
         Look(w, ok, pc),
         ok /\ pc \notin {"return", "report"} => Row(w).status # "succeeded",
         ok /\ pc \in {"mark", "save"} => Row(w).used # 0,
         pc = "attach" => Loaded(w)
  PROVE  IInv'
<1> DEFINE rec == [worker[w] EXCEPT !.pc = pc, !.copy = Row(w).meta]
<1>1. worker[w].pc # "idle"
  BY DEF Importing
<1>2. CASE ~ok
  BY <1>1, <1>2, EndStep, WorkerTyped DEF Look, End
<1>3. CASE ok
  <2>1. /\ rec \in WorkerType /\ rec.pc = pc /\ rec.run = worker[w].run
        /\ rec.creds = worker[w].creds /\ rec.copy = Row(w).meta
    BY <1>1, WorkerTyped DEF WorkerType
  <2>2. worker' = [worker EXCEPT ![w] = rec] /\ UNCHANGED <<runs, connector, queue, caller, faults>>
    BY <1>3 DEF Look
  <2>3. Row(w).status = "succeeded" => Row(w).meta.snapshot
    BY <1>1 DEF IInv, SucceededWhole, RunsInHand, Row
  <2> HIDE DEF rec
  <2> QED
    BY <1>1, <1>3, <2>1, <2>2, <2>3, LookStep, WorkerTyped
<1> QED
  BY <1>2, <1>3

---------------------------------------------------------------------------------------
(* The looks of a task                                                                  *)
LEMMA LooksStep ==
  ASSUME IInv, NEW w \in Workers,
         \/ Check(w) \/ FailCheck(w) \/ Recheck(w) \/ Fetch(w) \/ AssertMayPersist(w)
         \/ MarkSucceeded(w) \/ ImportReturns(w) \/ BreakOff(w) \/ MarkFailed(w)
         \/ ImportFailed(w) \/ Crash(w) \/ MarkCrashed(w)
  PROVE  IInv'
<1>1. /\ Importing(w) /\ worker[w].pc \notin {"return", "report", "status"} =>
           Row(w).status # "succeeded"
      /\ worker[w].pc \in {"persisted", "mark", "save"} => Row(w).used # 0
  BY DEF IInv, Progress
<1>2. MayPersist(w) \in BOOLEAN /\ (MayPersist(w) => Row(w).status # "succeeded")
  BY DEF MayPersist
<1>3. CASE Check(w)
  BY <1>2, <1>3, CheckStep DEF Check, Importing
<1>4. CASE FailCheck(w)
  <2>1. /\ Importing(w) /\ Row(w).status # "succeeded"
        /\ Look(w, ~Row(w).meta.superseded, "failing")
    BY <1>1, <1>4 DEF FailCheck, Importing
  <2> QED
    BY <2>1, CheckStep
<1>5. CASE Recheck(w)
  BY <1>2, <1>5, CheckStep DEF Recheck, Importing
<1>6. CASE Fetch(w)
  BY <1>2, <1>6, CheckStep DEF Fetch, Importing, Loaded
<1>7. CASE AssertMayPersist(w)
  BY <1>1, <1>2, <1>7, CheckStep DEF AssertMayPersist, Importing
<1>8. CASE MarkSucceeded(w)
  <2>1. Importing(w) /\ Row(w).status # "succeeded" /\ Row(w).used # 0
    BY <1>1, <1>8 DEF MarkSucceeded, Importing
  <2>2. CASE MayPersist(w)
    BY <1>8, <2>1, <2>2, CheckStep DEF MarkSucceeded
  <2>3. CASE ~MayPersist(w)
    BY <1>8, <2>1, <2>3, CheckStep DEF MarkSucceeded
  <2> QED
    BY <2>2, <2>3
<1>9. CASE ImportReturns(w)
  <2>1. Importing(w) /\ Look(w, ~Row(w).meta.superseded, "report")
    BY <1>9 DEF ImportReturns, Importing
  <2> QED
    BY <2>1, CheckStep
<1>10. CASE BreakOff(w)
  <2>1. Importing(w)
    BY <1>10 DEF BreakOff, Importing
  <2>2. CASE worker[w].pc = "fetch"
    BY <1>2, <1>10, <2>1, <2>2, CheckStep DEF BreakOff
  <2>3. CASE worker[w].pc = "persist"
    BY <1>2, <1>10, <2>1, <2>3, CheckStep DEF BreakOff
  <2> QED
    BY <1>10, <2>2, <2>3 DEF BreakOff
<1>11. CASE MarkFailed(w)
  <2>1. Importing(w) /\ Row(w).status # "succeeded"
    BY <1>1, <1>11 DEF MarkFailed, Importing
  <2>2. CASE MayPersist(w)
    BY <1>11, <2>1, <2>2, CheckStep DEF MarkFailed
  <2>3. CASE ~MayPersist(w)
    BY <1>11, <2>1, <2>3, CheckStep DEF MarkFailed
  <2> QED
    BY <2>2, <2>3
<1>12. CASE ImportFailed(w)
  BY <1>2, <1>12, CheckStep DEF ImportFailed, Importing
<1>13. CASE Crash(w)
  BY <1>2, <1>13, CheckStep DEF Crash, Importing
<1>14. CASE MarkCrashed(w)
  <2>1. Importing(w) /\ Row(w).status # "succeeded"
    BY <1>1, <1>14 DEF MarkCrashed, Importing
  <2>2. CASE MayPersist(w)
    BY <1>14, <2>1, <2>2, CheckStep DEF MarkCrashed
  <2>3. CASE ~MayPersist(w)
    BY <1>14, <2>1, <2>3, CheckStep DEF MarkCrashed
  <2> QED
    BY <2>2, <2>3
<1> QED
  BY <1>3, <1>4, <1>5, <1>6, <1>7, <1>8, <1>9, <1>10, <1>11, <1>12, <1>13, <1>14

(* What a task does without its run                                                     *)
LEMMA LoadConnectorStep ==
  ASSUME IInv, NEW w \in Workers, LoadConnector(w)
  PROVE  IInv'
<1> DEFINE pc == IF connector.row = 0 THEN "fail" ELSE "preflight"
<1> DEFINE rec == [worker[w] EXCEPT !.pc = pc, !.row = connector.row]
<1>1. /\ worker[w].pc = "load" /\ Importing(w) /\ Row(w).status # "succeeded"
      /\ UNCHANGED <<runs, connector, queue, caller, faults>>
  BY DEF LoadConnector, Importing, IInv, Progress
<1>2. rec \in WorkerType /\ rec.pc \in {"fail", "preflight"} /\ rec.run = worker[w].run
  BY WorkerTyped DEF WorkerType, ConnectorType
<1>3. worker' = [worker EXCEPT ![w] = rec]
  BY WorkerTyped DEF LoadConnector, WorkerType
<1> HIDE DEF rec, pc
<1> QED
  BY <1>1, <1>2, <1>3, LookStep, WorkerTyped

LEMMA ImportLoadStep ==
  ASSUME IInv, NEW w \in Workers, ImportLoad(w)
  PROVE  IInv'
<1> DEFINE pc == IF connector.row = 0 THEN "crash" ELSE "fetch"
<1> DEFINE creds == IF connector.row = 0 THEN 0 ELSE connector.creds
<1> DEFINE rec == [worker[w] EXCEPT !.pc = pc, !.creds = creds]
<1>1. /\ worker[w].pc = "import" /\ Importing(w) /\ Row(w).status # "succeeded"
      /\ UNCHANGED <<runs, connector, queue, caller, faults>>
  BY DEF ImportLoad, Importing, IInv, Progress
<1>2. creds \in Creds /\ pc \in {"crash", "fetch"} /\ (pc = "fetch" => creds = connector.creds)
  BY WorkerTyped, BootstrapAssumption DEF ConnectorType, Creds
<1>3. worker' = [worker EXCEPT ![w] = rec]
  BY WorkerTyped DEF ImportLoad, WorkerType
<1> HIDE DEF pc, creds
<1>4. rec \in WorkerType /\ rec.pc = pc /\ rec.run = worker[w].run /\ rec.creds = creds
  BY <1>2, WorkerTyped DEF WorkerType
<1> HIDE DEF rec
<1> QED
  BY <1>1, <1>2, <1>3, <1>4, LookStep, WorkerTyped

LEMMA GotoStep ==
  ASSUME IInv, NEW w \in Workers, Importing(w), Row(w).status # "succeeded",
         NEW pc \in {"recheck", "fail", "markFailed", "crash"}, Goto(w, pc),
         connector' \in ConnectorType,
         connector'.row = connector.row, connector'.creds = connector.creds,
         UNCHANGED <<runs, queue, caller, faults>>
  PROVE  IInv'
<1> DEFINE rec == [worker[w] EXCEPT !.pc = pc, !.copy = Bare]
<1>1. rec \in WorkerType /\ rec.pc = pc /\ rec.run = worker[w].run /\ worker[w].pc # "idle"
  BY WorkerTyped DEF WorkerType, Importing
<1>2. worker' = [worker EXCEPT ![w] = rec]
  BY WorkerTyped DEF Goto, WorkerType
<1> HIDE DEF rec
<1> QED
  BY <1>1, <1>2, LookStep

LEMMA ApartStep ==
  ASSUME IInv, NEW w \in Workers,
         \/ Preflight(w) \/ PreflightFails(w) \/ PreflightRaises(w) \/ ApplyStatus(w)
         \/ FailureSnapshot(w)
  PROVE  IInv'
<1>1. Importing(w) /\ worker[w].pc \notin {"return", "report", "status"} =>
        Row(w).status # "succeeded"
  BY DEF IInv, Progress
<1>2. CASE Preflight(w)
  BY <1>1, <1>2, GotoStep, WorkerTyped DEF Preflight, Importing
<1>3. CASE PreflightFails(w)
  <2>1. /\ connector' \in ConnectorType
        /\ connector'.row = connector.row /\ connector'.creds = connector.creds
    BY <1>3, WorkerTyped DEF PreflightFails, ConnectorType
  <2> QED
    BY <1>1, <1>3, <2>1, GotoStep DEF PreflightFails, Importing
<1>4. CASE PreflightRaises(w)
  BY <1>4, EndStep, WorkerTyped DEF PreflightRaises
<1>5. CASE ApplyStatus(w)
  <2>1. /\ connector' \in ConnectorType
        /\ connector'.row = connector.row /\ connector'.creds = connector.creds
    BY <1>5, WorkerTyped DEF ApplyStatus, ConnectorType
  <2> QED
    BY <1>5, <2>1, EndStep DEF ApplyStatus
<1>6. CASE FailureSnapshot(w)
  <2>1. CASE SourceIsThere(w)
    BY <1>1, <1>6, <2>1, GotoStep, WorkerTyped DEF FailureSnapshot, Importing
  <2>2. CASE ~SourceIsThere(w)
    BY <1>1, <1>6, <2>2, GotoStep, WorkerTyped DEF FailureSnapshot, Importing
  <2> QED
    BY <2>1, <2>2
<1> QED
  BY <1>2, <1>3, <1>4, <1>5, <1>6

(* What a task saves in the row of its run                                              *)
LEMMA SaveStep ==
  ASSUME IInv, NEW w \in Workers, Importing(w) \/ Row(w).status = "pending",
         worker[w].pc # "idle",
         NEW status \in {"running", "succeeded", "failed"}, NEW meta \in MetaType,
         NEW used \in Creds,
         NEW pc \in {"check", "status", "persist", "persisted", "return", "snapshot", "failed",
                     "report"},
         NEW copy \in MetaType,
         runs' = [runs EXCEPT ![worker[w].run] =
                    [status |-> status, meta |-> meta, used |-> used, owed |-> Row(w).owed]],
         worker' = [worker EXCEPT ![w].pc = pc, ![w].copy = copy],
         UNCHANGED <<connector, queue, caller, faults>>,
         status = "running" => Live(Row(w).status),
         pc \in {"check", "persist", "persisted", "snapshot", "failed"} =>
           status # "succeeded",
         status = "succeeded" => meta.snapshot /\ used # 0,
         pc = "report" => status = "failed",
         pc = "persisted" => used # 0,
         pc = "persist" => Loaded(w),
         used = Row(w).used \/ (used = worker[w].creds /\ Loaded(w))
  PROVE  IInv'
<1> DEFINE rec == [worker[w] EXCEPT !.pc = pc, !.copy = copy]
           row == [status |-> status, meta |-> meta, used |-> used, owed |-> Row(w).owed]
<1>1. /\ rec \in WorkerType /\ rec.pc = pc /\ rec.run = worker[w].run
      /\ rec.creds = worker[w].creds
  BY WorkerTyped DEF WorkerType
<1>2. /\ row \in RunType /\ row.status = status /\ row.meta = meta /\ row.used = used
      /\ row.owed = Row(w).owed
  BY WorkerTyped DEF RunType
<1>3. worker' = [worker EXCEPT ![w] = rec] /\ runs' = [runs EXCEPT ![worker[w].run] = row]
  BY WorkerTyped DEF WorkerType
<1>4. /\ connector' \in ConnectorType
      /\ connector'.row = connector.row /\ connector'.creds = connector.creds
  BY WorkerTyped
<1> HIDE DEF rec, row
<1>5. /\ row.status # "pending" /\ row.status # "absent"
      /\ Live(row.status) => Live(Row(w).status)
      /\ row.status = "succeeded" => row.meta.snapshot /\ row.used # 0
      /\ row.used = Row(w).used \/ (row.used = worker[w].creds /\ Loaded(w))
  BY <1>2 DEF Live
<1>6. /\ rec.pc # "idle"
      /\ rec.pc \notin {"return", "report", "status"} => row.status # "succeeded"
      /\ rec.pc \in {"persisted", "mark", "save"} => row.used # 0
      /\ rec.pc = "report" => row.status # "succeeded"
      /\ rec.pc \in {"fetch", "attach", "persist"} => Loaded(w)
  BY <1>1, <1>2
<1> QED
  BY <1>1, <1>2, <1>3, <1>4, <1>5, <1>6, TaskStep

LEMMA ClaimStep ==
  ASSUME IInv, NEW w \in Workers, Claim(w)
  PROVE  IInv'
<1>1. worker[w].pc = "claim" /\ Row(w) = runs[worker[w].run] /\ worker[w].run \in Runs
  BY DEF Claim, IInv, RunsInHand, Row
<1>2. CASE MayClaim(Row(w).status)
  <2>1. runs' = [runs EXCEPT ![worker[w].run] =
                   [status |-> "running", meta |-> Row(w).meta, used |-> Row(w).used,
                    owed |-> Row(w).owed]]
    BY <1>1, <1>2, WorkerTyped DEF Claim, RunType
  <2>2. Row(w).status = "pending" /\ Row(w).used \in Creds
    BY <1>1, <1>2, WorkerTyped DEF MayClaim, RunType
  <2> QED
    BY <1>1, <1>2, <2>1, <2>2, SaveStep, WorkerTyped DEF Claim, Goto, Live
<1>3. CASE ~MayClaim(Row(w).status)
  BY <1>1, <1>3, EndStep, WorkerTyped DEF Claim
<1> QED
  BY <1>2, <1>3

(* The saves of a task that has claimed its run                                         *)
LEMMA SavesStep ==
  ASSUME IInv, NEW w \in Workers,
         \/ FailSave(w) \/ Attach(w) \/ Persist(w) \/ SaveSucceeded(w) \/ Report(w)
         \/ AttachBroken(w) \/ SaveFailed(w) \/ SaveCrashed(w)
  PROVE  IInv'
<1> DEFINE Saved(status, meta, used) ==
      runs' = [runs EXCEPT ![worker[w].run] =
                 [status |-> status, meta |-> meta, used |-> used, owed |-> Row(w).owed]]
<1>1. /\ Importing(w) /\ worker[w].pc # "idle"
  BY DEF FailSave, Attach, Persist, SaveSucceeded, Report, AttachBroken, SaveFailed,
         SaveCrashed, Importing
<1>2. /\ worker[w] \in WorkerType /\ worker[w].copy \in MetaType /\ worker[w].creds \in Creds
      /\ Row(w) \in RunType /\ Row(w).used \in Creds /\ Row(w).meta \in MetaType
      /\ Row(w).status \in {"running", "succeeded", "failed"} /\ Bare \in MetaType
  BY <1>1, WorkerTyped DEF WorkerType, RunType, IInv, Progress, RunsInHand
<1>3. /\ worker[w].run \in Runs /\ Row(w) = runs[worker[w].run] /\ runs \in [Runs -> RunType]
  BY <1>1 DEF IInv, RunsInHand, Row, TypeOK
<1>4. worker[w].pc \notin {"return", "report", "status"} => Row(w).status \in {"running", "failed"}
  BY <1>1, <1>2 DEF IInv, Progress
<1>5. \A meta : SaveMeta(w, meta) => Saved(Row(w).status, meta, Row(w).used)
  BY <1>2, <1>3 DEF SaveMeta, RunType
<1>6. \A status, meta : SaveEnd(w, status, meta) => Saved(status, meta, Row(w).used)
  BY <1>2, <1>3 DEF SaveEnd, RunType
<1>7. CASE FailSave(w)
  <2>1. [worker[w].copy EXCEPT !.report = TRUE] \in MetaType
    BY <1>2 DEF MetaType
  <2>2. /\ Saved("failed", [worker[w].copy EXCEPT !.report = TRUE], Row(w).used)
        /\ worker' = [worker EXCEPT ![w].pc = "status", ![w].copy = Bare]
        /\ UNCHANGED <<connector, queue, caller, faults>>
    BY <1>6, <1>7 DEF FailSave, Goto
  <2> QED
    BY <1>1, <1>2, <2>1, <2>2, SaveStep
<1>8. CASE Attach(w)
  <2>1. /\ Saved(Row(w).status, worker[w].copy, Row(w).used)
        /\ worker' = [worker EXCEPT ![w].pc = "persist", ![w].copy = Bare]
        /\ UNCHANGED <<connector, queue, caller, faults>>
        /\ Loaded(w) /\ Row(w).status \in {"running", "failed"}
    BY <1>4, <1>5, <1>8 DEF Attach, Goto, Loaded
  <2> QED
    BY <1>1, <1>2, <2>1, SaveStep DEF Live
<1>9. CASE Persist(w)
  <2>1. \A used : runs' = [runs EXCEPT ![worker[w].run].used = used] =>
          Saved(Row(w).status, Row(w).meta, used)
    BY <1>2, <1>3 DEF RunType
  <2>2. Saved(Row(w).status, Row(w).meta, worker[w].creds)
    BY <1>9, <2>1 DEF Persist
  <2>3. worker[w].creds # 0 /\ Loaded(w) /\ Row(w).status \in {"running", "failed"}
    BY <1>2, <1>4, <1>9, WorkerTyped, BootstrapAssumption
       DEF Persist, SourceIsThere, Loaded, ConnectorType, Creds
  <2>4. /\ worker' = [worker EXCEPT ![w].pc = "persisted", ![w].copy = Bare]
        /\ UNCHANGED <<connector, queue, caller, faults>>
    BY <1>9 DEF Persist, Goto
  <2> QED
    BY <1>1, <1>2, <2>2, <2>3, <2>4, SaveStep DEF Live
<1>10. CASE SaveSucceeded(w)
  <2>1. /\ [worker[w].copy EXCEPT !.snapshot = TRUE] \in MetaType
        /\ [worker[w].copy EXCEPT !.snapshot = TRUE].snapshot
    BY <1>2 DEF MetaType
  <2>2. Row(w).used # 0
    BY <1>10 DEF SaveSucceeded, IInv, Progress
  <2>3. /\ Saved("succeeded", [worker[w].copy EXCEPT !.snapshot = TRUE], Row(w).used)
        /\ worker' = [worker EXCEPT ![w].pc = "return", ![w].copy = Bare]
        /\ UNCHANGED <<connector, queue, caller, faults>>
    BY <1>6, <1>10 DEF SaveSucceeded, Goto
  <2> QED
    BY <1>1, <1>2, <2>1, <2>2, <2>3, SaveStep
<1>11. CASE Report(w)
  <2>1. /\ [worker[w].copy EXCEPT !.report = TRUE] \in MetaType
        /\ [worker[w].copy EXCEPT !.report = TRUE].snapshot = worker[w].copy.snapshot
    BY <1>2 DEF MetaType
  <2>2. Row(w).status = "succeeded" => worker[w].copy.snapshot /\ Row(w).used # 0
    BY <1>3, <1>11 DEF Report, IInv, Progress, SucceededWhole
  <2>3. /\ Saved(Row(w).status, [worker[w].copy EXCEPT !.report = TRUE], Row(w).used)
        /\ worker' = [worker EXCEPT ![w].pc = "status", ![w].copy = Bare]
        /\ UNCHANGED <<connector, queue, caller, faults>>
    BY <1>5, <1>11 DEF Report, Goto
  <2>4. PICK meta \in MetaType :
          meta = [worker[w].copy EXCEPT !.report = TRUE]
    BY <2>1
  <2>5. Row(w).status = "running" => Live(Row(w).status)
    BY DEF Live
  <2>6. Saved(Row(w).status, meta, Row(w).used)
        /\ (Row(w).status = "succeeded" => meta.snapshot /\ Row(w).used # 0)
    BY <2>1, <2>2, <2>3, <2>4
  <2> QED
    BY ZenonT(60), <1>1, <1>2, <2>3, <2>5, <2>6, SaveStep
<1>12. CASE AttachBroken(w)
  <2>1. /\ Saved(Row(w).status, worker[w].copy, Row(w).used)
        /\ worker' = [worker EXCEPT ![w].pc = "snapshot", ![w].copy = Bare]
        /\ UNCHANGED <<connector, queue, caller, faults>>
        /\ Row(w).status \in {"running", "failed"}
    BY <1>4, <1>5, <1>12 DEF AttachBroken, Goto
  <2> QED
    BY <1>1, <1>2, <2>1, SaveStep DEF Live
<1>13. CASE SaveFailed(w)
  <2>1. /\ Saved("failed", worker[w].copy, Row(w).used)
        /\ worker' = [worker EXCEPT ![w].pc = "failed", ![w].copy = Bare]
        /\ UNCHANGED <<connector, queue, caller, faults>>
    BY <1>6, <1>13 DEF SaveFailed, Goto
  <2> QED
    BY <1>1, <1>2, <2>1, SaveStep
<1>14. CASE SaveCrashed(w)
  <2>1. /\ Saved("failed", worker[w].copy, Row(w).used)
        /\ worker' = [worker EXCEPT ![w].pc = "report"]
        /\ UNCHANGED <<connector, queue, caller, faults>>
    BY <1>6, <1>14 DEF SaveCrashed
  <2>2. worker' = [worker EXCEPT ![w].pc = "report", ![w].copy = worker[w].copy]
    BY <1>2, <2>1, WorkerTyped DEF WorkerType
  <2> QED
    BY ZenonT(60), <1>1, <1>2, <2>1, <2>2, SaveStep
<1> QED
  BY <1>7, <1>8, <1>9, <1>10, <1>11, <1>12, <1>13, <1>14

---------------------------------------------------------------------------------------
(* Celery hands a run to a worker, or takes it from it.                                 *)
LEMMA HandStep ==
  ASSUME IInv, NEW w \in Workers, NEW rec \in WorkerType,
         worker' = [worker EXCEPT ![w] = rec], ~At(rec.pc),
         rec.pc # "idle" => rec.run \in Runs /\ runs[rec.run].status # "absent",
         queue' \in [Runs -> {"none", "queued", "delivered"}],
         \A r \in Runs : queue'[r] # "none" => runs[r].status # "absent",
         faults' \in 0 .. MaxFaults,
         UNCHANGED <<runs, connector, caller>>
  PROVE  IInv'
<1>1. /\ worker' \in [Workers -> WorkerType] /\ worker'[w] = rec
      /\ \A v \in Workers : v # w => worker'[v] = worker[v]
  BY DEF IInv, TypeOK
<1>2. TypeOK'
  BY <1>1 DEF IInv, TypeOK
<1>3. RunsInHand'
  BY <1>1 DEF IInv, RunsInHand, Row
<1>4. OneImporter'
  BY <1>1 DEF IInv, OneImporter, Importing, At
<1>5. Progress'
  BY <1>1 DEF IInv, Progress, Importing, At, Row
<1>6. SucceededWhole' /\ CredsGrow'
  BY DEF IInv, SucceededWhole, CredsGrow
<1>7. LoadedIsOwed'
  BY <1>1 DEF IInv, LoadedIsOwed, Loaded, Row, At
<1>8. OthersAreNew'
  BY <1>1 DEF IInv, OthersAreNew, Loaded, IsActive, At
<1>9. ReconnectUsesItsCredentials'
  BY DEF IInv, ReconnectUsesItsCredentials
<1> QED
  BY <1>2, <1>3, <1>4, <1>5, <1>6, <1>7, <1>8, <1>9 DEF IInv

LEMMA ReceiveStep ==
  ASSUME IInv, NEW w \in Workers, NEW r \in Runs, Receive(w, r)
  PROVE  IInv'
<1> DEFINE pc == IF runs[r].status = "pending" THEN "claim" ELSE "done"
           rec == [Free EXCEPT !.pc = pc, !.run = r]
<1>1. 0 \in Creds /\ Bare \in MetaType
  BY WorkerTyped, BootstrapAssumption DEF Creds
<1>2. pc \in {"claim", "done"} /\ worker' = [worker EXCEPT ![w] = rec]
  BY DEF Receive
<1> HIDE DEF pc
<1>3. rec \in WorkerType /\ rec.pc = pc /\ rec.run = r
  BY <1>1, <1>2 DEF WorkerType, Free
<1> HIDE DEF rec
<1>4. runs[r].status # "absent"
  BY DEF Receive, IInv, RunsInHand
<1>5. /\ queue' \in [Runs -> {"none", "queued", "delivered"}]
      /\ \A s \in Runs : queue'[s] # "none" => runs[s].status # "absent"
  BY <1>4 DEF Receive, IInv, RunsInHand, TypeOK
<1>6. faults' \in 0 .. MaxFaults /\ UNCHANGED <<runs, connector, caller>>
  BY DEF Receive, IInv, TypeOK
<1> QED
  BY <1>2, <1>3, <1>4, <1>5, <1>6, HandStep DEF At

LEMMA LeaveStep ==
  ASSUME IInv, NEW w \in Workers, Return(w) \/ Kill(w) \/ LoseProcess(w)
  PROVE  IInv'
<1>1. Free \in WorkerType /\ Free.pc = "idle" /\ ~At(Free.pc)
  <2>1. 0 \in Creds /\ Bare \in MetaType
    BY WorkerTyped, BootstrapAssumption DEF Creds
  <2> QED
    BY <2>1 DEF Free, WorkerType, At
<1>2. worker[w].run \in Runs /\ runs[worker[w].run].status # "absent"
  BY DEF Return, Kill, LoseProcess, IInv, RunsInHand, Row
<1>3. faults' \in 0 .. MaxFaults
  BY BootstrapAssumption DEF Return, Kill, LoseProcess, Fault, IInv, TypeOK
<1>4. /\ queue' \in [Runs -> {"none", "queued", "delivered"}]
      /\ \A r \in Runs : queue'[r] # "none" => queue[r] # "none" \/ r = worker[w].run
  BY <1>2 DEF Return, Kill, LoseProcess, Acknowledge, IInv, TypeOK
<1>5. \A r \in Runs : queue'[r] # "none" => runs[r].status # "absent"
  BY <1>2, <1>4 DEF IInv, RunsInHand
<1>6. worker' = [worker EXCEPT ![w] = Free] /\ UNCHANGED <<runs, connector, caller>>
  BY DEF Return, Kill, LoseProcess, Acknowledge
<1> QED
  BY <1>1, <1>3, <1>4, <1>5, <1>6, HandStep

LEMMA RedeliverStep ==
  ASSUME IInv, NEW r \in Runs, Redeliver(r)
  PROVE  IInv'
<1>1. faults' \in 0 .. MaxFaults
  BY BootstrapAssumption DEF Redeliver, Fault, IInv, TypeOK
<1>2. TypeOK'
  BY <1>1 DEF Redeliver, IInv, TypeOK
<1>3. RunsInHand'
  BY DEF Redeliver, IInv, RunsInHand, TypeOK, Row
<1> QED
  BY <1>2, <1>3 DEF Redeliver, IInv, OneImporter, Progress, SucceededWhole, CredsGrow,
     LoadedIsOwed, OthersAreNew, ReconnectUsesItsCredentials, Importing, Loaded, Row, IsActive

LEMMA DisconnectStep ==
  ASSUME IInv, Disconnect
  PROVE  IInv'
<1>1. /\ connector \in ConnectorType /\ connector' = [connector EXCEPT !.row = 0]
      /\ UNCHANGED <<runs, queue, caller, worker, faults>> /\ 0 \in Creds
  BY BootstrapAssumption DEF Disconnect, IInv, TypeOK, Creds
<1>2. connector' \in ConnectorType /\ connector'.row = 0 /\ connector'.creds = connector.creds
  BY <1>1 DEF ConnectorType
<1>3. TypeOK'
  BY <1>1, <1>2 DEF IInv, TypeOK
<1>4. CredsGrow'
  BY <1>1, <1>2, BootstrapAssumption DEF IInv, CredsGrow, ConnectorType, Creds
<1> QED
  BY <1>1, <1>3, <1>4 DEF IInv, RunsInHand, OneImporter, Progress, SucceededWhole,
     LoadedIsOwed, OthersAreNew, ReconnectUsesItsCredentials, Importing, Loaded, Row, IsActive

---------------------------------------------------------------------------------------
(* The requests                                                                         *)

(* A run that has nothing to do any more with what is older than `creds'                *)
IsNew(r, creds) ==
  /\ runs[r].used # 0 => creds <= runs[r].used
  /\ \A w \in Workers : Loaded(w) /\ worker[w].run = r => creds <= worker[w].creds

(* What a request does without a row of a run                                           *)
LEMMA CallerStep ==
  ASSUME IInv, NEW c \in Callers, NEW rec \in CallerType,
         caller' = [caller EXCEPT ![c] = rec],
         connector' \in ConnectorType, connector'.row <= connector'.creds,
         connector.creds <= connector'.creds, rec.creds <= connector'.creds,
         queue' \in [Runs -> {"none", "queued", "delivered"}],
         \A r \in Runs : queue'[r] # "none" => runs[r].status # "absent",
         faults' \in 0 .. MaxFaults,
         UNCHANGED <<runs, worker>>,
         rec.pc = "send" => rec.run \in Runs /\ runs[rec.run].status # "absent",
         \A r \in Runs :
           IsActive(r) /\ (rec.pc = "find" \/ (rec.pc = "supersede" /\ r \notin DOMAIN rec.copies))
             => IsNew(r, rec.creds)
  PROVE  IInv'
<1>1. /\ caller' \in [Callers -> CallerType] /\ caller'[c] = rec
      /\ \A d \in Callers : d # c => caller'[d] = caller[d]
  BY DEF IInv, TypeOK
<1>2. TypeOK'
  BY <1>1 DEF IInv, TypeOK
<1>3. RunsInHand'
  BY <1>1 DEF IInv, RunsInHand, Row
<1>4. CredsGrow'
  <2>1. /\ connector.creds \in Int /\ connector'.creds \in Int
        /\ \A d \in Callers : caller[d].creds \in Int
        /\ \A r \in Runs : runs[r].owed \in Int
    BY BootstrapAssumption DEF IInv, TypeOK, ConnectorType, CallerType, RunType, Creds
  <2> QED
    BY <1>1, <2>1 DEF IInv, CredsGrow
<1>5. OthersAreNew'
  BY <1>1 DEF IInv, OthersAreNew, IsNew, Loaded, IsActive
<1> QED
  BY <1>2, <1>3, <1>4, <1>5 DEF IInv, OneImporter, Progress, SucceededWhole, LoadedIsOwed,
     ReconnectUsesItsCredentials, Importing, Loaded, Row

LEMMA CallerTyped ==
  ASSUME IInv, NEW c \in Callers
  PROVE  /\ caller[c] \in CallerType /\ Away \in CallerType
         /\ queue \in [Runs -> {"none", "queued", "delivered"}]
         /\ \A r \in Runs : queue[r] # "none" => runs[r].status # "absent"
         /\ faults \in 0 .. MaxFaults
         /\ connector \in ConnectorType /\ connector.row <= connector.creds
         /\ 0 \in Creds /\ Creds \subseteq Nat /\ caller[c].creds <= connector.creds
<1>1. 0 \in Creds /\ Creds \subseteq Nat
  BY BootstrapAssumption DEF Creds
<1>2. <<>> \in UNION {[S -> MetaType] : S \in SUBSET Runs}
  <2>1. <<>> \in [{} -> MetaType] /\ {} \in SUBSET Runs
    OBVIOUS
  <2> QED
    BY <2>1, Zenon
<1>3. Away \in CallerType
  BY <1>1, <1>2 DEF Away, CallerType
<1> QED
  BY <1>1, <1>3 DEF IInv, TypeOK, RunsInHand, CredsGrow

(* The credentials of a request that has saved none are older than any.                 *)
LEMMA NoneIsNew ==
  ASSUME IInv, NEW r \in Runs
  PROVE  IsNew(r, 0)
BY BootstrapAssumption DEF IInv, TypeOK, RunType, WorkerType, Creds, IsNew

LEMMA ConnectStep ==
  ASSUME IInv, NEW c \in Callers, Connect(c)
  PROVE  IInv'
<1> DEFINE new == connector.creds + 1
           first == [Away EXCEPT !.pc = "find"]
           again == [Away EXCEPT !.pc = "list", !.creds = new]
<1>1. new \in Creds /\ connector.creds <= new /\ new # 0 /\ connector.row <= new
      /\ connector.row \in Creds
  BY CallerTyped, BootstrapAssumption DEF Connect, Creds, ConnectorType
<1>2. UNCHANGED <<runs, queue, worker, faults>>
  BY DEF Connect
<1>3. /\ first \in CallerType /\ first.pc = "find" /\ first.creds = 0
      /\ again \in CallerType /\ again.pc = "list" /\ again.creds = new
  BY <1>1, CallerTyped DEF Away, CallerType
<1>4. CASE connector.row = 0
  <2>1. /\ connector' = [row |-> new, creds |-> new, status |-> "connected"]
        /\ caller' = [caller EXCEPT ![c] = first]
    BY <1>4 DEF Connect
  <2>2. connector' \in ConnectorType /\ connector'.row = new /\ connector'.creds = new
    BY <1>1, <2>1 DEF ConnectorType
  <2> HIDE DEF new, first
  <2>3. 0 <= new /\ new <= new
    BY <1>1, CallerTyped DEF Creds
  <2> QED
    BY <1>1, <1>2, <1>3, <2>1, <2>2, <2>3, CallerStep, CallerTyped, NoneIsNew
<1>5. CASE connector.row # 0
  <2>1. /\ connector' = [connector EXCEPT !.creds = new, !.status = "connected"]
        /\ caller' = [caller EXCEPT ![c] = again]
    BY <1>5 DEF Connect
  <2>2. /\ connector' \in ConnectorType /\ connector'.row = connector.row
        /\ connector'.creds = new
    BY <1>1, <2>1, CallerTyped DEF ConnectorType
  <2> HIDE DEF new, again
  <2>3. new <= new
    BY <1>1, CallerTyped DEF Creds
  <2> QED
    BY <1>1, <1>2, <1>3, <2>1, <2>2, <2>3, CallerStep, CallerTyped
<1> QED
  BY <1>4, <1>5

LEMMA ManualFetchStep ==
  ASSUME IInv, NEW c \in Callers, ManualFetch(c)
  PROVE  IInv'
<1> DEFINE rec == [Away EXCEPT !.pc = "find"]
<1>1. rec \in CallerType /\ rec.pc = "find" /\ rec.creds = 0
  BY CallerTyped DEF Away, CallerType
<1>2. caller' = [caller EXCEPT ![c] = rec] /\ UNCHANGED <<runs, connector, queue, worker, faults>>
  BY DEF ManualFetch
<1> HIDE DEF rec
<1>3. 0 <= connector.creds /\ connector.creds <= connector.creds
  BY CallerTyped DEF ConnectorType
<1> QED
  BY <1>1, <1>2, <1>3, CallerStep, CallerTyped, NoneIsNew

LEMMA ListStep ==
  ASSUME IInv, NEW c \in Callers, List(c)
  PROVE  IInv'
<1> DEFINE pc == IF ToSupersede = {} THEN "find" ELSE "supersede"
           copies == [r \in ToSupersede |-> runs[r].meta]
           rec == [caller[c] EXCEPT !.pc = pc, !.copies = copies]
<1>1. copies \in UNION {[S -> MetaType] : S \in SUBSET Runs} /\ DOMAIN copies = ToSupersede
  <2>1. ToSupersede \in SUBSET Runs
    BY DEF ToSupersede
  <2>2. copies \in [ToSupersede -> MetaType]
    BY <2>1 DEF IInv, TypeOK, RunType
  <2> QED
    BY <2>1, <2>2, Zenon
<1>2. \A r \in Runs : IsActive(r) <=> r \in ToSupersede
  BY DEF ToSupersede
<1>3. pc \in {"find", "supersede"} /\ (pc = "find" => ToSupersede = {})
  OBVIOUS
<1>4. caller' = [caller EXCEPT ![c] = rec] /\ UNCHANGED <<runs, connector, queue, worker, faults>>
  BY CallerTyped DEF List, CallerType
<1> HIDE DEF copies, pc
<1>5. rec \in CallerType /\ rec.pc = pc /\ rec.copies = copies /\ rec.creds = caller[c].creds
  BY <1>1, <1>3, CallerTyped DEF CallerType
<1> HIDE DEF rec
<1>6. connector.creds <= connector.creds
  BY CallerTyped DEF ConnectorType
<1>7. ~(\E r \in Runs : IsActive(r) /\
          (rec.pc = "find" \/ (rec.pc = "supersede" /\ r \notin DOMAIN rec.copies)))
      /\ rec.pc # "send"
  BY <1>1, <1>2, <1>3, <1>5
<1> QED
  BY <1>4, <1>5, <1>6, <1>7, CallerStep, CallerTyped

LEMMA FindNoneStep ==
  ASSUME IInv, NEW c \in Callers, FindNone(c)
  PROVE  IInv'
<1> DEFINE rec == [caller[c] EXCEPT !.pc = "create"]
<1>1. rec \in CallerType /\ rec.pc = "create" /\ rec.creds = caller[c].creds
  BY CallerTyped DEF CallerType
<1>2. caller' = [caller EXCEPT ![c] = rec] /\ UNCHANGED <<runs, connector, queue, worker, faults>>
  BY DEF FindNone
<1> HIDE DEF rec
<1>3. connector.creds <= connector.creds
  BY CallerTyped DEF ConnectorType
<1> QED
  BY <1>1, <1>2, <1>3, CallerStep, CallerTyped

(* The request is over, answered or not.                                                *)
LEMMA AnswerStep ==
  ASSUME IInv, NEW c \in Callers, Send(c) \/ SendFails(c) \/ CallerDies(c)
  PROVE  IInv'
<1>1. Away.pc = "idle" /\ Away.creds = 0
  BY DEF Away
<1>2. caller' = [caller EXCEPT ![c] = Away] /\ UNCHANGED <<runs, connector, worker>>
  BY DEF Send, SendFails, CallerDies, Answer
<1>3. faults' \in 0 .. MaxFaults
  BY CallerTyped, BootstrapAssumption DEF Send, SendFails, CallerDies, Fault
<1>4. \/ UNCHANGED queue
      \/ /\ queue' = [queue EXCEPT ![caller[c].run] = "queued"]
         /\ caller[c].run \in Runs /\ runs[caller[c].run].status # "absent"
  BY DEF Send, SendFails, CallerDies, IInv, RunsInHand
<1>5. /\ queue' \in [Runs -> {"none", "queued", "delivered"}]
      /\ \A r \in Runs : queue'[r] # "none" => runs[r].status # "absent"
  BY <1>4, CallerTyped
<1>6. 0 <= connector.creds /\ connector.creds <= connector.creds
  BY CallerTyped DEF ConnectorType
<1>7. connector' \in ConnectorType /\ connector'.row <= connector'.creds
      /\ connector'.creds = connector.creds
  BY <1>2, CallerTyped
<1>8. Away.pc # "find" /\ Away.pc # "supersede" /\ Away.pc # "send"
  BY <1>1
<1> QED
  BY <1>1, <1>2, <1>3, <1>5, <1>6, <1>7, <1>8, CallerStep, CallerTyped

---------------------------------------------------------------------------------------
(* The requests that change a run                                                       *)
LEMMA RowsTyped ==
  ASSUME IInv
  PROVE  /\ runs \in [Runs -> RunType]
         /\ \A w \in Workers : worker[w].pc # "idle" =>
              worker[w].run \in Runs /\ Row(w) = runs[worker[w].run]
         /\ \A r \in Runs : runs[r].used \in Nat /\ runs[r].owed \in Nat
         /\ \A w \in Workers : worker[w].creds \in Nat
         /\ \A c \in Callers : caller[c].creds \in Creds
         /\ connector.creds \in Nat
BY BootstrapAssumption
   DEF IInv, TypeOK, RunsInHand, Row, RunType, WorkerType, CallerType, ConnectorType, Creds

LEMMA SupersedeStep ==
  ASSUME IInv, NEW c \in Callers, Supersede(c)
  PROVE  IInv'
<1>1. PICK r \in DOMAIN caller[c].copies :
        LET rest == DOMAIN caller[c].copies \ {r}
        IN /\ runs' = [runs EXCEPT
                ![r].status = "failed",
                ![r].meta = [caller[c].copies[r] EXCEPT !.superseded = TRUE]]
           /\ caller' = [caller EXCEPT
                ![c].pc = IF rest = {} THEN "find" ELSE "supersede",
                ![c].copies = [q \in rest |-> caller[c].copies[q]]]
  BY DEF Supersede
<1> DEFINE rest == DOMAIN caller[c].copies \ {r}
           pc == IF rest = {} THEN "find" ELSE "supersede"
           copies == [q \in rest |-> caller[c].copies[q]]
           rec == [caller[c] EXCEPT !.pc = pc, !.copies = copies]
           row == [runs[r] EXCEPT !.status = "failed",
                     !.meta = [caller[c].copies[r] EXCEPT !.superseded = TRUE]]
<1>2. PICK S \in SUBSET Runs : caller[c].copies \in [S -> MetaType]
  <2>1. caller[c].copies \in UNION {[S -> MetaType] : S \in SUBSET Runs}
    BY CallerTyped DEF CallerType
  <2> QED
    BY <2>1, Zenon
<1>3. r \in Runs /\ caller[c].copies[r] \in MetaType /\ rest \in SUBSET Runs
  BY <1>2
<1>4. copies \in UNION {[T -> MetaType] : T \in SUBSET Runs} /\ DOMAIN copies = rest
  <2>1. copies \in [rest -> MetaType]
    BY <1>2
  <2> QED
    BY <1>3, <2>1, Zenon
<1>5. /\ runs' = [runs EXCEPT ![r] = row] /\ caller' = [caller EXCEPT ![c] = rec]
      /\ UNCHANGED <<connector, queue, worker, faults>> /\ caller[c].pc = "supersede"
  <2>1. runs' = [runs EXCEPT ![r] = row]
    BY <1>1, <1>3, RowsTyped DEF RunType
  <2>2. \A p, cs : [caller EXCEPT ![c].pc = p, ![c].copies = cs] =
                     [caller EXCEPT ![c] = [caller[c] EXCEPT !.pc = p, !.copies = cs]]
    BY CallerTyped DEF IInv, TypeOK, CallerType
  <2>3. caller' = [caller EXCEPT ![c].pc = pc, ![c].copies = copies]
    BY <1>1
  <2>4. caller' = [caller EXCEPT ![c] = rec]
    BY <2>2, <2>3
  <2>5. UNCHANGED <<connector, queue, worker, faults>> /\ caller[c].pc = "supersede"
    BY DEF Supersede
  <2> QED
    BY <2>1, <2>4, <2>5
<1>6. row \in RunType /\ row.status = "failed" /\ row.used = runs[r].used /\ row.owed = runs[r].owed
  BY ZenonT(60), <1>3, RowsTyped DEF RunType, MetaType
<1>7. pc \in {"find", "supersede"} /\ (pc = "find" => rest = {})
  OBVIOUS
<1>8. rest = DOMAIN caller[c].copies \ {r}
  OBVIOUS
<1> HIDE DEF rest, pc, copies, row
<1>9. rec \in CallerType /\ rec.pc = pc /\ rec.copies = copies /\ rec.creds = caller[c].creds
  BY <1>4, <1>7, CallerTyped DEF CallerType
<1> HIDE DEF rec
<1>10. /\ runs' \in [Runs -> RunType] /\ caller' \in [Callers -> CallerType]
       /\ runs'[r] = row /\ caller'[c] = rec
       /\ \A q \in Runs : q # r => runs'[q] = runs[q]
       /\ \A d \in Callers : d # c => caller'[d] = caller[d]
  BY <1>3, <1>5, <1>6, <1>9, RowsTyped DEF IInv, TypeOK
<1>11. TypeOK'
  BY <1>5, <1>10 DEF IInv, TypeOK
<1>12. RunsInHand'
  BY <1>5, <1>6, <1>7, <1>9, <1>10 DEF IInv, RunsInHand, Row
<1>13. OneImporter'
  BY <1>5 DEF IInv, OneImporter, Importing
<1>14. Progress'
  BY <1>5, <1>6, <1>10, RowsTyped DEF IInv, Progress, Importing, Row
<1>15. SucceededWhole'
  BY <1>6, <1>10 DEF IInv, SucceededWhole
<1>16. CredsGrow'
  BY <1>5, <1>6, <1>9, <1>10 DEF IInv, CredsGrow
<1>17. LoadedIsOwed'
  BY <1>5, <1>6, <1>10, RowsTyped DEF IInv, LoadedIsOwed, Loaded, Row
<1>18. OthersAreNew'
  BY <1>4, <1>5, <1>6, <1>7, <1>8, <1>9, <1>10 DEF IInv, OthersAreNew, IsActive, Loaded
<1>19. ReconnectUsesItsCredentials'
  BY <1>6, <1>10 DEF IInv, ReconnectUsesItsCredentials
<1> QED
  BY <1>11, <1>12, <1>13, <1>14, <1>15, <1>16, <1>17, <1>18, <1>19 DEF IInv

LEMMA FindActiveStep ==
  ASSUME IInv, NEW c \in Callers, FindActive(c)
  PROVE  IInv'
<1>1. PICK r \in Runs : IsNewestActive(r) /\ runs' = [runs EXCEPT ![r].owed = Owed(c, r)]
  BY DEF FindActive
<1>2. /\ caller' = [caller EXCEPT ![c] = Away] /\ caller[c].pc = "find" /\ IsActive(r)
      /\ UNCHANGED <<connector, queue, worker, faults>>
  BY <1>1 DEF FindActive, Answer, IsNewestActive
<1>3. Owed(c, r) \in Creds /\ Owed(c, r) \in {caller[c].creds, runs[r].owed}
  BY RowsTyped DEF Owed, RunType
<1>4. /\ runs' \in [Runs -> RunType] /\ caller' \in [Callers -> CallerType]
      /\ runs'[r] = [runs[r] EXCEPT !.owed = Owed(c, r)] /\ caller'[c] = Away
      /\ \A q \in Runs : q # r => runs'[q] = runs[q]
      /\ \A d \in Callers : d # c => caller'[d] = caller[d]
  BY <1>1, <1>2, <1>3, RowsTyped, CallerTyped DEF IInv, TypeOK, RunType
<1>5. \A q \in Runs : /\ runs'[q].status = runs[q].status /\ runs'[q].meta = runs[q].meta
                      /\ runs'[q].used = runs[q].used
                      /\ runs'[q].owed = runs[q].owed \/ (q = r /\ runs'[q].owed = caller[c].creds)
  BY <1>3, <1>4, RowsTyped DEF RunType
<1>6. Away.pc = "idle" /\ Away.creds = 0
  BY DEF Away
<1>7. TypeOK'
  BY <1>2, <1>4 DEF IInv, TypeOK
<1>8. RunsInHand'
  BY <1>2, <1>4, <1>5, <1>6 DEF IInv, RunsInHand, Row
<1>9. OneImporter'
  BY <1>2 DEF IInv, OneImporter, Importing
<1>10. Progress'
  BY <1>2, <1>5, RowsTyped DEF IInv, Progress, Importing, Row
<1>11. SucceededWhole'
  BY <1>5 DEF IInv, SucceededWhole
<1>12. CredsGrow'
  BY <1>2, <1>4, <1>5, <1>6, RowsTyped DEF IInv, CredsGrow
<1>13. IsNew(r, caller[c].creds)
  BY <1>2 DEF IInv, OthersAreNew, IsNew
<1>14. LoadedIsOwed'
  BY <1>2, <1>5, <1>13, RowsTyped DEF IInv, LoadedIsOwed, Loaded, Row, IsNew
<1>15. OthersAreNew'
  BY <1>2, <1>4, <1>5, <1>6 DEF IInv, OthersAreNew, IsActive, Loaded
<1>16. ReconnectUsesItsCredentials'
  BY <1>5, <1>13, RowsTyped DEF IInv, ReconnectUsesItsCredentials, IsNew
<1> QED
  BY <1>7, <1>8, <1>9, <1>10, <1>11, <1>12, <1>14, <1>15, <1>16 DEF IInv

LEMMA CreateStep ==
  ASSUME IInv, NEW c \in Callers, Create(c)
  PROVE  IInv'
<1>1. PICK r \in Runs :
        /\ runs[r].status = "absent"
        /\ runs' = [runs EXCEPT ![r] =
             [NoRun EXCEPT !.status = "pending", !.owed = caller[c].creds]]
        /\ caller' = [caller EXCEPT ![c].pc = "send", ![c].run = r]
  BY DEF Create
<1> DEFINE rec == [caller[c] EXCEPT !.pc = "send", !.run = r]
           row == [NoRun EXCEPT !.status = "pending", !.owed = caller[c].creds]
<1>2. /\ caller' = [caller EXCEPT ![c] = rec] /\ runs' = [runs EXCEPT ![r] = row]
      /\ UNCHANGED <<connector, queue, worker, faults>>
  BY ZenonT(60), <1>1, CallerTyped DEF Create, CallerType
<1>3. rec \in CallerType /\ rec.pc = "send" /\ rec.run = r /\ rec.creds = caller[c].creds
  BY CallerTyped DEF CallerType
<1>4. /\ row \in RunType /\ row.status = "pending" /\ row.used = 0 /\ row.owed = caller[c].creds
  BY CallerTyped, RowsTyped DEF NoRun, RunType, MetaType, Bare
<1> HIDE DEF rec, row
<1>5. /\ runs' \in [Runs -> RunType] /\ caller' \in [Callers -> CallerType]
      /\ runs'[r] = row /\ caller'[c] = rec
      /\ \A q \in Runs : q # r => runs'[q] = runs[q]
      /\ \A d \in Callers : d # c => caller'[d] = caller[d]
  BY <1>2, <1>3, <1>4, RowsTyped DEF IInv, TypeOK
<1>6. \A w \in Workers : worker[w].pc # "idle" => worker[w].run # r
  BY <1>1, RowsTyped DEF IInv, RunsInHand
<1>7. TypeOK'
  BY <1>2, <1>5 DEF IInv, TypeOK
<1>8. RunsInHand'
  BY <1>2, <1>3, <1>4, <1>5 DEF IInv, RunsInHand, Row
<1>9. OneImporter'
  BY <1>2 DEF IInv, OneImporter, Importing
<1>10. Progress'
  BY <1>2, <1>5, <1>6, RowsTyped DEF IInv, Progress, Importing, Row
<1>11. SucceededWhole'
  BY <1>4, <1>5 DEF IInv, SucceededWhole
<1>12. CredsGrow'
  BY <1>2, <1>3, <1>4, <1>5 DEF IInv, CredsGrow
<1>13. LoadedIsOwed'
  BY <1>2, <1>5, <1>6, RowsTyped DEF IInv, LoadedIsOwed, Loaded, Row
<1>14. OthersAreNew'
  BY <1>2, <1>3, <1>4, <1>5, <1>6 DEF IInv, OthersAreNew, IsActive, Loaded
<1>15. ReconnectUsesItsCredentials'
  BY <1>4, <1>5 DEF IInv, ReconnectUsesItsCredentials
<1> QED
  BY <1>7, <1>8, <1>9, <1>10, <1>11, <1>12, <1>13, <1>14, <1>15 DEF IInv

---------------------------------------------------------------------------------------
LEMMA NextStep ==
  ASSUME IInv, Next
  PROVE  IInv'
<1>1. CASE Disconnect
  BY <1>1, DisconnectStep
<1>2. ASSUME NEW c \in Callers,
             Connect(c) \/ ManualFetch(c) \/ Enqueue(c) \/ SendFails(c) \/ CallerDies(c)
      PROVE  IInv'
  BY <1>2, ConnectStep, ManualFetchStep, ListStep, SupersedeStep, FindActiveStep, FindNoneStep,
     CreateStep, AnswerStep DEF Enqueue
<1>3. ASSUME NEW w \in Workers, Execute(w)
      PROVE  IInv'
  BY <1>3, ClaimStep, LooksStep, LoadConnectorStep, ImportLoadStep, ApartStep, SavesStep,
     LeaveStep DEF Execute
<1>4. ASSUME NEW w \in Workers, Kill(w) \/ LoseProcess(w) \/ \E r \in Runs : Receive(w, r)
      PROVE  IInv'
  BY <1>4, LeaveStep, ReceiveStep
<1>5. ASSUME NEW r \in Runs, Redeliver(r)
      PROVE  IInv'
  BY <1>5, RedeliverStep
<1> QED
  BY <1>1, <1>2, <1>3, <1>4, <1>5 DEF Next

(* Whatever is delivered twice, killed, lost, reconnected or disconnected, and in       *)
(* whatever order, the state of the code keeps the inductive invariant.                 *)
THEOREM Invariance == Spec => []IInv
<1>1. Init => IInv
  BY InitInv
<1>2. IInv /\ [Next]_vars => IInv'
  BY NextStep, StutterInv
<1> QED
  BY <1>1, <1>2, PTL DEF Spec

(* Every row, request, message and task is of its type.                                 *)
THEOREM TypeCorrect == Spec => []TypeOK
<1>1. IInv => TypeOK
  BY DEF IInv
<1> QED
  BY <1>1, Invariance, PTL

(* The conditional update of the status is enough for one import per bootstrap run,     *)
(* with any number of workers and however often Celery delivers a message.              *)
THEOREM OneImporterHolds == Spec => []OneImporter
<1>1. IInv => OneImporter
  BY DEF IInv
<1> QED
  BY <1>1, Invariance, PTL

(* The order in which reconnect_connector saves the credentials, supersedes the active  *)
(* runs and looks for one is enough for the run it is answered with to import no older  *)
(* credentials, with any number of requests beside it.                                  *)
THEOREM ReconnectUsesItsCredentialsHolds == Spec => []ReconnectUsesItsCredentials
<1>1. IInv => ReconnectUsesItsCredentials
  BY DEF IInv
<1> QED
  BY <1>1, Invariance, PTL

(* A succeeded run names its snapshot, although every save of a run's metadata saves it *)
(* whole, from a copy that another process may have made stale.                         *)
THEOREM SucceededWholeHolds == Spec => []SucceededWhole
<1>1. IInv => SucceededWhole
  BY DEF IInv
<1> QED
  BY <1>1, Invariance, PTL

(* No save of a task or of a reconnect makes a run active that has ended.               *)
LEMMA EndedStep ==
  ASSUME IInv, Next
  PROVE  \A r \in Runs : runs[r].status \in {"succeeded", "failed"} => ~IsActive(r)'
<1> SUFFICES ASSUME NEW r \in Runs, runs[r].status \in {"succeeded", "failed"}
             PROVE  ~IsActive(r)'
  OBVIOUS
<1>1. runs \in [Runs -> RunType]
  BY RowsTyped
<1>2. CASE UNCHANGED runs
  BY <1>2 DEF IsActive
<1>3. ASSUME NEW c \in Callers, Supersede(c) \/ FindActive(c) \/ Create(c)
      PROVE  ~IsActive(r)'
  <2>1. CASE Supersede(c)
    BY <1>1, <2>1, CallerTyped DEF Supersede, IsActive, RunType
  <2>2. CASE FindActive(c)
    BY <1>1, <2>2 DEF FindActive, IsActive, RunType
  <2>3. CASE Create(c)
    BY <1>1, <2>3 DEF Create, IsActive
  <2> QED
    BY <1>3, <2>1, <2>2, <2>3
<1>4. ASSUME NEW w \in Workers,
             \/ Claim(w) \/ FailSave(w) \/ Attach(w) \/ Persist(w) \/ SaveSucceeded(w)
             \/ Report(w) \/ AttachBroken(w) \/ SaveFailed(w) \/ SaveCrashed(w)
      PROVE  ~IsActive(r)'
  <2>1. worker[w].run \in Runs /\ Row(w) = runs[worker[w].run]
    BY <1>4, RowsTyped DEF Claim, FailSave, Attach, Persist, SaveSucceeded, Report,
       AttachBroken, SaveFailed, SaveCrashed
  <2>2. CASE Claim(w)
    BY <1>1, <2>1, <2>2 DEF Claim, MayClaim, IsActive, RunType
  <2>3. CASE FailSave(w) \/ SaveSucceeded(w) \/ SaveFailed(w) \/ SaveCrashed(w)
    BY <1>1, <2>1, <2>3
       DEF FailSave, SaveSucceeded, SaveFailed, SaveCrashed, SaveEnd, IsActive, RunType
  <2>4. CASE Attach(w) \/ Report(w) \/ AttachBroken(w)
    BY <1>1, <2>1, <2>4 DEF Attach, Report, AttachBroken, SaveMeta, IsActive, RunType
  <2>5. CASE Persist(w)
    BY <1>1, <2>1, <2>5 DEF Persist, IsActive, RunType
  <2> QED
    BY <1>4, <2>2, <2>3, <2>4, <2>5
<1>5. \/ UNCHANGED runs
      \/ \E c \in Callers : Supersede(c) \/ FindActive(c) \/ Create(c)
      \/ \E w \in Workers :
           \/ Claim(w) \/ FailSave(w) \/ Attach(w) \/ Persist(w) \/ SaveSucceeded(w)
           \/ Report(w) \/ AttachBroken(w) \/ SaveFailed(w) \/ SaveCrashed(w)
  BY ZenonT(60) DEF Next, Enqueue, Execute, Disconnect, Connect, ManualFetch, List, FindNone, Send,
         SendFails, CallerDies, Kill, LoseProcess, Receive, Redeliver, Check, LoadConnector,
         Preflight, PreflightFails, PreflightRaises, FailCheck, ApplyStatus, Recheck,
         ImportLoad, Fetch, AssertMayPersist, MarkSucceeded, ImportReturns, BreakOff,
         FailureSnapshot, MarkFailed, ImportFailed, Crash, MarkCrashed, Return, Look
<1> QED
  BY <1>2, <1>3, <1>4, <1>5

(* A run that has ended stays so, whichever of the unguarded saves comes last.          *)
THEOREM EndedStaysEndedHolds == Spec => EndedStaysEnded
<1>1. IInv /\ [Next]_vars =>
        [\A r \in Runs : runs[r].status \in {"succeeded", "failed"} => ~IsActive(r)']_vars
  BY EndedStep
<1>2. Spec => []IInv /\ [][Next]_vars
  BY Invariance, PTL DEF Spec
<1>3. Spec => [][\A r \in Runs : runs[r].status \in {"succeeded", "failed"} => ~IsActive(r)']_vars
  BY <1>1, <1>2, PTL
<1> QED
  BY <1>3 DEF EndedStaysEnded

==========================================================================================
