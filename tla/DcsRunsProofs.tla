------------------------------ MODULE DcsRunsProofs ------------------------------
(* Proofs about the runs: about DcsRuns, for any number of runs, callers and       *)
(* workers and any budgets with TaskLimit < Visibility; and about what is fixed    *)
(* between them, FixCycle.                                                         *)
EXTENDS DcsRuns, FixCycle, FiniteSetTheorems, WellFoundedInduction, TLAPS

(* No rows, no messages, nobody at work                                           *)
LEMMA InitInv == ASSUME Init PROVE IInv
  BY DcsAssumption
     DEF Init, IInv, TypeOK, LocalsBound, HoldsMessage, SentOnce, OneWorkerPerRun,
         NotYetScored, SucceededShowsScore, Executes, Busy, NoRun, NoMessage, Waiting, Free,
         RunType, RunStatus, MessageType, CallerType, WorkerType, Trigger

---------------------------------------------------------------------------------
(* Steps of a caller                                                              *)

(* A step that moves one caller to a pc other than "send" and touches nothing else *)
LEMMA CallerStep ==
  ASSUME IInv, NEW c \in Callers, NEW rec \in CallerType,
         caller' = [caller EXCEPT ![c] = rec],
         rec.pc # "send",
         rec.pc \in {"mark", "markRetry"} => rec.run \in Runs,
         UNCHANGED <<rows, scores, broker, worker, lost>>
  PROVE  IInv'
<1>1. TypeOK'
  BY DEF IInv, TypeOK
<1>2. /\ caller'[c] = rec
      /\ \A d \in Callers : d # c => caller'[d] = caller[d]
  BY DEF IInv, TypeOK
<1>3. LocalsBound'
  BY <1>2 DEF IInv, LocalsBound, Busy
<1>4. SentOnce'
  BY <1>2 DEF IInv, SentOnce
<1> QED
  BY <1>1, <1>3, <1>4 DEF IInv, HoldsMessage, OneWorkerPerRun, NotYetScored,
     SucceededShowsScore, Executes, Busy

(* The records a caller is left with are well typed.                              *)
LEMMA WaitingType == Waiting \in CallerType /\ Waiting.pc = "idle"
  BY DEF Waiting, CallerType, Trigger

LEMMA ReapedType ==
  ASSUME NEW c \in Callers, caller[c] \in CallerType
  PROVE  Reaped(c) \in CallerType /\ Reaped(c).pc \in {"idle", "manual", "check"}
  BY DEF Reaped, AfterReap, Waiting, CallerType, Trigger

(* The steps of an enqueue, one by one                                            *)
LEMMA CallStep ==
  ASSUME IInv, NEW c \in Callers, NEW trigger \in Trigger, Call(c, trigger)
  PROVE  IInv'
<1> DEFINE rec == [Waiting EXCEPT !.pc = "reap", !.trigger = trigger]
<1>1. rec \in CallerType /\ rec.pc = "reap"
  BY DEF Waiting, CallerType
<1>2. /\ caller' = [caller EXCEPT ![c] = rec]
      /\ UNCHANGED <<rows, scores, broker, worker, lost>>
  BY DEF Call
<1> HIDE DEF rec
<1> QED
  BY <1>1, <1>2, CallerStep

LEMMA ReapStep ==
  ASSUME IInv, NEW c \in Callers, Reap(c)
  PROVE  IInv'
<1>1. caller[c] \in CallerType /\ rows \in [Runs -> RunType]
  BY DEF IInv, TypeOK
<1>2. UNCHANGED <<rows, scores, broker, worker, lost>>
  BY DEF Reap
<1>3. CASE \E r \in Runs : ToReap(c, r)
  <2>1. PICK r \in Runs : caller' = [caller EXCEPT ![c] =
          [caller[c] EXCEPT !.pc = IF caller[c].pc = "reap" THEN "mark" ELSE "markRetry",
                            !.run = r, !.results = rows[r].results]]
    BY <1>1, <1>3 DEF Reap, IInv, TypeOK
  <2> DEFINE rec == [caller[c] EXCEPT !.pc = IF caller[c].pc = "reap" THEN "mark" ELSE "markRetry",
                            !.run = r, !.results = rows[r].results]
  <2>2. rec \in CallerType /\ rec.pc \in {"mark", "markRetry"} /\ rec.run = r
    BY <1>1 DEF CallerType, RunType
  <2>3. caller' = [caller EXCEPT ![c] = rec]
    BY <2>1
  <2> HIDE DEF rec
  <2> QED
    BY <1>2, <2>2, <2>3, CallerStep
<1>4. CASE ~ \E r \in Runs : ToReap(c, r)
  <2>1. caller' = [caller EXCEPT ![c] = Reaped(c)]
    BY <1>4 DEF Reap
  <2> QED
    BY <1>1, <1>2, <2>1, ReapedType, CallerStep
<1> QED
  BY <1>3, <1>4

LEMMA ManualStep ==
  ASSUME IInv, NEW c \in Callers, Manual(c)
  PROVE  IInv'
<1> PICK pc \in {"retry", "check"} :
      caller' = [caller EXCEPT ![c] = [caller[c] EXCEPT !.pc = pc]]
  BY DEF Manual
<1> DEFINE rec == [caller[c] EXCEPT !.pc = pc]
<1>1. rec \in CallerType /\ rec.pc \in {"retry", "check"}
  BY DEF IInv, TypeOK, CallerType
<1>2. /\ caller' = [caller EXCEPT ![c] = rec]
      /\ UNCHANGED <<rows, scores, broker, worker, lost>>
  BY DEF Manual
<1> HIDE DEF rec
<1> QED
  BY <1>1, <1>2, CallerStep

LEMMA AnswerStep ==
  ASSUME IInv, NEW c \in Callers, Refuse(c) \/ CallerDies(c)
  PROVE  IInv'
  BY WaitingType, CallerStep DEF Refuse, CallerDies, Answer

LEMMA CheckStep ==
  ASSUME IInv, NEW c \in Callers, Check(c)
  PROVE  IInv'
<1> DEFINE rec == [caller[c] EXCEPT !.pc = "create"]
<1>1. rec \in CallerType /\ rec.pc = "create"
  BY DEF IInv, TypeOK, CallerType
<1>2. /\ caller' = [caller EXCEPT ![c] = rec]
      /\ UNCHANGED <<rows, scores, broker, worker, lost>>
  BY DEF Check
<1> HIDE DEF rec
<1> QED
  BY <1>1, <1>2, CallerStep

LEMMA MarkStep ==
  ASSUME IInv, NEW c \in Callers, Mark(c)
  PROVE  IInv'
<1> DEFINE r == caller[c].run
           row == [rows[r] EXCEPT !.status = "failed", !.results = caller[c].results]
<1>1. r \in Runs /\ caller[c] \in CallerType /\ rows[r] \in RunType
  BY DEF IInv, TypeOK, LocalsBound, Mark
<1>2. row \in RunType /\ row.status = "failed"
  BY <1>1 DEF RunType, RunStatus, CallerType
<1>3. /\ rows' = [rows EXCEPT ![r] = row]
      /\ caller' = [caller EXCEPT ![c] = Reaped(c)]
      /\ UNCHANGED <<scores, broker, worker, lost>>
  BY DEF Mark
<1>4. Reaped(c) \in CallerType /\ Reaped(c).pc \in {"idle", "manual", "check"}
  BY <1>1, ReapedType
<1> HIDE DEF r, row
<1>5. TypeOK'
  BY <1>2, <1>3, <1>4 DEF IInv, TypeOK
<1>6. /\ rows'[r] = row /\ \A q \in Runs : q # r => rows'[q] = rows[q]
      /\ caller'[c] = Reaped(c) /\ \A d \in Callers : d # c => caller'[d] = caller[d]
  BY <1>1, <1>3 DEF IInv, TypeOK
<1>7. LocalsBound' /\ HoldsMessage' /\ OneWorkerPerRun'
  BY <1>3, <1>4, <1>6 DEF IInv, LocalsBound, HoldsMessage, OneWorkerPerRun, Executes, Busy
<1>8. SentOnce'
  <2>1. \A q \in Runs : rows[q].status # "absent" => rows'[q].status # "absent"
    BY <1>2, <1>6
  <2>2. \A d \in Callers : caller'[d].pc = "send" => d # c /\ caller'[d] = caller[d]
    BY <1>4, <1>6
  <2> QED
    BY <1>3, <2>1, <2>2 DEF IInv, SentOnce, LocalsBound
<1>9. NotYetScored' /\ SucceededShowsScore'
  BY <1>2, <1>3, <1>6 DEF IInv, NotYetScored, SucceededShowsScore, LocalsBound, Busy
<1> QED
  BY <1>5, <1>7, <1>8, <1>9 DEF IInv

LEMMA CreateStep ==
  ASSUME IInv, NEW c \in Callers, NEW r \in Runs, Create(c, r)
  PROVE  IInv'
<1> DEFINE row == [status |-> "pending", daily |-> caller[c].trigger = "daily_beat",
                   age |-> 0, results |-> FALSE]
           rec == [caller[c] EXCEPT !.pc = "send", !.run = r]
<1>1. row \in RunType /\ row.status = "pending"
  BY DcsAssumption DEF RunType, RunStatus
<1>2. rec \in CallerType /\ rec.pc = "send" /\ rec.run = r
  BY DEF IInv, TypeOK, CallerType
<1>3. /\ rows[r].status = "absent"
      /\ rows' = [rows EXCEPT ![r] = row]
      /\ caller' = [caller EXCEPT ![c] = rec]
      /\ UNCHANGED <<scores, broker, worker, lost>>
  BY DEF Create
<1> HIDE DEF row, rec
<1>4. TypeOK'
  BY <1>1, <1>2, <1>3 DEF IInv, TypeOK
<1>5. /\ rows'[r] = row /\ \A q \in Runs : q # r => rows'[q] = rows[q]
      /\ caller'[c] = rec /\ \A d \in Callers : d # c => caller'[d] = caller[d]
  BY <1>3 DEF IInv, TypeOK
<1>6. LocalsBound' /\ HoldsMessage' /\ OneWorkerPerRun'
  BY <1>2, <1>3, <1>5 DEF IInv, LocalsBound, HoldsMessage, OneWorkerPerRun, Executes, Busy
<1>7. SentOnce'
  <2>1. \A q \in Runs : rows[q].status # "absent" => rows'[q].status # "absent"
    BY <1>1, <1>5
  <2>2. broker[r].state = "none"
    BY <1>3 DEF IInv, SentOnce
  <2>3. \A d \in Callers : d # c /\ caller'[d].pc = "send" => caller'[d].run # r
    BY <1>3, <1>5 DEF IInv, SentOnce
  <2>4. rows'[r].status # "absent"
    BY <1>1, <1>5
  <2> QED
    BY <1>2, <1>3, <1>5, <2>1, <2>2, <2>3, <2>4 DEF IInv, SentOnce, LocalsBound
<1>8. NotYetScored' /\ SucceededShowsScore'
  BY <1>1, <1>3, <1>5 DEF IInv, NotYetScored, SucceededShowsScore, LocalsBound, Busy
<1> QED
  BY <1>4, <1>6, <1>7, <1>8 DEF IInv

LEMMA SendStep ==
  ASSUME IInv, NEW c \in Callers, NEW raised \in BOOLEAN, NEW sent \in BOOLEAN,
         Send(c, raised, sent)
  PROVE  IInv'
<1> DEFINE r == caller[c].run
           msg == [state |-> "queued", age |-> 0]
           row == [rows[r] EXCEPT !.status = "failed", !.results = FALSE]
<1>1. r \in Runs /\ caller[c].pc = "send" /\ rows[r] \in RunType
  BY DEF IInv, TypeOK, LocalsBound, Send
<1>2. row \in RunType /\ row.status = "failed"
  BY <1>1 DEF RunType, RunStatus
<1>3. msg \in MessageType /\ msg.state = "queued"
  BY DcsAssumption DEF MessageType
<1>4. /\ broker' = IF sent THEN [broker EXCEPT ![r] = msg] ELSE broker
      /\ rows' = IF raised THEN [rows EXCEPT ![r] = row] ELSE rows
      /\ caller' = [caller EXCEPT ![c] = Waiting]
      /\ UNCHANGED <<scores, worker, lost>>
  BY DEF Send, Answer
<1>5. broker[r].state = "none" /\ rows[r].status # "absent"
  BY <1>1 DEF IInv, SentOnce
<1> HIDE DEF r, row, msg
<1>6. TypeOK'
  BY <1>1, <1>2, <1>3, <1>4, WaitingType DEF IInv, TypeOK
<1>7. /\ \A q \in Runs : q # r => rows'[q] = rows[q] /\ broker'[q] = broker[q]
      /\ rows'[r] \in {row, rows[r]}
      /\ caller'[c] = Waiting /\ \A d \in Callers : d # c => caller'[d] = caller[d]
  BY <1>1, <1>4 DEF IInv, TypeOK
<1>8. \A w \in Workers : Busy(w) => worker[w].run # r
  BY <1>5 DEF IInv, HoldsMessage
<1>9. LocalsBound' /\ HoldsMessage' /\ OneWorkerPerRun'
  BY <1>4, <1>7, <1>8, WaitingType
     DEF IInv, LocalsBound, HoldsMessage, OneWorkerPerRun, Executes, Busy
<1>10. SentOnce'
  <2>1. \A q \in Runs : rows[q].status # "absent" => rows'[q].status # "absent"
    BY <1>2, <1>7
  <2>2. \A d \in Callers : caller'[d].pc = "send" => d # c /\ caller'[d] = caller[d]
    BY <1>7, WaitingType
  <2>3. \A d \in Callers : d # c /\ caller[d].pc = "send" => caller[d].run # r
    BY <1>1 DEF IInv, SentOnce, r
  <2>4. \A q \in Runs : broker'[q].state # "none" => rows'[q].status # "absent"
    BY <1>5, <1>7, <2>1 DEF IInv, SentOnce
  <2> QED
    BY <1>7, <2>1, <2>2, <2>3, <2>4 DEF IInv, SentOnce, LocalsBound
<1>11. NotYetScored' /\ SucceededShowsScore'
  BY <1>2, <1>4, <1>7 DEF IInv, NotYetScored, SucceededShowsScore, LocalsBound, Busy
<1> QED
  BY <1>6, <1>9, <1>10, <1>11 DEF IInv

---------------------------------------------------------------------------------
(* Steps of a worker                                                              *)

(* A task in progress is the only one of its run, and its run was created.        *)
LEMMA TaskFacts ==
  ASSUME IInv, NEW w \in Workers, Busy(w)
  PROVE  /\ worker[w].run \in Runs
         /\ worker[w] \in WorkerType
         /\ rows[worker[w].run] \in RunType
         /\ rows[worker[w].run].status # "absent"
         /\ broker[worker[w].run].state = "delivered"
         /\ \A v \in Workers : Busy(v) /\ worker[v].run = worker[w].run => v = w
         /\ \A c \in Callers : caller[c].pc = "send" => caller[c].run # worker[w].run
<1>1. worker[w].run \in Runs /\ broker[worker[w].run].state = "delivered"
  BY DEF IInv, LocalsBound, HoldsMessage
<1>2. worker[w] \in WorkerType /\ rows[worker[w].run] \in RunType
  BY <1>1 DEF IInv, TypeOK
<1>3. /\ rows[worker[w].run].status # "absent"
      /\ \A c \in Callers : caller[c].pc = "send" => caller[c].run # worker[w].run
  BY <1>1 DEF IInv, SentOnce
<1>4. \A v \in Workers : Busy(v) /\ worker[v].run = worker[w].run => v = w
  BY <1>1 DEF IInv, OneWorkerPerRun, Executes
<1> QED
  BY <1>1, <1>2, <1>3, <1>4

(* A task writes its row and goes on.                                             *)
LEMMA WriteStep ==
  ASSUME IInv, NEW w \in Workers, Busy(w),
         NEW row \in RunType, NEW rec \in WorkerType,
         rows' = [rows EXCEPT ![worker[w].run] = row],
         worker' = [worker EXCEPT ![w] = rec],
         rec.pc # "idle", rec.run = worker[w].run, rec.age = worker[w].age,
         row.status # "absent",
         scores' \in [Runs -> Nat],
         \A q \in Runs : q # worker[w].run => scores'[q] = scores[q],
         row.status = "succeeded" =>
           row.results /\ scores'[worker[w].run] > 0 /\ rec.pc \notin {"loaded", "running"},
         UNCHANGED <<broker, caller, lost>>
  PROVE  IInv'
<1> DEFINE r == worker[w].run
<1>1. /\ r \in Runs
      /\ \A v \in Workers : Busy(v) /\ worker[v].run = r => v = w
  BY TaskFacts
<1>2. TypeOK'
  BY <1>1 DEF IInv, TypeOK
<1>3. /\ rows'[r] = row /\ \A q \in Runs : q # r => rows'[q] = rows[q]
      /\ worker'[w] = rec /\ \A v \in Workers : v # w => worker'[v] = worker[v]
  BY <1>1 DEF IInv, TypeOK
<1>4. LocalsBound' /\ HoldsMessage' /\ OneWorkerPerRun'
  BY <1>1, <1>3 DEF IInv, LocalsBound, HoldsMessage, OneWorkerPerRun, Executes, Busy
<1>5. SentOnce'
  <2>1. \A q \in Runs : rows[q].status # "absent" => rows'[q].status # "absent"
    BY <1>3
  <2> QED
    BY <2>1 DEF IInv, SentOnce, LocalsBound
<1>6. NotYetScored'
  BY <1>1, <1>3 DEF IInv, NotYetScored, LocalsBound, Busy
<1>7. SucceededShowsScore'
  BY <1>1, <1>3 DEF IInv, SucceededShowsScore
<1> QED
  BY <1>2, <1>4, <1>5, <1>6, <1>7 DEF IInv

(* The saves of the pipeline are write steps.                                     *)
LEMMA StartStep ==
  ASSUME IInv, NEW w \in Workers, Start(w)
  PROVE  IInv'
<1> DEFINE row == [rows[worker[w].run] EXCEPT !.status = "running"]
           rec == [worker[w] EXCEPT !.pc = "running"]
<1>1. Busy(w)
  BY DEF Start, Busy
<1>2. row \in RunType /\ row.status = "running"
  BY <1>1, TaskFacts DEF RunType, RunStatus
<1>3. /\ rec \in WorkerType /\ rec.pc = "running" /\ rec.run = worker[w].run
      /\ rec.age = worker[w].age
  BY <1>1, TaskFacts DEF WorkerType
<1>4. /\ rows' = [rows EXCEPT ![worker[w].run] = row]
      /\ worker' = [worker EXCEPT ![w] = rec]
      /\ UNCHANGED <<scores, broker, caller, lost>>
  BY DEF Start
<1>5. scores' \in [Runs -> Nat] /\ \A q \in Runs : scores'[q] = scores[q]
  BY <1>4 DEF IInv, TypeOK
<1> HIDE DEF row, rec
<1> QED
  BY <1>1, <1>2, <1>3, <1>4, <1>5, WriteStep

LEMMA ProgressStep ==
  ASSUME IInv, NEW w \in Workers, Progress(w)
  PROVE  IInv'
<1> DEFINE row == [rows[worker[w].run] EXCEPT !.results = worker[w].results]
           rec == worker[w]
<1>1. Busy(w) /\ worker[w].pc = "running"
  BY DEF Progress, Busy
<1>2. row \in RunType /\ row.status = rows[worker[w].run].status
  BY <1>1, TaskFacts DEF RunType, WorkerType
<1>3. row.status \notin {"absent", "succeeded"}
  BY <1>1, <1>2, TaskFacts DEF IInv, NotYetScored
<1>4. /\ rows' = [rows EXCEPT ![worker[w].run] = row]
      /\ UNCHANGED <<scores, broker, caller, worker, lost>>
  BY DEF Progress
<1>5. rec \in WorkerType /\ worker' = [worker EXCEPT ![w] = rec]
  BY <1>4 DEF IInv, TypeOK
<1>6. scores' \in [Runs -> Nat] /\ \A q \in Runs : scores'[q] = scores[q]
  BY <1>4 DEF IInv, TypeOK
<1> HIDE DEF row
<1> QED
  BY <1>1, <1>2, <1>3, <1>4, <1>5, <1>6, WriteStep

LEMMA CommitStep ==
  ASSUME IInv, NEW w \in Workers, Commit(w)
  PROVE  IInv'
<1> DEFINE r == worker[w].run
           row == [rows[r] EXCEPT !.status = "succeeded", !.results = TRUE]
           rec == [worker[w] EXCEPT !.pc = "committed", !.results = TRUE]
<1>1. Busy(w)
  BY DEF Commit, Busy
<1>2. row \in RunType /\ row.status = "succeeded" /\ row.results
  BY <1>1, TaskFacts DEF RunType, RunStatus
<1>3. rec \in WorkerType /\ rec.pc = "committed" /\ rec.run = r /\ rec.age = worker[w].age
  BY <1>1, TaskFacts DEF WorkerType
<1>4. /\ rows' = [rows EXCEPT ![r] = row]
      /\ scores' = [scores EXCEPT ![r] = scores[r] + 1]
      /\ worker' = [worker EXCEPT ![w] = rec]
      /\ UNCHANGED <<broker, caller, lost>>
  BY DEF Commit
<1>5. r \in Runs /\ scores \in [Runs -> Nat]
  BY <1>1, TaskFacts DEF IInv, TypeOK
<1>6. /\ scores' \in [Runs -> Nat] /\ scores'[r] > 0
      /\ \A q \in Runs : q # r => scores'[q] = scores[q]
  BY <1>4, <1>5
<1> HIDE DEF row, rec
<1> QED
  BY <1>1, <1>2, <1>3, <1>4, <1>6, WriteStep

LEMMA FailStep ==
  ASSUME IInv, NEW w \in Workers, Fail(w)
  PROVE  IInv'
<1> DEFINE row == [rows[worker[w].run] EXCEPT !.status = "failed",
                                              !.results = worker[w].results]
           rec == [worker[w] EXCEPT !.pc = "reporting"]
<1>1. Busy(w)
  BY DEF Fail, Busy
<1>2. row \in RunType /\ row.status = "failed"
  BY <1>1, TaskFacts DEF RunType, RunStatus, WorkerType
<1>3. /\ rec \in WorkerType /\ rec.pc = "reporting" /\ rec.run = worker[w].run
      /\ rec.age = worker[w].age
  BY <1>1, TaskFacts DEF WorkerType
<1>4. /\ rows' = [rows EXCEPT ![worker[w].run] = row]
      /\ worker' = [worker EXCEPT ![w] = rec]
      /\ UNCHANGED <<scores, broker, caller, lost>>
  BY DEF Fail
<1>5. scores' \in [Runs -> Nat] /\ \A q \in Runs : scores'[q] = scores[q]
  BY <1>4 DEF IInv, TypeOK
<1> HIDE DEF row, rec
<1> QED
  BY <1>1, <1>2, <1>3, <1>4, <1>5, WriteStep

(* A free slot is well typed.                                                     *)
LEMMA FreeType == Free \in WorkerType /\ Free.pc = "idle"
  BY DcsAssumption DEF Free, WorkerType

(* A task ends: its slot is free, its message in some state.                      *)
LEMMA EndStep ==
  ASSUME IInv, NEW w \in Workers, Busy(w), Release(w),
         NEW row \in RunType, NEW msg \in MessageType,
         rows' = [rows EXCEPT ![worker[w].run] = row],
         row.status = rows[worker[w].run].status,
         row.status = "succeeded" => row.results,
         broker' = [broker EXCEPT ![worker[w].run] = msg],
         UNCHANGED <<scores, caller>>, lost' \in 0 .. MaxLost
  PROVE  IInv'
<1> DEFINE r == worker[w].run
<1>1. /\ r \in Runs
      /\ row.status # "absent"
      /\ \A v \in Workers : Busy(v) /\ worker[v].run = r => v = w
      /\ \A c \in Callers : caller[c].pc = "send" => caller[c].run # r
  BY TaskFacts
<1>2. TypeOK'
  BY <1>1, FreeType DEF IInv, TypeOK, Release
<1>3. /\ rows'[r] = row /\ broker'[r] = msg
      /\ \A q \in Runs : q # r => rows'[q] = rows[q] /\ broker'[q] = broker[q]
      /\ worker'[w] = Free /\ \A v \in Workers : v # w => worker'[v] = worker[v]
  BY <1>1 DEF IInv, TypeOK, Release
<1>4. LocalsBound' /\ HoldsMessage' /\ OneWorkerPerRun'
  BY <1>1, <1>3, FreeType
     DEF IInv, LocalsBound, HoldsMessage, OneWorkerPerRun, Executes, Busy
<1>5. SentOnce'
  <2>1. \A q \in Runs : rows[q].status # "absent" => rows'[q].status # "absent"
    BY <1>1, <1>3
  <2>2. \A q \in Runs : broker'[q].state # "none" => rows'[q].status # "absent"
    BY <1>1, <1>3, <2>1 DEF IInv, SentOnce
  <2> QED
    BY <1>1, <1>3, <2>1, <2>2 DEF IInv, SentOnce, LocalsBound
<1>6. NotYetScored'
  BY <1>1, <1>3, FreeType DEF IInv, NotYetScored, LocalsBound, Busy
<1>7. SucceededShowsScore'
  BY <1>1, <1>3 DEF IInv, SucceededShowsScore
<1> QED
  BY <1>2, <1>4, <1>5, <1>6, <1>7 DEF IInv

(* So are the messages a task leaves behind.                                      *)
LEMMA NoMessageType ==
  /\ NoMessage \in MessageType
  /\ [state |-> "queued", age |-> 0] \in MessageType
  BY DcsAssumption DEF NoMessage, MessageType

(* The ends of a task are end steps.                                              *)
LEMMA AckStep ==
  ASSUME IInv, NEW w \in Workers, StartFails(w) \/ Report(w) \/ Kill(w)
  PROVE  IInv'
<1> DEFINE row == rows[worker[w].run]
<1>1. Busy(w) /\ Release(w) /\ Ack(worker[w].run) /\ UNCHANGED <<rows, scores, caller, lost>>
  BY DEF StartFails, Report, Kill, Busy
<1>2. row \in RunType /\ (row.status = "succeeded" => row.results)
  BY <1>1, TaskFacts DEF IInv, SucceededShowsScore
<1>3. rows' = [rows EXCEPT ![worker[w].run] = row] /\ lost' \in 0 .. MaxLost
  BY <1>1 DEF IInv, TypeOK
<1> QED
  BY <1>1, <1>2, <1>3, EndStep, NoMessageType DEF Ack

LEMMA FinishStep ==
  ASSUME IInv, NEW w \in Workers, Finish(w)
  PROVE  IInv'
<1> DEFINE row == [rows[worker[w].run] EXCEPT !.results = TRUE]
<1>1. Busy(w) /\ Release(w) /\ Ack(worker[w].run) /\ UNCHANGED <<scores, caller, lost>>
  BY DEF Finish, Busy
<1>2. row \in RunType /\ row.results /\ row.status = rows[worker[w].run].status
  BY <1>1, TaskFacts DEF RunType
<1>3. rows' = [rows EXCEPT ![worker[w].run] = row] /\ lost' \in 0 .. MaxLost
  BY <1>1 DEF Finish, IInv, TypeOK
<1> HIDE DEF row
<1> QED
  BY <1>1, <1>2, <1>3, EndStep, NoMessageType DEF Ack

LEMMA LoseProcessStep ==
  ASSUME IInv, NEW w \in Workers, LoseProcess(w)
  PROVE  IInv'
<1> DEFINE row == rows[worker[w].run]
<1>1. /\ Busy(w) /\ Release(w) /\ UNCHANGED <<rows, scores, caller>>
      /\ lost < MaxLost /\ lost' = lost + 1
  BY DEF LoseProcess
<1>2. row \in RunType /\ (row.status = "succeeded" => row.results)
  BY <1>1, TaskFacts DEF IInv, SucceededShowsScore
<1>3. rows' = [rows EXCEPT ![worker[w].run] = row] /\ lost' \in 0 .. MaxLost
  BY <1>1, DcsAssumption DEF IInv, TypeOK
<1>4. CASE UNCHANGED broker
  <2>1. /\ broker[worker[w].run] \in MessageType
        /\ broker' = [broker EXCEPT ![worker[w].run] = broker[worker[w].run]]
    BY <1>1, <1>4, TaskFacts DEF IInv, TypeOK
  <2> QED
    BY <1>1, <1>2, <1>3, <2>1, EndStep
<1>5. CASE broker' = [broker EXCEPT ![worker[w].run] = [state |-> "queued", age |-> 0]]
  BY <1>1, <1>2, <1>3, <1>5, EndStep, NoMessageType
<1> QED
  BY <1>4, <1>5 DEF LoseProcess

---------------------------------------------------------------------------------
(* Delivery and time                                                              *)

(* No task is executing a run whose message is not delivered.                     *)
LEMMA NotExecuted ==
  ASSUME IInv, NEW r \in Runs, broker[r].state # "delivered"
  PROVE  \A w \in Workers : Busy(w) => worker[w].run # r
  BY DEF IInv, HoldsMessage

(* A queued message starts a task, or is dropped when its run has succeeded.      *)
LEMMA ReceiveStep ==
  ASSUME IInv, NEW w \in Workers, NEW r \in Runs, Receive(w, r)
  PROVE  IInv'
<1>1. /\ ~Busy(w) /\ broker[r].state = "queued" /\ rows[r] \in RunType
      /\ UNCHANGED <<rows, scores, caller, lost>>
  BY DEF Receive, IInv, TypeOK
<1>2. /\ rows[r].status # "absent"
      /\ \A c \in Callers : caller[c].pc = "send" => caller[c].run # r
      /\ \A v \in Workers : Busy(v) => worker[v].run # r
  BY <1>1, NotExecuted DEF IInv, SentOnce
<1>3. CASE rows[r].status = "succeeded"
  <2>1. broker' = [broker EXCEPT ![r] = NoMessage] /\ UNCHANGED worker
    BY <1>3 DEF Receive, Ack
  <2>2. TypeOK'
    BY <1>1, <2>1, NoMessageType DEF IInv, TypeOK
  <2>3. broker'[r] = NoMessage /\ \A q \in Runs : q # r => broker'[q] = broker[q]
    BY <2>1 DEF IInv, TypeOK
  <2>4. LocalsBound' /\ HoldsMessage' /\ OneWorkerPerRun' /\ NotYetScored'
    BY <1>1, <1>2, <2>1, <2>3
       DEF IInv, LocalsBound, HoldsMessage, OneWorkerPerRun, NotYetScored, Executes, Busy
  <2>5. SentOnce' /\ SucceededShowsScore'
    BY <1>1, <1>2, <2>3 DEF IInv, SentOnce, SucceededShowsScore, LocalsBound, NoMessage
  <2> QED
    BY <2>2, <2>4, <2>5 DEF IInv
<1>4. CASE rows[r].status # "succeeded"
  <2> DEFINE rec == [pc |-> "loaded", run |-> r, results |-> rows[r].results, age |-> 0]
             msg == [state |-> "delivered", age |-> 0]
  <2>1. rec \in WorkerType /\ rec.pc = "loaded" /\ rec.run = r /\ rec.age = 0
    BY <1>1, DcsAssumption DEF WorkerType, RunType
  <2>2. msg \in MessageType /\ msg.state = "delivered" /\ msg.age = 0
    BY DcsAssumption DEF MessageType
  <2>3. /\ broker' = [broker EXCEPT ![r] = msg]
        /\ worker' = [worker EXCEPT ![w] = rec]
    BY <1>4 DEF Receive
  <2> HIDE DEF rec, msg
  <2>4. TypeOK'
    BY <1>1, <2>1, <2>2, <2>3 DEF IInv, TypeOK
  <2>5. /\ broker'[r] = msg /\ \A q \in Runs : q # r => broker'[q] = broker[q]
        /\ worker'[w] = rec /\ \A v \in Workers : v # w => worker'[v] = worker[v]
    BY <2>3 DEF IInv, TypeOK
  <2>6. LocalsBound' /\ OneWorkerPerRun'
    BY <1>1, <1>2, <2>1, <2>5 DEF IInv, LocalsBound, OneWorkerPerRun, Executes, Busy
  <2>7. HoldsMessage'
    BY <1>2, <2>1, <2>2, <2>5, DcsAssumption DEF IInv, HoldsMessage, LocalsBound, Busy
  <2>8. NotYetScored'
    BY <1>1, <1>4, <2>1, <2>5 DEF IInv, NotYetScored
  <2>9. SentOnce' /\ SucceededShowsScore'
    BY <1>1, <1>2, <2>5 DEF IInv, SentOnce, SucceededShowsScore, LocalsBound
  <2> QED
    BY <2>4, <2>6, <2>7, <2>8, <2>9 DEF IInv
<1> QED
  BY <1>3, <1>4

(* A message that is handed out again belongs to no task in progress: the task    *)
(* would be older than the hard limit.                                            *)
LEMMA RedeliverStep ==
  ASSUME IInv, NEW r \in Runs, Redeliver(r)
  PROVE  IInv'
<1> DEFINE msg == [state |-> "queued", age |-> 0]
<1>1. /\ broker[r].state = "delivered" /\ broker[r].age >= Visibility
      /\ broker[r] \in MessageType
      /\ broker' = [broker EXCEPT ![r] = msg]
      /\ UNCHANGED <<rows, scores, caller, worker, lost>>
  BY DEF Redeliver, IInv, TypeOK
<1>2. \A w \in Workers : Busy(w) => worker[w].run # r
  <2> SUFFICES ASSUME NEW w \in Workers, Busy(w), worker[w].run = r PROVE FALSE
    OBVIOUS
  <2>1. broker[r].age <= worker[w].age /\ worker[w].age <= TaskLimit
    BY DEF IInv, HoldsMessage
  <2>2. broker[r].age \in Int /\ worker[w].age \in Int
    BY <1>1, TaskFacts, DcsAssumption DEF MessageType, WorkerType
  <2> QED
    BY <1>1, <2>1, <2>2, DcsAssumption, VisibilityAssumption
<1>3. msg \in MessageType /\ msg.state = "queued"
  BY DcsAssumption DEF MessageType
<1> HIDE DEF msg
<1>4. TypeOK'
  BY <1>1, <1>3 DEF IInv, TypeOK
<1>5. broker'[r] = msg /\ \A q \in Runs : q # r => broker'[q] = broker[q]
  BY <1>1 DEF IInv, TypeOK
<1>6. LocalsBound' /\ HoldsMessage' /\ OneWorkerPerRun' /\ NotYetScored'
  BY <1>1, <1>2, <1>5
     DEF IInv, LocalsBound, HoldsMessage, OneWorkerPerRun, NotYetScored, Executes, Busy
<1>7. SentOnce' /\ SucceededShowsScore'
  BY <1>1, <1>5 DEF IInv, SentOnce, SucceededShowsScore, LocalsBound
<1> QED
  BY <1>4, <1>6, <1>7 DEF IInv

(* Ages are saturated counters.                                                   *)
LEMMA OlderType ==
  ASSUME NEW limit \in Nat, NEW age \in 0 .. limit
  PROVE  /\ Older(age, limit) \in 0 .. limit
         /\ Older(age, limit) <= age + 1
         /\ age < limit => Older(age, limit) = age + 1
  BY DEF Older

(* All ages advance together, and no task gets past the hard limit.               *)
LEMMA TickStep ==
  ASSUME IInv, Tick
  PROVE  IInv'
<1>1. /\ rows \in [Runs -> RunType] /\ broker \in [Runs -> MessageType]
      /\ worker \in [Workers -> WorkerType]
      /\ UNCHANGED <<scores, caller, lost>>
  BY DEF IInv, TypeOK, Tick
<1>2. /\ rows' \in [Runs -> RunType]
      /\ \A r \in Runs : rows'[r].status = rows[r].status /\ rows'[r].results = rows[r].results
  <2> SUFFICES ASSUME NEW r \in Runs
               PROVE  /\ rows'[r] \in RunType
                      /\ rows'[r].status = rows[r].status /\ rows'[r].results = rows[r].results
    BY DEF Tick
  <2> DEFINE age == Older(rows[r].age, RunningStale)
  <2>1. age \in 0 .. RunningStale
    BY <1>1, OlderType, DcsAssumption DEF RunType
  <2>2. rows'[r] = IF IsActive(r) THEN [rows[r] EXCEPT !.age = age] ELSE rows[r]
    BY DEF Tick
  <2> HIDE DEF age
  <2> QED
    BY <1>1, <2>1, <2>2 DEF RunType
<1>3. /\ broker' \in [Runs -> MessageType]
      /\ \A r \in Runs : /\ broker'[r].state = broker[r].state
                         /\ broker'[r].age <= broker[r].age + 1
  <2> SUFFICES ASSUME NEW r \in Runs
               PROVE  /\ broker'[r] \in MessageType
                      /\ broker'[r].state = broker[r].state
                      /\ broker'[r].age <= broker[r].age + 1
    BY DEF Tick
  <2> DEFINE age == Older(broker[r].age, Visibility)
  <2>1. age \in 0 .. Visibility /\ age <= broker[r].age + 1
    BY <1>1, OlderType, DcsAssumption DEF MessageType
  <2>2. broker'[r] = IF broker[r].state = "delivered"
                       THEN [broker[r] EXCEPT !.age = age] ELSE broker[r]
    BY DEF Tick
  <2> HIDE DEF age
  <2> QED
    BY <1>1, <2>1, <2>2, DcsAssumption DEF MessageType
<1>4. /\ worker' \in [Workers -> WorkerType]
      /\ \A w \in Workers :
           /\ worker'[w].pc = worker[w].pc /\ worker'[w].run = worker[w].run
           /\ Busy(w) => worker[w].age < TaskLimit /\ worker'[w].age = worker[w].age + 1
  <2> SUFFICES ASSUME NEW w \in Workers
               PROVE  /\ worker'[w] \in WorkerType
                      /\ worker'[w].pc = worker[w].pc /\ worker'[w].run = worker[w].run
                      /\ Busy(w) => /\ worker[w].age < TaskLimit
                                    /\ worker'[w].age = worker[w].age + 1
    BY DEF Tick
  <2> DEFINE age == Older(worker[w].age, Visibility)
  <2>1. worker[w] \in WorkerType /\ worker[w].age \in 0 .. Visibility
    BY <1>1 DEF WorkerType
  <2>2. age \in 0 .. Visibility /\ (worker[w].age < Visibility => age = worker[w].age + 1)
    BY <2>1, OlderType, DcsAssumption
  <2>3. worker'[w] = IF Busy(w) THEN [worker[w] EXCEPT !.age = age] ELSE worker[w]
    BY DEF Tick
  <2>4. Busy(w) => worker[w].age < TaskLimit
    BY <2>1, DcsAssumption DEF Tick, PastHardLimit
  <2>5. Busy(w) => age = worker[w].age + 1
    BY <2>1, <2>2, <2>4, DcsAssumption, VisibilityAssumption
  <2> HIDE DEF age
  <2> QED
    BY <2>1, <2>2, <2>3, <2>4, <2>5 DEF WorkerType
<1>5. TypeOK'
  BY <1>1, <1>2, <1>3, <1>4 DEF IInv, TypeOK
<1>6. LocalsBound' /\ OneWorkerPerRun' /\ NotYetScored'
  BY <1>1, <1>2, <1>4
     DEF IInv, LocalsBound, OneWorkerPerRun, NotYetScored, Executes, Busy
<1>7. HoldsMessage'
  <2> SUFFICES ASSUME NEW w \in Workers, Busy(w)
               PROVE  /\ broker'[worker[w].run].state = "delivered"
                      /\ broker'[worker[w].run].age <= worker'[w].age
                      /\ worker'[w].age <= TaskLimit
    BY <1>4 DEF HoldsMessage, Busy
  <2>1. /\ worker[w].run \in Runs
        /\ broker[worker[w].run].state = "delivered"
        /\ broker[worker[w].run].age <= worker[w].age
    BY DEF IInv, LocalsBound, HoldsMessage
  <2>2. /\ worker[w].age \in Int
        /\ broker[worker[w].run].age \in Int /\ broker'[worker[w].run].age \in Int
    BY <1>1, <1>3, <2>1, DcsAssumption DEF WorkerType, MessageType
  <2> QED
    BY <1>3, <1>4, <2>1, <2>2, DcsAssumption
<1>8. SentOnce' /\ SucceededShowsScore'
  BY <1>1, <1>2, <1>3 DEF IInv, SentOnce, SucceededShowsScore, LocalsBound
<1> QED
  BY <1>5, <1>6, <1>7, <1>8 DEF IInv

(* A new day only forgets the daily runs.                                         *)
LEMMA NewDayStep ==
  ASSUME IInv, NewDay
  PROVE  IInv'
<1>1. UNCHANGED <<scores, broker, caller, worker, lost>>
  BY DEF NewDay
<1>2. /\ rows' \in [Runs -> RunType]
      /\ \A r \in Runs : rows'[r].status = rows[r].status /\ rows'[r].results = rows[r].results
  BY DEF NewDay, IInv, TypeOK, RunType
<1>3. TypeOK' /\ LocalsBound' /\ HoldsMessage' /\ OneWorkerPerRun'
  BY <1>1, <1>2
     DEF IInv, TypeOK, LocalsBound, HoldsMessage, OneWorkerPerRun, Executes, Busy
<1>4. SentOnce' /\ NotYetScored' /\ SucceededShowsScore'
  BY <1>1, <1>2 DEF IInv, SentOnce, NotYetScored, SucceededShowsScore, LocalsBound, Busy
<1> QED
  BY <1>3, <1>4 DEF IInv

---------------------------------------------------------------------------------
(* Every step preserves the invariant.                                            *)
LEMMA NextInv == ASSUME IInv, [Next]_vars PROVE IInv'
<1>1. CASE \E c \in Callers :
             (\E trigger \in Trigger : Call(c, trigger)) \/ Enqueue(c) \/ CallerDies(c)
  BY <1>1, CallStep, ReapStep, ManualStep, MarkStep, AnswerStep, CheckStep, CreateStep, SendStep
     DEF Enqueue
<1>2. CASE \E w \in Workers :
             \/ \E r \in Runs : Receive(w, r)
             \/ Execute(w) \/ Progress(w) \/ Kill(w) \/ LoseProcess(w)
  BY <1>2, ReceiveStep, StartStep, AckStep, CommitStep, FailStep, FinishStep,
     ProgressStep, LoseProcessStep DEF Execute
<1>3. CASE \E r \in Runs : Redeliver(r)
  BY <1>3, RedeliverStep
<1>4. CASE Tick
  BY <1>4, TickStep
<1>5. CASE NewDay
  BY <1>5, NewDayStep
<1>6. CASE UNCHANGED vars
  BY <1>6 DEF vars, IInv, TypeOK, LocalsBound, HoldsMessage, SentOnce, OneWorkerPerRun,
     NotYetScored, SucceededShowsScore, Executes, Busy
<1> QED
  BY <1>1, <1>2, <1>3, <1>4, <1>5, <1>6 DEF Next

(* The inductive invariant holds in every reachable state.                        *)
THEOREM Invariance == Spec => []IInv
  BY InitInv, NextInv, PTL DEF Spec

(* Every variable keeps its type: statuses among those of DataRun.Status, ages     *)
(* within the budgets of enqueue.py and the broker.                               *)
THEOREM TypeCorrect == Spec => []TypeOK
<1>1. IInv => TypeOK
  BY DEF IInv
<1> QED
  BY <1>1, Invariance, PTL

(* However often the broker delivers, and with any number of workers, one run is   *)
(* executed by one task at a time (tasks.run_dcs_score, CELERY_TASK_TIME_LIMIT).   *)
THEOREM OneWorkerPerRunHolds == Spec => []OneWorkerPerRun
<1>1. IInv => OneWorkerPerRun
  BY DEF IInv
<1> QED
  BY <1>1, Invariance, PTL

(* A succeeded run always has a committed score in its metadata, whatever the      *)
(* reaper, the enqueue and other tasks save (orchestrate.py, enqueue.py).          *)
THEOREM SucceededShowsScoreHolds == Spec => []SucceededShowsScore
<1>1. IInv => SucceededShowsScore
  BY DEF IInv
<1> QED
  BY <1>1, Invariance, PTL

-----------------------------------------------------------------------------
(* Judge, fix, judge again: the write-backs and the scores of FixCycle, for every  *)
(* set of worlds in which the platforms number their orders and events, and every  *)
(* bound. What is proved first is that no event is told twice by a write that could *)
(* have known of the first.                                                        *)

(* A set of rows whose ids are bounded has a last one, and so has every part of it *)
LEMMA PartHasLast ==
  ASSUME NEW S, NEW T, Last(S), \A x \in S : x.id \in Nat \ {0},
         \A x \in T : \E y \in S : x.id = y.id
  PROVE  Last(T)
<1> QED
  <2>1. CASE T = {}
    BY <2>1 DEF Last
  <2>2. CASE T # {}
    <3>1. PICK n \in {0} \cup {x.id : x \in S} : \A x \in S : x.id <= n
      BY DEF Last
    <3>2. n \in Nat
      BY <3>1
    <3> DEFINE Bounds == {k \in Nat : \A x \in T : x.id <= k}
    <3>3. Bounds \subseteq Nat /\ n \in Bounds
      BY <3>1, <3>2
    <3>4. PICK m \in Bounds : \A k \in Bounds : ~(<<k, m>> \in OpToRel(<, Nat))
      BY <3>3, NatLessThanWellFounded, WFMin
    <3>5. \A k \in Bounds : ~(k < m)
      BY <3>4, <3>3 DEF OpToRel
    <3>6. \E x \in T : x.id = m
      <4> SUFFICES ASSUME \A x \in T : x.id # m PROVE FALSE
        OBVIOUS
      <4>1. \A x \in T : x.id \in Nat /\ x.id # 0 /\ x.id <= m /\ x.id # m
        OBVIOUS
      <4>2. m \in Nat /\ m # 0
        BY <4>1, <2>2
      <4>3. m - 1 \in Nat /\ m - 1 < m
        BY <4>2
      <4>4. \A x \in T : x.id <= m - 1
        BY <4>1, <4>2
      <4> QED BY <4>3, <4>4, <3>5
    <3> QED BY <3>6 DEF Last
  <2> QED BY <2>1, <2>2

(* The id after which the platform counts is the greatest of its events *)
LEMMA LastEvent ==
  ASSUME NEW S, Last(S), \A e \in S : e.id \in Nat \ {0}
  PROVE  /\ Lifecycle!Max({0} \cup {e.id : e \in S}) \in Nat
         /\ \A d \in S : d.id <= Lifecycle!Max({0} \cup {e.id : e \in S})
         /\ Lifecycle!Max({0} \cup {e.id : e \in S}) \in {0} \cup {e.id : e \in S}
<1> DEFINE I == {0} \cup {e.id : e \in S}
<1>1. PICK n \in I : \A e \in S : e.id <= n
  BY DEF Last
<1>2. \A i \in I : i \in Nat /\ n >= i
  BY <1>1
<1>3. Lifecycle!Max(I) \in I /\ \A i \in I : Lifecycle!Max(I) >= i
  BY <1>1, <1>2 DEF Lifecycle!Max
<1> HIDE DEF I
<1>4. \A e \in S : e.id \in I
  BY DEF I
<1> QED BY <1>2, <1>3, <1>4 DEF I

(* An order that an event names by its id is no gap; an event of a return is told *)
LEMMA NamedIsNoGap ==
  ASSUME NEW u, OrdersAndEvents(u), NEW d \in u.events, d.kind = "PURCHASE",
         d.spine = "externalId", NEW o \in Lifecycle!ShopifyOnly(u)
  PROVE  o \in u.sales /\ o.id # d.key
<1>1. o \in Lifecycle!Paid(u) /\ o \in u.sales
  BY DEF Lifecycle!ShopifyOnly, Lifecycle!Paid
<1>2. \A p \in Lifecycle!KeyedPairs(u) : p.order # o
  BY DEF Lifecycle!ShopifyOnly, Lifecycle!_reconcile_order_events
<1>3. ASSUME o.id = d.key PROVE FALSE
  <2>1. \A p \in Lifecycle!Paid(u) : p.id = o.id => p = o
    BY <1>1 DEF Lifecycle!Paid, OrdersAndEvents
  <2>2. {p \in Lifecycle!Paid(u) : d.spine # "none" /\ p.id = d.key} = {o}
    BY <2>1, <1>1, <1>3
  <2>3. Lifecycle!Keyed(u, d) = {o}
    BY <2>2 DEF Lifecycle!Keyed
  <2>4. o.id \in Nat
    BY <1>1 DEF OrdersAndEvents, Rows
  <2>5. Lifecycle!Newest({o}) = o
    BY <2>4 DEF Lifecycle!Newest
  <2>6. d \in {x \in Lifecycle!Purchases(u) : Lifecycle!Keyed(u, x) # {}}
    BY <2>3 DEF Lifecycle!Purchases
  <2>7. [event |-> d, order |-> o] \in Lifecycle!KeyedPairs(u)
    BY <2>3, <2>5, <2>6 DEF Lifecycle!KeyedPairs
  <2> QED BY <2>7, <1>2
<1> QED BY <1>1, <1>3

(* A return that an event names by its id is told *)
LEMMA NamedIsTold ==
  ASSUME NEW u, NEW d \in u.events, d.kind \in {"RETURN", "CANCELLATION"}, d.spine = "externalId"
  PROVE  d.key \in Lifecycle!ToldReturns(u)
BY DEF Lifecycle!ToldReturns, Lifecycle!Returns

(* The evidence of a score *)
LEMMA EvidenceOfScore ==
  ASSUME NEW u, OrdersAndEvents(u)
  PROVE  LET e == Lifecycle!LifecycleEvidence(u)
         IN /\ \A k \in e.le01 : \E o \in Lifecycle!ShopifyOnly(u) : k = o.id
            /\ \A r \in e.le05 : \E o \in Lifecycle!ShopifyOnly(u) :
                 r = [order |-> o.id, gross |-> o.gross]
            /\ \A k \in e.le09 : k \notin Lifecycle!ToldReturns(u)
<1>1. Lifecycle!GapRows(u) \subseteq Lifecycle!ShopifyOnly(u)
  BY DEF Lifecycle!GapRows, Lifecycle!FirstFew
<1> QED BY <1>1 DEF Lifecycle!LifecycleEvidence, Lifecycle!FirstFew

(* A score lists an order once *)
LEMMA ScoreAsksOnce ==
  ASSUME NEW u, OrdersAndEvents(u)
  PROVE  \A q \in Lifecycle!LifecycleEvidence(u).le05,
            r \in Lifecycle!LifecycleEvidence(u).le05 : q.order = r.order => q = r
<1>1. \A o \in Lifecycle!ShopifyOnly(u) : o \in u.sales
  BY DEF Lifecycle!ShopifyOnly, Lifecycle!Paid
<1>2. \A o \in u.sales, p \in u.sales : o.id = p.id => o = p
  BY DEF OrdersAndEvents
<1> QED BY <1>1, <1>2, EvidenceOfScore

(* A score does not list what an event of its import names by its id *)
LEMMA ScoreKnowsItsImport ==
  ASSUME NEW u, OrdersAndEvents(u), NEW d \in u.events, d.spine = "externalId",
         d.kind \in {"PURCHASE", "RETURN", "CANCELLATION"}
  PROVE  d.key \notin GapKeys(Lifecycle!LifecycleEvidence(u), d.kind)
<1>1. CASE d.kind = "PURCHASE"
  BY <1>1, EvidenceOfScore, NamedIsNoGap DEF GapKeys
<1>2. CASE d.kind # "PURCHASE"
  BY <1>2, EvidenceOfScore, NamedIsTold DEF GapKeys
<1> QED BY <1>1, <1>2

(* What a request of an event write may ask for *)
Asks(r, kind, keys) ==
  \A i \in r.intents :
    /\ i.op = "ingest" /\ i.at = i.key /\ i.key \in keys
    /\ i.kind \in kind
    /\ \E o \in latest.sales : i.key = o.id
    /\ \A j \in r.intents : i.key = j.key => i = j

(* The purchases that LE-01 and LE-05 ask for are gaps of the score, and each is asked for once *)
LEMMA AskedOfPurchases ==
  ASSUME OrdersAndEvents(latest), NEW r,
         \/ r.intents = Lifecycle!_le01_evidence_rows(shown.evidence.lifecycle, latest, live.executeOn)
              /\ shown.evidence.lifecycle.le01 # {}
         \/ r.intents = Lifecycle!_le05_evidence_rows(shown.evidence.lifecycle, latest)
              /\ EvidenceOnce
  PROVE  Asks(r, {"PURCHASE"}, GapKeys(shown.evidence.lifecycle, "PURCHASE"))
<1> DEFINE e == shown.evidence.lifecycle
<1>0. \A o \in latest.sales, p \in latest.sales : o.id = p.id => o = p
  BY DEF OrdersAndEvents
<1>1. ASSUME NEW id, NEW listed, NEW i \in Lifecycle!_enrich_le01_row(latest, id, listed)
      PROVE  /\ i.op = "ingest" /\ i.at = id /\ i.key = id /\ i.kind = "PURCHASE"
             /\ \E o \in latest.sales : id = o.id
             /\ \A j \in Lifecycle!_enrich_le01_row(latest, id, listed) : i = j
  <2> DEFINE amount(o) == IF listed = {} THEN o.gross ELSE CHOOSE a \in listed : TRUE
             told(o) == Lifecycle!Ingest("PURCHASE", id, o.email, amount(o))
  <2> HIDE DEF amount
  <2>1. \A j \in Lifecycle!_enrich_le01_row(latest, id, listed) :
          \E o \in latest.sales : o.id = id /\ j = told(o)
    BY DEF Lifecycle!_enrich_le01_row, Lifecycle!Imported, amount
  <2>2. PICK o \in latest.sales : o.id = id /\ i = told(o)
    BY <2>1
  <2>3. \A j \in Lifecycle!_enrich_le01_row(latest, id, listed) : i = j
    BY <2>1, <2>2, <1>0
  <2>4. i.op = "ingest" /\ i.at = id /\ i.key = id /\ i.kind = "PURCHASE"
    BY <2>2 DEF Lifecycle!Ingest
  <2> QED BY <2>2, <2>3, <2>4
<1>2. CASE /\ r.intents = Lifecycle!_le01_evidence_rows(e, latest, live.executeOn)
           /\ e.le01 # {}
  <2>1. r.intents = UNION {Lifecycle!_enrich_le01_row(latest, id, {})
            : id \in Lifecycle!FirstFew(IngestCap, e.le01, LAMBDA a, b : a < b)}
    BY <1>2 DEF Lifecycle!_le01_evidence_rows
  <2>2. \A i \in r.intents : \E id \in e.le01 : i \in Lifecycle!_enrich_le01_row(latest, id, {})
    BY <2>1 DEF Lifecycle!FirstFew
  <2>3. e.le01 \subseteq GapKeys(e, "PURCHASE")
    BY DEF GapKeys
  <2> HIDE DEF e
  <2> QED BY <2>2, <2>3, <1>1 DEF Asks, e
<1>3. CASE r.intents = Lifecycle!_le05_evidence_rows(e, latest) /\ EvidenceOnce
  <2>1. \A i \in r.intents : \E q \in e.le05 : i \in Lifecycle!_enrich_le01_row(latest, q.order, {q.gross})
    BY <1>3 DEF Lifecycle!_le05_evidence_rows
  <2>2. \A q \in e.le05 : q.order \in GapKeys(e, "PURCHASE")
    BY DEF GapKeys
  <2>3. \A q \in e.le05, s \in e.le05 : q.order = s.order => q = s
    BY <1>3 DEF EvidenceOnce
  <2> HIDE DEF e
  <2>4. ASSUME NEW i \in r.intents
        PROVE  /\ i.op = "ingest" /\ i.at = i.key /\ i.kind = "PURCHASE"
               /\ i.key \in GapKeys(e, "PURCHASE") /\ \E o \in latest.sales : i.key = o.id
    <3>1. PICK q \in e.le05 : i \in Lifecycle!_enrich_le01_row(latest, q.order, {q.gross})
      BY <2>1
    <3> DEFINE l == {q.gross}
    <3> HIDE DEF l
    <3>0. i \in Lifecycle!_enrich_le01_row(latest, q.order, l)
      BY <3>1 DEF l
    <3>2. /\ i.op = "ingest" /\ i.at = q.order /\ i.key = q.order /\ i.kind = "PURCHASE"
          /\ \E o \in latest.sales : q.order = o.id
      BY <3>0, <1>1
    <3> QED BY <3>2, <2>2
  <2>5. ASSUME NEW i \in r.intents, NEW j \in r.intents, i.key = j.key PROVE i = j
    <3>1. PICK q \in e.le05 : i \in Lifecycle!_enrich_le01_row(latest, q.order, {q.gross})
      BY <2>1
    <3>2. PICK s \in e.le05 : j \in Lifecycle!_enrich_le01_row(latest, s.order, {s.gross})
      BY <2>1
    <3> DEFINE l == {q.gross}
               m == {s.gross}
    <3> HIDE DEF l, m
    <3>3. /\ i \in Lifecycle!_enrich_le01_row(latest, q.order, l)
          /\ j \in Lifecycle!_enrich_le01_row(latest, s.order, m)
      BY <3>1, <3>2 DEF l, m
    <3>4. i.key = q.order /\ j.key = s.order
      BY <3>3, <1>1
    <3>5. q = s
      BY <2>3, <2>5, <3>4
    <3>6. l = m
      BY <3>5 DEF l, m
    <3> QED BY <3>3, <3>5, <3>6, <1>1
  <2> QED BY <2>4, <2>5 DEF Asks, e
<1> QED BY <1>2, <1>3

(* The returns that LE-09 asks for are gaps of the score, and each is asked for once *)
LEMMA AskedOfReturns ==
  ASSUME OrdersAndEvents(latest), NEW r,
         r.intents = Lifecycle!_le09_evidence_rows(shown.evidence.lifecycle, pinned, latest)
  PROVE  Asks(r, {"RETURN", "CANCELLATION"}, shown.evidence.lifecycle.le09)
<1>1. \A o \in latest.sales, p \in latest.sales : o.id = p.id => o = p
  BY DEF OrdersAndEvents
<1>2. \A id : Lifecycle!_resolve_le09_event_type(pinned, latest, id) \in {"RETURN", "CANCELLATION"}
  BY DEF Lifecycle!_resolve_le09_event_type
<1> QED BY <1>1, <1>2 DEF Asks, Lifecycle!_le09_evidence_rows, Lifecycle!Ingest

(* A proof of the write path asks for the first orders of the import *)
LEMMA AskedAsProof ==
  ASSUME OrdersAndEvents(latest), NEW r,
         r.intents = Lifecycle!_le01_sandbox_evidence_rows(latest)
  PROVE  Asks(r, {"PURCHASE"}, {o.id : o \in latest.sales})
<1>0. \A o \in latest.sales, p \in latest.sales : o.id = p.id => o = p
  BY DEF OrdersAndEvents
<1>1. ASSUME NEW id, NEW i \in Lifecycle!_enrich_le01_row(latest, id, {})
      PROVE  /\ i.op = "ingest" /\ i.at = id /\ i.key = id /\ i.kind = "PURCHASE"
             /\ \E o \in latest.sales : id = o.id
             /\ \A j \in Lifecycle!_enrich_le01_row(latest, id, {}) : i = j
  BY <1>0, <1>1 DEF Lifecycle!_enrich_le01_row, Lifecycle!Imported, Lifecycle!Ingest
<1>2. \A i \in r.intents : \E o \in latest.sales : i \in Lifecycle!_enrich_le01_row(latest, o.id, {})
  BY DEF Lifecycle!_le01_sandbox_evidence_rows, Lifecycle!FirstFew
<1> QED BY <1>1, <1>2 DEF Asks

(* The first published run: no event is of this program yet *)
LEMMA ToldInit == FixInit => ToldInv
<1> SUFFICES ASSUME FixInit PROVE ToldInv
  OBVIOUS
<1> USE DEF FixInit
<1>1. OrdersAndEvents(live) /\ \A e \in live.events : e.by.check = "none"
  BY WorldsAssumption DEF Unfixed
<1>2. ToldByUs(live) = {}
  BY <1>1 DEF ToldByUs
<1>3. InUniverse /\ HasEvidence
  BY <1>1 DEF InUniverse, HasEvidence, Judge
<1>4. MadeInOrder
  BY <1>2 DEF MadeInOrder
<1>5. GateRemembers /\ ImportKnows /\ EvidenceKnows /\ RequestKnows
        /\ RequestOnce /\ ToldOnce
  BY <1>2 DEF GateRemembers, ImportKnows, EvidenceKnows, RequestKnows,
              RequestOnce, ToldOnce
<1>6. EvidenceOnce
  <2>1. shown.evidence.lifecycle = Lifecycle!LifecycleEvidence(live)
    BY DEF Judge
  <2> QED BY <2>1, <1>1, ScoreAsksOnce DEF EvidenceOnce
<1> QED BY <1>3, <1>4, <1>5, <1>6 DEF ToldInv

(* An import holds all that was told before it *)
LEMMA ToldImport == ToldInv /\ Import => ToldInv'
<1> SUFFICES ASSUME ToldInv, Import PROVE ToldInv'
  OBVIOUS
<1> USE DEF Import, ToldInv, MadeInOrder
<1>1. count'.imports = count.imports + 1 /\ count'.shown = count.shown
  BY DEF MadeInOrder
<1>2. ToldByUs(live)' = ToldByUs(live)
  BY DEF ToldByUs
<1>3. InUniverse' /\ HasEvidence'
  BY DEF InUniverse, HasEvidence
<1>4. MadeInOrder'
  BY <1>1, <1>2
<1>5. ImportKnows'
  <2>1. \A e \in ToldByUs(live) : e \in live.events /\ e.spine = "externalId"
    BY DEF ToldByUs
  <2> QED BY <1>2, <2>1 DEF ImportKnows
<1>6. EvidenceKnows' /\ GateRemembers'
  BY <1>1, <1>2 DEF EvidenceKnows, GateRemembers, GapKeys
<1>7. RequestKnows' /\ RequestOnce' /\ EvidenceOnce' /\ ToldOnce'
  BY <1>2 DEF RequestKnows, RequestOnce, EvidenceOnce, ToldOnce
<1> QED BY <1>3, <1>4, <1>5, <1>6, <1>7

(* A published score lists nothing that its import holds, and nobody holds its gates yet *)
LEMMA ToldPublishScore == ToldInv /\ PublishScore => ToldInv'
<1> SUFFICES ASSUME ToldInv, PublishScore PROVE ToldInv'
  OBVIOUS
<1> USE DEF ToldInv, MadeInOrder
<1>0. PICK u \in scoring : pinned' = u /\ shown' = Judge(u)
  BY DEF PublishScore
<1>1. /\ count' = [count EXCEPT !.shown = count.imports, !.missed = live # u]
      /\ scoring' = {} /\ held' = {} /\ previous' = {pinned}
      /\ UNCHANGED <<live, latest, request>>
  BY <1>0 DEF PublishScore
<1>2. /\ count'.imports = count.imports /\ count'.shown = count.imports
      /\ count' \in [imports : Nat, shown : Nat, edits : Nat, writes : Nat, missed : BOOLEAN]
      /\ count.shown < count.imports
  BY <1>0, <1>1
<1>3. ToldByUs(live)' = ToldByUs(live)
  BY <1>1 DEF ToldByUs
<1>4. OrdersAndEvents(u) /\ InUniverse' /\ HasEvidence'
  <2>1. HasEvidence'
    BY <1>0 DEF HasEvidence, Judge
  <2>2. OrdersAndEvents(u) /\ InUniverse'
    BY <1>0, <1>1 DEF InUniverse
  <2> QED BY <2>1, <2>2
<1>5. MadeInOrder'
  BY <1>1, <1>2, <1>3
<1>6. shown'.evidence.lifecycle = Lifecycle!LifecycleEvidence(u)
  BY <1>0 DEF Judge
<1>7. EvidenceKnows'
  <2>1. ASSUME NEW e \in ToldByUs(live), e.by.imports < count.imports
        PROVE  e.key \notin GapKeys(Lifecycle!LifecycleEvidence(u), e.kind)
    <3>1. PICK d \in u.events : d.key = e.key /\ d.kind = e.kind /\ d.spine = "externalId"
      BY <1>0, <2>1 DEF ImportKnows
    <3>2. d.kind \in {"PURCHASE", "RETURN", "CANCELLATION"}
      BY <3>1
    <3> QED BY <3>1, <3>2, <1>4, ScoreKnowsItsImport
  <2> QED BY <2>1, <1>2, <1>3, <1>6 DEF EvidenceKnows
<1>8. EvidenceOnce'
  BY <1>4, <1>6, ScoreAsksOnce DEF EvidenceOnce
<1>9. GateRemembers' /\ ImportKnows'
  BY <1>1, <1>2, <1>3 DEF GateRemembers, ImportKnows
<1>10. RequestKnows' /\ RequestOnce' /\ ToldOnce'
  BY <1>1, <1>3 DEF RequestKnows, RequestOnce, ToldOnce
<1> QED BY <1>4, <1>5, <1>7, <1>8, <1>9, <1>10

(* A run that fails before it has results lists nothing *)
LEMMA ToldScoreFails == ToldInv /\ ScoreFails => ToldInv'
<1> SUFFICES ASSUME ToldInv, ScoreFails PROVE ToldInv'
  OBVIOUS
<1> USE DEF ToldInv, MadeInOrder, ScoreFails
<1>2. /\ count'.imports = count.imports /\ count'.shown = count.imports
      /\ count' \in [imports : Nat, shown : Nat, edits : Nat, writes : Nat, missed : BOOLEAN]
      /\ count.shown < count.imports
  OBVIOUS
<1>3. ToldByUs(live)' = ToldByUs(live)
  BY DEF ToldByUs
<1>4. InUniverse' /\ HasEvidence'
  BY DEF InUniverse, HasEvidence, Nothing
<1>5. MadeInOrder'
  BY <1>2, <1>3
<1>6. shown'.evidence.lifecycle = Lifecycle!NoLifecycleEvidence
  BY DEF Nothing
<1>7. EvidenceKnows' /\ EvidenceOnce'
  BY <1>6 DEF EvidenceKnows, EvidenceOnce, Lifecycle!NoLifecycleEvidence, GapKeys
<1>9. GateRemembers' /\ ImportKnows'
  BY <1>2, <1>3 DEF GateRemembers, ImportKnows
<1>10. RequestKnows' /\ RequestOnce' /\ ToldOnce'
  BY <1>3 DEF RequestKnows, RequestOnce, ToldOnce
<1> QED BY <1>4, <1>5, <1>7, <1>9, <1>10

(* One that fails later goes on listing what it listed *)
LEMMA ToldFailsAfterCommit == ToldInv /\ FailsAfterCommit => ToldInv'
<1> SUFFICES ASSUME ToldInv, FailsAfterCommit PROVE ToldInv'
  OBVIOUS
<1> USE DEF ToldInv
<1>0. PICK u \in previous : pinned' = u
  BY DEF FailsAfterCommit
<1>1. /\ previous' = {} /\ shown' = [shown EXCEPT !.failed = TRUE]
      /\ count' = [count EXCEPT !.missed = TRUE]
      /\ UNCHANGED <<live, latest, scoring, request, held>>
  BY DEF FailsAfterCommit
<1>2. shown'.evidence = shown.evidence /\ HasEvidence'
  BY <1>1 DEF HasEvidence
<1>3. /\ count'.imports = count.imports /\ count'.shown = count.shown
      /\ count' \in [imports : Nat, shown : Nat, edits : Nat, writes : Nat, missed : BOOLEAN]
  BY <1>1 DEF MadeInOrder
<1>4. ToldByUs(live)' = ToldByUs(live)
  BY <1>1 DEF ToldByUs
<1>5. InUniverse'
  BY <1>0, <1>1 DEF InUniverse
<1>6. MadeInOrder'
  BY <1>1, <1>3, <1>4 DEF MadeInOrder
<1>7. EvidenceKnows' /\ EvidenceOnce'
  BY <1>2, <1>3, <1>4 DEF EvidenceKnows, EvidenceOnce, GapKeys
<1>8. GateRemembers' /\ ImportKnows'
  BY <1>1, <1>3, <1>4 DEF GateRemembers, ImportKnows
<1>9. RequestKnows' /\ RequestOnce' /\ ToldOnce'
  BY <1>1, <1>4 DEF RequestKnows, RequestOnce, ToldOnce
<1> QED BY <1>2, <1>5, <1>6, <1>7, <1>8, <1>9

(* A request that asks like this asks once, and for nothing that its score knows *)
LEMMA AskedOnce ==
  ASSUME OrdersAndEvents(latest), NEW r, NEW keys, NEW kinds, Asks(r, kinds, keys),
         kinds \subseteq {"PURCHASE", "RETURN", "CANCELLATION"}
  PROVE  /\ \A i \in r.intents : i.op = "ingest" =>
              i.at \in Nat \ {0} /\ i.kind \in {"PURCHASE", "RETURN", "CANCELLATION"}
         /\ \A i \in r.intents, j \in r.intents :
              i.op = "ingest" /\ j.op = "ingest" /\ i.key = j.key => i = j
         /\ Last({[id |-> i.at] : i \in {j \in r.intents : j.op = "ingest"}})
<1>1. \A o \in latest.sales : o.id \in Nat \ {0}
  BY DEF OrdersAndEvents, Rows
<1>2. Last(latest.sales)
  BY DEF OrdersAndEvents
<1> DEFINE T == {[id |-> i.at] : i \in {j \in r.intents : j.op = "ingest"}}
<1>3. \A x \in T : \E o \in latest.sales : x.id = o.id
  BY DEF Asks
<1>4. Last(T)
  <2> HIDE DEF T
  <2> QED BY <1>1, <1>2, <1>3, PartHasLast
<1> QED BY <1>1, <1>4 DEF Asks

(* A request is built from the shown score, and asks for what that score lists *)
LEMMA ToldBuildIntents ==
  ASSUME ToldInv, NEW check \in Executable, BuildIntents(check) PROVE ToldInv'
<1> USE DEF ToldInv
<1> DEFINE e == shown.evidence.lifecycle
           r == [check |-> check, intents |-> collect_evidence_rows(check),
                  judged |-> count.shown, proof |-> check = "LE-01" /\ ~e.other]
<1>1. /\ request' = {r}
      /\ UNCHANGED <<live, latest, pinned, previous, shown, scoring, held, written, count>>
  BY DEF BuildIntents
<1>2. /\ r.check = check /\ r.intents = collect_evidence_rows(check)
      /\ r.judged = count.shown /\ r.proof = (check = "LE-01" /\ ~e.other)
  OBVIOUS
<1> HIDE DEF r
<1>3. ToldByUs(live)' = ToldByUs(live)
  BY <1>1 DEF ToldByUs
<1>4. InUniverse' /\ HasEvidence' /\ OrdersAndEvents(latest)
  BY <1>1 DEF InUniverse, HasEvidence
<1>5. MadeInOrder'
  BY <1>1, <1>2, <1>3 DEF MadeInOrder, Executable
<1>6. GateRemembers' /\ ImportKnows' /\ EvidenceKnows' /\ EvidenceOnce' /\ ToldOnce'
  BY <1>1, <1>3 DEF GateRemembers, ImportKnows, EvidenceKnows, GapKeys,
                    EvidenceOnce, ToldOnce
<1> DEFINE Knows == \A i \in r.intents : i.op = "ingest" =>
             \A d \in ToldByUs(live) :
               d.by.imports < count.shown => ~(d.key = i.key /\ d.kind = i.kind)
           Once == /\ \A i \in r.intents : i.op = "ingest" =>
                        i.at \in Nat \ {0} /\ i.kind \in {"PURCHASE", "RETURN", "CANCELLATION"}
                   /\ \A i \in r.intents, j \in r.intents :
                        i.op = "ingest" /\ j.op = "ingest" /\ i.key = j.key => i = j
                   /\ Last({[id |-> i.at] : i \in {j \in r.intents : j.op = "ingest"}})
<1>7. check \in Telling => (r.proof \/ Knows) /\ Once
  <2> HIDE DEF e
  <2>1. \A d \in ToldByUs(live) : d.by.imports < count.shown => d.key \notin GapKeys(e, d.kind)
    BY DEF EvidenceKnows, e
  <2>2. CASE check = "LE-01"
    <3>1. r.intents = Lifecycle!_le01_evidence_rows(e, latest, live.executeOn)
      BY <2>2, <1>2 DEF collect_evidence_rows, e
    <3>2. CASE e.le01 # {}
      <4>1. Asks(r, {"PURCHASE"}, GapKeys(e, "PURCHASE"))
        BY <3>1, <3>2, <1>4, AskedOfPurchases DEF e
      <4>2. Once
        BY <4>1, <1>4, AskedOnce
      <4>3. Knows
        BY <4>1, <2>1 DEF Asks
      <4> QED BY <4>2, <4>3
    <3>3. CASE e.le01 = {} /\ ~e.other /\ live.executeOn
      <4>1. r.intents = Lifecycle!_le01_sandbox_evidence_rows(latest)
        BY <3>1, <3>3 DEF Lifecycle!_le01_evidence_rows
      <4>2. Asks(r, {"PURCHASE"}, {o.id : o \in latest.sales})
        BY <4>1, <1>4, AskedAsProof
      <4>3. Once
        BY <4>2, <1>4, AskedOnce
      <4>4. r.proof
        BY <1>2, <2>2, <3>3, Zenon
      <4> QED BY <4>3, <4>4
    <3>4. CASE e.le01 = {} /\ ~(~e.other /\ live.executeOn)
      <4>1. r.intents = {}
        BY <3>1, <3>4 DEF Lifecycle!_le01_evidence_rows
      <4>2. Once
        BY <4>1 DEF Last
      <4> QED BY <4>1, <4>2
    <3> QED BY <3>2, <3>3, <3>4, Zenon
  <2>3. CASE check = "LE-05"
    <3>1. r.intents = Lifecycle!_le05_evidence_rows(e, latest)
      BY <2>3, <1>2 DEF collect_evidence_rows, e
    <3>2. Asks(r, {"PURCHASE"}, GapKeys(e, "PURCHASE"))
      BY <3>1, <1>4, AskedOfPurchases DEF e
    <3>3. Once
      BY <3>2, <1>4, AskedOnce
    <3>4. Knows
      BY <3>2, <2>1 DEF Asks
    <3> QED BY <3>3, <3>4
  <2>4. CASE check = "LE-02"
    <3>1. r.intents = Lifecycle!_le02_evidence_rows(e)
      BY <2>4, <1>2 DEF collect_evidence_rows, e
    <3>2. \A i \in r.intents : i.op # "ingest"
      BY <3>1 DEF Lifecycle!_le02_evidence_rows
    <3>3. Once
      BY <3>2 DEF Last
    <3> QED BY <3>2, <3>3
  <2>5. CASE check = "LE-09"
    <3>1. r.intents = Lifecycle!_le09_evidence_rows(e, pinned, latest)
      BY <2>5, <1>2 DEF collect_evidence_rows, e
    <3>2. Asks(r, {"RETURN", "CANCELLATION"}, e.le09)
      BY <3>1, <1>4, AskedOfReturns DEF e
    <3>3. Once
      BY <3>2, <1>4, AskedOnce
    <3>4. Knows
      BY <3>2, <2>1 DEF Asks, GapKeys
    <3> QED BY <3>3, <3>4
  <2> QED BY <2>2, <2>3, <2>4, <2>5 DEF Telling
<1>8. RequestKnows'
  BY <1>1, <1>2, <1>3, <1>7 DEF RequestKnows
<1>9. RequestOnce'
  BY <1>1, <1>2, <1>7 DEF RequestOnce
<1> QED BY <1>4, <1>5, <1>6, <1>8, <1>9

(* A request that finds its gate taken is dropped *)
LEMMA ToldAlreadyExecuted == ToldInv /\ AlreadyExecuted => ToldInv'
<1> SUFFICES ASSUME ToldInv, AlreadyExecuted PROVE ToldInv'
  OBVIOUS
<1> USE DEF ToldInv, AlreadyExecuted
<1>1. ToldByUs(live)' = ToldByUs(live)
  BY DEF ToldByUs
<1>2. InUniverse' /\ HasEvidence' /\ MadeInOrder'
  BY <1>1 DEF InUniverse, HasEvidence, MadeInOrder
<1> QED
  BY <1>1, <1>2 DEF GateRemembers, ImportKnows, EvidenceKnows, RequestKnows,
     GapKeys, EvidenceOnce, RequestOnce, ToldOnce

(* What leaves the events alone, and of the orders their ids, leaves all of it alone *)
LEMMA EventsUntouched ==
  ASSUME ToldInv, OrdersAndEvents(live'), live'.events = live.events,
         UNCHANGED <<latest, pinned, previous, shown, scoring>>,
         /\ count'.imports = count.imports /\ count'.shown = count.shown
         /\ count' \in [imports : Nat, shown : Nat, edits : Nat, writes : Nat, missed : BOOLEAN],
         held \subseteq held', request' \subseteq request
  PROVE  ToldInv'
<1> USE DEF ToldInv
<1>1. ToldByUs(live)' = ToldByUs(live)
  BY DEF ToldByUs
<1>2. InUniverse' /\ HasEvidence'
  BY DEF InUniverse, HasEvidence
<1>3. MadeInOrder'
  BY <1>1 DEF MadeInOrder
<1>4. GateRemembers' /\ ImportKnows'
  BY <1>1 DEF GateRemembers, ImportKnows
<1>5. EvidenceKnows' /\ EvidenceOnce'
  BY <1>1 DEF EvidenceKnows, GapKeys, EvidenceOnce
<1>6. RequestKnows' /\ RequestOnce' /\ ToldOnce'
  BY <1>1 DEF RequestKnows, RequestOnce, ToldOnce
<1> QED
  BY <1>2, <1>3, <1>4, <1>5, <1>6

(* The merchant changes no event, and no id of an order *)
LEMMA ToldEdit == ToldInv /\ Edit => ToldInv'
<1> SUFFICES ASSUME ToldInv, Edit PROVE ToldInv'
  OBVIOUS
<1>0. OrdersAndEvents(live) /\ MadeInOrder
  BY DEF ToldInv, InUniverse
<1>1. /\ count' = [count EXCEPT !.edits = @ + 1, !.missed = TRUE]
      /\ UNCHANGED <<latest, pinned, previous, shown, scoring, request, held>>
  BY DEF Edit
<1>2. /\ count'.imports = count.imports /\ count'.shown = count.shown
      /\ count' \in [imports : Nat, shown : Nat, edits : Nat, writes : Nat, missed : BOOLEAN]
  <2>1. /\ count \in [imports : Nat, shown : Nat, edits : Nat, writes : Nat, missed : BOOLEAN]
        /\ count.edits + 1 \in Nat
    BY <1>0 DEF MadeInOrder
  <2> QED BY <2>1, <1>1
<1>3. OrdersAndEvents(live') /\ live'.events = live.events
  <2>1. CASE \E X : live' = [live EXCEPT !.manago = X]
    BY <2>1, <1>0 DEF OrdersAndEvents
  <2>2. CASE \E X : live' = [live EXCEPT !.shelf = X]
    BY <2>2, <1>0 DEF OrdersAndEvents
  <2>3. CASE \E o \in live.sales :
               live' = [live EXCEPT !.sales = (@ \ {o}) \cup
                 {[o EXCEPT !.state = "refunded", !.whole = TRUE, !.back = o.gross]}]
    <3>1. PICK o \in live.sales :
               live' = [live EXCEPT !.sales = (@ \ {o}) \cup
                 {[o EXCEPT !.state = "refunded", !.whole = TRUE, !.back = o.gross]}]
      BY <2>3
    <3> DEFINE p == [o EXCEPT !.state = "refunded", !.whole = TRUE, !.back = o.gross]
    <3>2. p.id = o.id /\ DOMAIN p = DOMAIN o
      BY <1>0 DEF OrdersAndEvents, Rows
    <3> HIDE DEF p
    <3>3. /\ live'.sales = (live.sales \ {o}) \cup {p}
          /\ live'.events = live.events /\ DOMAIN live' = DOMAIN live
      BY <3>1, <1>0 DEF p, OrdersAndEvents
    <3>4. Rows(live'.sales, {"id"})
      BY <3>2, <3>3, <1>0 DEF OrdersAndEvents, Rows
    <3>5. \A x \in live'.sales, y \in live'.sales : x.id = y.id => x = y
      BY <3>2, <3>3, <1>0 DEF OrdersAndEvents
    <3>6. Last(live'.sales)
      <4>1. \A x \in live'.sales : \E y \in live.sales : x.id = y.id
        BY <3>2, <3>3
      <4>2. Last(live.sales) /\ \A x \in live.sales : x.id \in Nat \ {0}
        BY <1>0 DEF OrdersAndEvents, Rows
      <4> QED BY <4>1, <4>2, PartHasLast
    <3> QED BY <3>3, <3>4, <3>5, <3>6, <1>0 DEF OrdersAndEvents
  <2>4. MerchantChanges
    BY DEF Edit
  <2> QED BY <2>1, <2>2, <2>3, <2>4 DEF MerchantChanges
<1> QED BY <1>1, <1>2, <1>3, EventsUntouched

(* The other write-backs touch no order and no event *)
LEMMA OtherWrites ==
  ASSUME NEW check \in Executable, check \notin Telling, NEW intents, NEW by,
         OrdersAndEvents(live)
  PROVE  LET u == Applied(live, check, intents, by)
         IN OrdersAndEvents(u) /\ u.events = live.events
<1> DEFINE u == Applied(live, check, intents, by)
<1>1. (\E X : u = [live EXCEPT !.manago = X]) \/ (\E X : u = [live EXCEPT !.catalog = X])
  <2>1. CASE check \in {"CI-01", "CI-05"}
    BY <2>1 DEF Applied, Identity!UpsertAll
  <2>2. CASE check = "CC-03"
    BY <2>2 DEF Applied, Consent!StampAll
  <2>3. CASE check \in {"SP-03", "SP-07"}
    BY <2>3 DEF Applied, Segment!SetDetails
  <2>4. CASE check = "PT-03"
    BY <2>4 DEF Applied, Product!PublishAll
  <2>5. CASE check = "PT-04"
    BY <2>5 DEF Applied, Product!StampWorth
  <2> QED BY <2>1, <2>2, <2>3, <2>4, <2>5 DEF Executable, Telling
<1> HIDE DEF u
<1>2. OrdersAndEvents(u) /\ u.events = live.events
  BY <1>1 DEF OrdersAndEvents
<1> QED BY <1>2 DEF u

(* An event write corrects values, and appends what it ingests after all the others *)
Corrected(e, f) ==
  /\ DOMAIN f = DOMAIN e /\ f.id = e.id /\ f.kind = e.kind /\ f.key = e.key
  /\ f.spine = e.spine /\ f.by = e.by
Appended(intents, by, f) ==
  \E i \in intents :
    /\ i.op = "ingest" /\ f.kind = i.kind /\ f.key = i.key /\ f.spine = "externalId" /\ f.by = by
    /\ {"id", "kind", "key", "spine", "by"} \subseteq DOMAIN f
    /\ f.id = Lifecycle!Max({0} \cup {e.id : e \in live.events}) + i.at

(* What an event write leaves on the platform *)
LEMMA EventWrites ==
  ASSUME NEW check \in Telling, NEW intents, NEW by, OrdersAndEvents(live)
  PROVE  LET u == Applied(live, check, intents, by)
         IN /\ DOMAIN u = DOMAIN live /\ u.sales = live.sales
            /\ \A f \in u.events :
                 (\E e \in live.events : Corrected(e, f)) \/ Appended(intents, by, f)
            /\ \A e \in live.events : \E f \in u.events : Corrected(e, f)
            /\ \A i \in intents : i.op = "ingest" =>
                 Lifecycle!Tell(live, i, by) \in u.events
<1> DEFINE u == Applied(live, check, intents, by)
           new(e) == IF \E i \in intents : Lifecycle!Corrects(live, i, e)
                     THEN [e EXCEPT !.value = (CHOOSE i \in intents : Lifecycle!Corrects(live, i, e)).value]
                     ELSE e
           told == {Lifecycle!Tell(live, i, by) : i \in {j \in intents : j.op = "ingest"}}
<1>1. u = Lifecycle!TellAll(live, intents, by)
  BY DEF Applied, Telling
<1>2. u = [live EXCEPT !.events = {new(e) : e \in live.events} \cup told]
  BY <1>1 DEF Lifecycle!TellAll
<1> HIDE DEF u
<1>3. ASSUME NEW e \in live.events PROVE Corrected(e, new(e))
  <2>1. \A v : Corrected(e, [e EXCEPT !.value = v])
    BY DEF OrdersAndEvents, Rows, Corrected
  <2>2. Corrected(e, e)
    BY DEF Corrected
  <2>3. new(e) = e \/ \E v : new(e) = [e EXCEPT !.value = v]
    OBVIOUS
  <2> HIDE DEF new
  <2> QED BY <2>1, <2>2, <2>3
<1>4. ASSUME NEW f \in told PROVE Appended(intents, by, f)
  <2>1. PICK i \in intents : i.op = "ingest" /\ f = Lifecycle!Tell(live, i, by)
    OBVIOUS
  <2> HIDE DEF told
  <2> DEFINE last == Lifecycle!Max({0} \cup {e.id : e \in live.events})
  <2>2. f = [id |-> last + i.at, kind |-> i.kind, key |-> i.key, spine |-> "externalId",
             email |-> i.email, value |-> i.value, month |-> live.month, day |-> 0, by |-> by]
    BY <2>1 DEF Lifecycle!Tell
  <2> HIDE DEF last
  <2>3. /\ f.id = last + i.at /\ f.kind = i.kind /\ f.key = i.key /\ f.spine = "externalId" /\ f.by = by
        /\ {"id", "kind", "key", "spine", "by"} \subseteq DOMAIN f
    BY <2>2
  <2> QED BY <2>1, <2>3 DEF Appended, last
<1> HIDE DEF new, told
<1>5. /\ DOMAIN u = DOMAIN live /\ u.sales = live.sales
      /\ u.events = {new(e) : e \in live.events} \cup told
  BY <1>2 DEF OrdersAndEvents
<1>6. \A i \in intents : i.op = "ingest" => Lifecycle!Tell(live, i, by) \in told
  BY DEF told
<1> QED BY <1>3, <1>4, <1>5, <1>6 DEF u

(* A write takes a gate that nobody took under this run, and tells nothing that its  *)
(* score knew of                                                                    *)
LEMMA ToldWriteIntents == ToldInv /\ WriteIntents => ToldInv'
<1> SUFFICES ASSUME ToldInv, WriteIntents PROVE ToldInv'
  OBVIOUS
<1>0. PICK r \in request :
        /\ r.check \notin held
        /\ live' = Applied(live, r.check, r.intents,
                          [check |-> r.check, judged |-> r.judged, holds |-> count.shown,
                           imports |-> count.imports, proof |-> r.proof])
        /\ held' = held \cup {r.check}
        /\ count' = [count EXCEPT !.writes = @ + 1, !.missed = @ \/ r.judged # count.shown]
  BY DEF WriteIntents
<1>1. request' = {} /\ UNCHANGED <<latest, pinned, previous, shown, scoring>>
  BY DEF WriteIntents
<1> DEFINE by == [check |-> r.check, judged |-> r.judged, holds |-> count.shown,
                  imports |-> count.imports, proof |-> r.proof]
<1>2. /\ by.check = r.check /\ by.judged = r.judged /\ by.holds = count.shown
      /\ by.imports = count.imports /\ by.proof = r.proof
  OBVIOUS
<1>3. live' = Applied(live, r.check, r.intents, by)
  BY <1>0
<1> HIDE DEF by
<1>4. /\ OrdersAndEvents(live) /\ MadeInOrder /\ r.check \in Executable
      /\ r.judged \in Nat /\ count.shown \in Nat /\ count.imports \in Nat
      /\ r.judged <= count.shown /\ count.shown <= count.imports
  BY DEF ToldInv, InUniverse, MadeInOrder
<1>5. /\ count'.imports = count.imports /\ count'.shown = count.shown
      /\ count' \in [imports : Nat, shown : Nat, edits : Nat, writes : Nat, missed : BOOLEAN]
  <2>1. /\ count \in [imports : Nat, shown : Nat, edits : Nat, writes : Nat, missed : BOOLEAN]
        /\ count.writes + 1 \in Nat
    BY <1>4 DEF MadeInOrder
  <2> DEFINE m == count.missed \/ r.judged # count.shown
  <2>2. m \in BOOLEAN /\ count' = [count EXCEPT !.writes = @ + 1, !.missed = m]
    BY <1>0, Zenon
  <2> HIDE DEF m
  <2> QED BY <2>1, <2>2
<1>6. CASE r.check \notin Telling
  BY <1>0, <1>1, <1>3, <1>4, <1>5, <1>6, OtherWrites, EventsUntouched
<1>7. CASE r.check \in Telling
  <2> DEFINE Old == ToldByUs(live)
             Now == ToldByUs(live')
             last == Lifecycle!Max({0} \cup {e.id : e \in live.events})
  <2>1. /\ DOMAIN live' = DOMAIN live /\ live'.sales = live.sales
        /\ \A f \in live'.events :
             (\E e \in live.events : Corrected(e, f)) \/ Appended(r.intents, by, f)
        /\ \A e \in live.events : \E f \in live'.events : Corrected(e, f)
        /\ \A i \in r.intents : i.op = "ingest" =>
             Lifecycle!Tell(live, i, by) \in live'.events
    BY <1>3, <1>4, <1>7, EventWrites
  <2>2. /\ last \in Nat /\ \A e \in live.events : e.id \in Nat /\ e.id <= last
        /\ last \in {0} \cup {e.id : e \in live.events}
    BY <1>4, LastEvent DEF OrdersAndEvents, Rows
  <2> HIDE DEF last
  <2>3. /\ \A i \in r.intents : i.op = "ingest" =>
             i.at \in Nat /\ i.at > 0 /\ i.kind \in {"PURCHASE", "RETURN", "CANCELLATION"}
        /\ \A i \in r.intents, j \in r.intents :
             i.op = "ingest" /\ j.op = "ingest" /\ i.key = j.key => i = j
        /\ Last({[id |-> i.at] : i \in {j \in r.intents : j.op = "ingest"}})
    <3>1. RequestOnce
      BY DEF ToldInv
    <3>2. /\ \A i \in r.intents : i.op = "ingest" =>
               i.at \in Nat \ {0} /\ i.kind \in {"PURCHASE", "RETURN", "CANCELLATION"}
          /\ \A i \in r.intents, j \in r.intents :
               i.op = "ingest" /\ j.op = "ingest" /\ i.key = j.key => i = j
          /\ Last({[id |-> i.at] : i \in {j \in r.intents : j.op = "ingest"}})
      BY <3>1, <1>7, Zenon DEF RequestOnce
    <3> DEFINE T == {[id |-> i.at] : i \in {j \in r.intents : j.op = "ingest"}}
    <3>3. Last(T)
      BY <3>2
    <3> HIDE DEF T
    <3>4. \A i \in r.intents : i.op = "ingest" =>
            i.at \in Nat /\ i.at > 0 /\ i.kind \in {"PURCHASE", "RETURN", "CANCELLATION"}
      BY <3>2
    <3> QED BY <3>2, <3>3, <3>4, Zenon DEF T
  <2>4. \A f : Appended(r.intents, by, f) =>
          \E i \in r.intents :
            /\ i.op = "ingest" /\ f.id = last + i.at /\ f.key = i.key /\ f.kind = i.kind
            /\ f.spine = "externalId" /\ f.by = by
            /\ {"id", "kind", "key", "spine", "by"} \subseteq DOMAIN f
    BY DEF Appended, last
  <2>5. \A i \in r.intents :
          i.op = "ingest" => Lifecycle!Tell(live, i, by).id = last + i.at
    BY DEF Lifecycle!Tell, last
  <2>6. OrdersAndEvents(live')
    <3>1. Rows(live'.events, {"id", "kind", "key", "spine", "by"})
      BY <1>4, <2>1, <2>2, <2>3, <2>4 DEF OrdersAndEvents, Rows, Corrected
    <3>2. Last(live'.events)
      <4> DEFINE T == {[id |-> i.at] : i \in {j \in r.intents : j.op = "ingest"}}
      <4>1. PICK n \in {0} \cup {x.id : x \in T} : \A x \in T : x.id <= n
        BY <2>3 DEF Last
      <4>2. \A i \in r.intents : i.op = "ingest" => i.at <= n
        <5>1. \A i \in r.intents : i.op = "ingest" => [id |-> i.at] \in T /\ [id |-> i.at].id = i.at
          OBVIOUS
        <5> HIDE DEF T
        <5> QED BY <4>1, <5>1
      <4>3. n = 0 \/ \E i \in r.intents : i.op = "ingest" /\ n = i.at
        BY <4>1
      <4>4. n \in Nat
        BY <4>3, <2>3
      <4>5. \A f \in live'.events : f.id <= last + n
        BY <2>1, <2>2, <2>3, <2>4, <4>2, <4>4 DEF Corrected
      <4>6. last + n \in {0} \cup {f.id : f \in live'.events}
        <5>1. CASE n = 0
          BY <5>1, <2>1, <2>2 DEF Corrected
        <5>2. CASE \E i \in r.intents : i.op = "ingest" /\ n = i.at
          BY <5>2, <2>1, <2>5
        <5> QED BY <4>3, <5>1, <5>2
      <4> QED BY <4>5, <4>6 DEF Last
    <3> QED BY <1>4, <2>1, <3>1, <3>2 DEF OrdersAndEvents
  <2>7. InUniverse' /\ HasEvidence'
    BY <1>1, <2>6 DEF ToldInv, InUniverse, HasEvidence
  (* Every event of ours is an older one of ours, or new *)
  <2>8. ASSUME NEW f \in Now
        PROVE  \/ \E e \in Old : /\ f.id = e.id /\ f.kind = e.kind /\ f.key = e.key
                                 /\ f.spine = e.spine /\ f.by = e.by
               \/ \E i \in r.intents :
                    /\ i.op = "ingest" /\ f.id = last + i.at /\ f.key = i.key /\ f.kind = i.kind
                    /\ f.spine = "externalId" /\ f.by = by
    BY <2>1, <2>4 DEF ToldByUs, Corrected
  <2>9. ToldByUs(live)' = Now
    BY DEF ToldByUs
  <2> HIDE DEF Now
  <2>10. \A e \in Old : e \in live.events
    BY DEF ToldByUs
  <2> HIDE DEF Old
  <2>11. MadeInOrder'
    <3>1. /\ \A f \in Now :
                /\ f.by.imports \in Nat /\ f.by.imports <= count.imports
                /\ f.by.holds \in Nat /\ f.by.holds <= count.shown
                /\ f.spine = "externalId" /\ f.kind \in {"PURCHASE", "RETURN", "CANCELLATION"}
      BY <1>2, <1>4, <2>3, <2>8 DEF MadeInOrder, Old
    <3> QED BY <1>1, <1>4, <1>5, <2>9, <3>1 DEF MadeInOrder
  <2>12. GateRemembers' /\ ImportKnows' /\ EvidenceKnows'
    <3>1. \A f \in Now : f.by.holds = count.shown => f.by.check \in held'
      BY <1>0, <1>2, <2>8 DEF ToldInv, GateRemembers, Old
    <3>2. \A u \in scoring : \A f \in Now : f.by.imports < count.imports =>
            \E d \in u.events : d.key = f.key /\ d.kind = f.kind /\ d.spine = "externalId"
      BY <1>2, <1>4, <2>8 DEF ToldInv, ImportKnows, Old
    <3>3. \A f \in Now : f.by.imports < count.shown =>
            f.key \notin GapKeys(shown.evidence.lifecycle, f.kind)
      BY <1>2, <1>4, <2>8 DEF ToldInv, EvidenceKnows, Old
    <3> QED BY <1>1, <1>5, <2>9, <3>1, <3>2, <3>3
            DEF GateRemembers, ImportKnows, EvidenceKnows, GapKeys
  <2>13. RequestKnows' /\ RequestOnce' /\ EvidenceOnce'
    BY <1>1 DEF ToldInv, RequestKnows, RequestOnce, EvidenceOnce
  <2>14. ToldOnce'
    <3> DEFINE Excused(e, f) ==
          \/ f.by.proof
          \/ /\ f.by.judged <= e.by.imports
             /\ f.by.check # e.by.check \/ f.by.holds # e.by.holds
    <3>1. ASSUME NEW e \in Now, NEW f \in Now, e.id < f.id, e.key = f.key, e.kind = f.kind
          PROVE  Excused(e, f)
      <4>1. CASE \E d \in Old : /\ f.id = d.id /\ f.kind = d.kind /\ f.key = d.key
                                /\ f.spine = d.spine /\ f.by = d.by
        <5>1. PICK d \in Old : f.id = d.id /\ f.kind = d.kind /\ f.key = d.key /\ f.by = d.by
          BY <4>1
        <5>2. PICK c \in Old : e.id = c.id /\ e.kind = c.kind /\ e.key = c.key /\ e.by = c.by
          BY <2>2, <2>3, <2>8, <2>10, <3>1, <5>1
        <5>3. Excused(c, d)
          BY <3>1, <5>1, <5>2 DEF ToldInv, ToldOnce, Old
        <5> QED BY <5>1, <5>2, <5>3, Zenon
      <4>2. CASE \E i \in r.intents :
                   /\ i.op = "ingest" /\ f.id = last + i.at /\ f.key = i.key /\ f.kind = i.kind
                   /\ f.spine = "externalId" /\ f.by = by
        <5>1. PICK i \in r.intents : i.op = "ingest" /\ f.id = last + i.at /\ f.key = i.key
                                       /\ f.kind = i.kind /\ f.by = by
          BY <4>2
        <5>2. PICK c \in Old : e.id = c.id /\ e.kind = c.kind /\ e.key = c.key /\ e.by = c.by
          <6>1. ASSUME NEW j \in r.intents, j.op = "ingest", e.id = last + j.at, e.key = j.key
                PROVE  FALSE
            <7>1. i = j
              BY <2>3, <3>1, <5>1, <6>1
            <7>2. last + i.at \in Int
              BY <2>2, <2>3, <5>1
            <7> QED BY <3>1, <5>1, <6>1, <7>1, <7>2
          <6> QED BY <2>8, <6>1
        <5>3. CASE r.proof
          BY <5>1, <5>3, <1>2, Zenon
        <5>4. CASE ~r.proof
          <6>1. ~(c.by.imports < r.judged)
            BY <5>1, <5>2, <5>4, <1>7, <3>1 DEF ToldInv, RequestKnows, Old
          <6>2. c.by.imports \in Nat
            BY <1>4 DEF MadeInOrder, Old
          <6>3. f.by.judged <= e.by.imports
            <7>1. f.by.judged = r.judged /\ r.judged \in Nat
              BY <5>1, <1>2, <1>4
            <7>2. e.by.imports = c.by.imports
              BY <5>2
            <7> QED BY <6>1, <6>2, <7>1, <7>2
          <6>4. f.by.check # e.by.check \/ f.by.holds # e.by.holds
            BY <5>1, <5>2, <1>0, <1>2 DEF ToldInv, GateRemembers, Old
          <6> QED BY <6>3, <6>4
        <5> QED BY <5>3, <5>4
      <4> QED BY <2>8, <4>1, <4>2
    <3> QED BY <2>9, <3>1 DEF ToldOnce
  <2> QED BY <2>7, <2>11, <2>12, <2>13, <2>14 DEF ToldInv
<1> QED BY <1>6, <1>7

(* Every step keeps the invariant *)
LEMMA ToldStep == ToldInv /\ [FixNext]_fixVars => ToldInv'
<1> SUFFICES ASSUME ToldInv, [FixNext]_fixVars PROVE ToldInv'
  OBVIOUS
<1>1. CASE UNCHANGED fixVars
  <2> USE <1>1 DEF fixVars, ToldInv
  <2>1. ToldByUs(live)' = ToldByUs(live)
    BY DEF ToldByUs
  <2>2. InUniverse' /\ HasEvidence' /\ MadeInOrder'
    BY <2>1 DEF InUniverse, HasEvidence, MadeInOrder
  <2> QED
    BY <2>1, <2>2 DEF GateRemembers, ImportKnows, EvidenceKnows, RequestKnows,
       GapKeys, EvidenceOnce, RequestOnce, ToldOnce
<1>2. CASE FixNext
  BY <1>2, ToldImport, ToldPublishScore, ToldScoreFails, ToldFailsAfterCommit, ToldBuildIntents,
     ToldWriteIntents, ToldAlreadyExecuted, ToldEdit DEF FixNext
<1> QED BY <1>1, <1>2

(* An event that this program told is told again only by a write whose request could *)
(* not know of it: as the proof of the write path, or judged before the event was     *)
(* imported and under another check or another run (ToldOnce of FixCycle; claim of    *)
(* the once-per-run gate and of the evidence that write-backs are built from).        *)
THEOREM ToldOnceHolds == FixSpec => []ToldOnce
<1>1. FixInit => ToldInv
  BY ToldInit
<1>2. ToldInv /\ [FixNext]_fixVars => ToldInv'
  BY ToldStep
<1>3. ToldInv => ToldOnce
  BY DEF ToldInv
<1> QED BY <1>1, <1>2, <1>3, PTL DEF FixSpec

-----------------------------------------------------------------------------
(* The plans of a score: for every set of worlds in which the platforms number      *)
(* their contacts and customers, and hold finitely many of them.                    *)

(* A cluster is what the contacts have in common *)
Clustered(u, k) ==
  \/ k.kind = "externalId" /\ k.members = {c \in u.manago : c.link = k.value}
  \/ k.kind = "email" /\ k.members = {c \in u.manago : Plain(c.email) = k.value}
  \/ k.kind = "phone" /\ k.members = {c \in u.manago : c.phone = k.value}

(* A cluster has members, and they are all that have its value *)
LEMMA ClusterMembers ==
  ASSUME NEW u, NEW k \in Identity!Clusters(u)
  PROVE  /\ k.members # {} /\ Clustered(u, k)
         /\ k = [kind |-> k.kind, value |-> k.value, members |-> k.members]
<1>0. \A S : Identity!Cardinality(S) > 1 => S # {}
  <2>1. Identity!Cardinality({}) = 0
    BY FS_EmptySet DEF Identity!Cardinality, Cardinality
  <2> QED BY <2>1
<1> HIDE DEF Identity!Cardinality
<1>1. CASE \E v : /\ Identity!Cardinality(Identity!HoldersOf(u, v)) > 1
                  /\ k = [kind |-> "externalId", value |-> v, members |-> Identity!HoldersOf(u, v)]
  BY <1>0, <1>1 DEF Identity!HoldersOf, Clustered
<1>2. CASE \E v : /\ Identity!Cardinality(Identity!WithAddress(u.manago, v)) > 1
                  /\ k = [kind |-> "email", value |-> v, members |-> Identity!WithAddress(u.manago, v)]
  BY <1>0, <1>2 DEF Identity!WithAddress, Clustered, Plain, Identity!Plain
<1>3. CASE \E v : /\ Identity!Cardinality({c \in u.manago : c.phone = v}) > 1
                  /\ k = [kind |-> "phone", value |-> v, members |-> {c \in u.manago : c.phone = v}]
  <2>1. PICK v : /\ Identity!Cardinality({c \in u.manago : c.phone = v}) > 1
                 /\ k = [kind |-> "phone", value |-> v, members |-> {c \in u.manago : c.phone = v}]
    BY <1>3
  <2>2. k.members = {c \in u.manago : c.phone = v} /\ k.kind = "phone" /\ k.value = v
    BY <2>1
  <2> QED BY <1>0, <2>1, <2>2 DEF Clustered
<1> QED BY <1>1, <1>2, <1>3 DEF Identity!Clusters

(* Two clusters of one kind share nobody *)
LEMMA KindsAreApart ==
  ASSUME NEW u, NEW k \in Identity!Clusters(u), NEW l \in Identity!Clusters(u),
         k.kind = l.kind, k # l
  PROVE  k.members \cap l.members = {}
<1>1. Clustered(u, k) /\ Clustered(u, l)
  BY ClusterMembers
<1>2. k.value = l.value => k.members = l.members
  BY <1>1 DEF Clustered
<1>3. k.value # l.value
  BY <1>2, ClusterMembers
<1> QED BY <1>1, <1>3 DEF Clustered

(* What is planned are clusters, and no two of them share anybody *)
LEMMA PlanIsApart ==
  ASSUME NEW u, NEW k \in Identity!Planned(u), NEW l \in Identity!Planned(u), k # l
  PROVE  /\ k \in Identity!Clusters(u)
         /\ k.members \cap l.members = {}
<1> DEFINE of(kind) == {x \in Identity!Clusters(u) : x.kind = kind}
           apart(clusters, plan) == {x \in clusters : \A p \in plan : p.members \cap x.members = {}}
           byLink == of("externalId")
           byEmail == apart(of("email"), byLink)
           byPhone == apart(of("phone"), byLink \cup byEmail)
<1>1. Identity!Planned(u) = byLink \cup byEmail \cup byPhone
  BY DEF Identity!Planned
<1>2. k \in Identity!Clusters(u) /\ l \in Identity!Clusters(u)
  BY <1>1
<1>3. CASE k.kind = l.kind
  BY <1>2, <1>3, KindsAreApart
<1>4. CASE k.kind # l.kind
  BY <1>1, <1>4
<1> QED BY <1>2, <1>3, <1>4

(* A bounded count has a greatest value on every set of listed *)
LEMMA GreatestValue ==
  ASSUME NEW S, S # {}, NEW f, NEW n \in Nat, \A x \in S : f[x] \in Nat /\ f[x] <= n
  PROVE  \E x \in S : \A y \in S : f[y] <= f[x]
<1> DEFINE Below == {n - f[x] : x \in S}
<1>1. Below \subseteq Nat /\ Below # {}
  OBVIOUS
<1>2. PICK m \in Below : \A k \in Below : ~(<<k, m>> \in OpToRel(<, Nat))
  BY <1>1, NatLessThanWellFounded, WFMin
<1>3. \A k \in Below : ~(k < m)
  BY <1>1, <1>2 DEF OpToRel
<1>4. PICK x \in S : m = n - f[x]
  BY <1>2
<1>5. ASSUME NEW y \in S PROVE f[y] <= f[x]
  <2>1. n - f[y] \in Below
    OBVIOUS
  <2>2. ~(n - f[y] < n - f[x])
    BY <2>1, <1>3, <1>4
  <2> QED BY <2>2
<1> QED BY <1>5

(* The same of a bounded set of counts *)
LEMMA TopOf ==
  ASSUME NEW S, S # {}, NEW f, Bounded({f[x] : x \in S})
  PROVE  \E x \in S : \A y \in S : f[y] <= f[x]
<1>1. PICK n \in {0} \cup {f[x] : x \in S} : \A k \in {f[x] : x \in S} : k <= n
  BY DEF Bounded
<1>2. n \in Nat /\ \A x \in S : f[x] \in Nat /\ f[x] <= n
  BY <1>1 DEF Bounded
<1> QED BY <1>2, GreatestValue

(* A part of a bounded set is bounded *)
LEMMA BoundedPart ==
  ASSUME NEW S, NEW T, Bounded(S), T \subseteq S
  PROVE  Bounded(T)
<1>1. PICK n \in {0} \cup S : \A k \in S : k <= n
  BY DEF Bounded
<1>2. n \in Nat /\ \A k \in T : k \in Nat /\ k <= n
  BY <1>1 DEF Bounded
<1>3. CASE T = {}
  BY <1>3 DEF Bounded
<1>4. CASE T # {}
  <2> DEFINE id == [k \in T |-> k]
  <2>1. \A k \in T : id[k] \in Nat /\ id[k] <= n
    BY <1>2
  <2>2. \E k \in T : \A j \in T : id[j] <= id[k]
    BY <2>1, <1>2, <1>4, GreatestValue
  <2> QED BY <2>2, <1>2 DEF Bounded
<1> QED BY <1>3, <1>4

(* The first of four numbers in which they differ decides *)
LEMMA FirstDifference ==
  ASSUME NEW a1 \in Nat, NEW a2 \in Nat, NEW a3 \in Nat, NEW a4 \in Nat,
         NEW b1 \in Nat, NEW b2 \in Nat, NEW b3 \in Nat, NEW b4 \in Nat,
         b1 <= a1, a1 = b1 => b2 <= a2, a1 = b1 /\ a2 = b2 => b3 <= a3,
         a1 = b1 /\ a2 = b2 /\ a3 = b3 => b4 < a4
  PROVE  Identity!Outranks(<<a1, a2, a3, a4>>, <<b1, b2, b3, b4>>)
<1> DEFINE r == <<a1, a2, a3, a4>>
           q == <<b1, b2, b3, b4>>
<1>1. \E i \in 1..4 : r[i] > q[i] /\ \A j \in 1..(i - 1) : r[j] = q[j]
  <2>1. CASE b1 < a1
    <3>1. 1 \in 1..4 /\ r[1] > q[1] /\ \A j \in 1..(1 - 1) : r[j] = q[j]
      BY <2>1
    <3> QED BY <3>1
  <2>2. CASE b1 = a1 /\ b2 < a2
    <3>1. 2 \in 1..4 /\ r[2] > q[2] /\ \A j \in 1..(2 - 1) : j = 1 /\ r[1] = q[1]
      BY <2>2
    <3> QED BY <3>1
  <2>3. CASE b1 = a1 /\ b2 = a2 /\ b3 < a3
    <3>1. 3 \in 1..4 /\ r[3] > q[3] /\ r[1] = q[1] /\ r[2] = q[2]
      BY <2>3
    <3>2. \A j \in 1..(3 - 1) : j = 1 \/ j = 2
      OBVIOUS
    <3> QED BY <3>1, <3>2
  <2>4. CASE b1 = a1 /\ b2 = a2 /\ b3 = a3 /\ b4 < a4
    <3>1. 4 \in 1..4 /\ r[4] > q[4] /\ r[1] = q[1] /\ r[2] = q[2] /\ r[3] = q[3]
      BY <2>4
    <3>2. \A j \in 1..(4 - 1) : j = 1 \/ j = 2 \/ j = 3
      OBVIOUS
    <3> QED BY <3>1, <3>2
  <2> QED BY <2>1, <2>2, <2>3, <2>4
<1> QED BY <1>1 DEF Identity!Outranks

(* The survivor of a merge is one of those it merges *)
LEMMA SurvivorIsMember ==
  ASSUME NEW u, ContactsAndCustomers(u), NEW S, S \subseteq u.manago, S # {}
  PROVE  Identity!Survivor(u, S) \in S
<1> DEFINE flag(c) == Identity!Rank(u, c)[3]
           buys == [c \in S |-> c.buys]
           events == [c \in S |-> c.events]
           known == [c \in S |-> flag(c)]
           age == [c \in S |-> c.id]
           P1 == {c \in S : \A d \in S : d.buys <= c.buys}
           P2 == {c \in P1 : \A d \in P1 : d.events <= c.events}
           P3 == {c \in P2 : \A d \in P2 : flag(d) <= flag(c)}
<1>0. \A c \in S : c.id \in Nat /\ c.buys \in Nat /\ c.events \in Nat /\ flag(c) \in {0, 1}
  <2>1. \A c \in S : c.id \in Nat /\ c.buys \in Nat /\ c.events \in Nat
    BY DEF ContactsAndCustomers, Rows, Bounded
  <2>2. \A c \in S : flag(c) \in {0, 1}
    BY DEF Identity!Rank
  <2> QED BY <2>1, <2>2
<1>r. \A c \in S : Identity!Rank(u, c) = <<c.buys, c.events, flag(c), c.id>>
  BY DEF Identity!Rank
<1> HIDE DEF flag
<1>1. P1 # {}
  <2>1. {buys[c] : c \in S} \subseteq {c.buys : c \in u.manago}
    OBVIOUS
  <2>2. Bounded({buys[c] : c \in S})
    BY <2>1, BoundedPart DEF ContactsAndCustomers
  <2>3. \E c \in S : \A d \in S : buys[d] <= buys[c]
    BY <2>2, TopOf
  <2> QED BY <2>3
<1>2. P2 # {}
  <2>0. P1 \subseteq S
    OBVIOUS
  <2> HIDE DEF P1
  <2>1. {events[c] : c \in P1} \subseteq {c.events : c \in u.manago}
    BY <2>0
  <2>2. Bounded({events[c] : c \in P1})
    BY <2>1, BoundedPart DEF ContactsAndCustomers
  <2>3. \E c \in P1 : \A d \in P1 : events[d] <= events[c]
    BY <2>2, <1>1, TopOf
  <2> QED BY <2>3, <2>0
<1>3. P3 # {}
  <2>0. P2 \subseteq S
    OBVIOUS
  <2> HIDE DEF P2
  <2>1. \A c \in P2 : known[c] \in Nat /\ known[c] <= 1
    BY <2>0, <1>0
  <2>3. \E c \in P2 : \A d \in P2 : known[d] <= known[c]
    BY <2>1, <1>2, GreatestValue
  <2> QED BY <2>3, <2>0
<1>4. PICK c \in P3 : \A d \in P3 : d.id <= c.id
  <2>0. P3 \subseteq S
    OBVIOUS
  <2> HIDE DEF P3
  <2>1. PICK n \in {0} \cup {x.id : x \in u.manago} : \A x \in u.manago : x.id <= n
    BY DEF ContactsAndCustomers, Last
  <2>2. n \in Nat /\ \A d \in P3 : age[d] \in Nat /\ age[d] <= n
    BY <2>0, <2>1, <1>0 DEF ContactsAndCustomers, Rows
  <2>3. \E x \in P3 : \A d \in P3 : age[d] <= age[x]
    BY <2>2, <1>3, GreatestValue
  <2> QED BY <2>3, <2>0
<1>5. ASSUME NEW d \in S, d # c
      PROVE  Identity!Outranks(Identity!Rank(u, c), Identity!Rank(u, d))
  <2>1. /\ c \in S /\ d.buys <= c.buys
        /\ d.buys = c.buys => d.events <= c.events
        /\ d.buys = c.buys /\ d.events = c.events => flag(d) <= flag(c)
        /\ d.buys = c.buys /\ d.events = c.events /\ flag(d) = flag(c) => d.id <= c.id
    BY <1>0, <1>4, <1>5
  <2>2. d.id # c.id
    BY <1>5, <2>1 DEF ContactsAndCustomers
  <2>3. Identity!Outranks(<<c.buys, c.events, flag(c), c.id>>, <<d.buys, d.events, flag(d), d.id>>)
    <3>1. /\ c.buys \in Nat /\ c.events \in Nat /\ flag(c) \in Nat /\ c.id \in Nat
          /\ d.buys \in Nat /\ d.events \in Nat /\ flag(d) \in Nat /\ d.id \in Nat
      BY <1>0, <1>5, <2>1
    <3> HIDE DEF P3
    <3>2. d.id < c.id \/ ~(d.buys = c.buys /\ d.events = c.events /\ flag(d) = flag(c))
      BY <2>1, <2>2, <3>1
    <3> QED BY <2>1, <3>1, <3>2, FirstDifference
  <2> QED BY <2>1, <2>3, <1>r, <1>5
<1>6. c \in S
  BY <1>4
<1> HIDE DEF P3
<1> QED BY <1>5, <1>6 DEF Identity!Survivor

(* No contact is merged twice *)
LEMMA MergesAreDisjoint ==
  ASSUME ContactsAndCustomers(pinned)
  PROVE  MergesDisjoint
<1> SUFFICES ASSUME NEW p \in Identity!MergePlan(pinned), NEW q \in Identity!MergePlan(pinned),
                    p # q
             PROVE  ({p.survivor} \cup p.losers) \cap ({q.survivor} \cup q.losers) = {}
  BY DEF MergesDisjoint
<1> DEFINE M(k) == {c.id : c \in k.members}
<1>1. ASSUME NEW r \in Identity!MergePlan(pinned)
      PROVE  \E k \in Identity!Planned(pinned) :
               /\ {r.survivor} \cup r.losers \subseteq M(k)
               /\ r = [cluster |-> <<k.kind, k.value>>,
                       survivor |-> Identity!Survivor(pinned, k.members).id,
                       losers |-> M(k) \ {Identity!Survivor(pinned, k.members).id},
                       class |-> Identity!SafetyClass(pinned, k)]
  <2>1. PICK k \in Identity!Planned(pinned) :
               r = [cluster |-> <<k.kind, k.value>>,
                    survivor |-> Identity!Survivor(pinned, k.members).id,
                    losers |-> M(k) \ {Identity!Survivor(pinned, k.members).id},
                    class |-> Identity!SafetyClass(pinned, k)]
    BY DEF Identity!MergePlan, Identity!FirstFew
  <2>2. k \in Identity!Clusters(pinned)
    BY DEF Identity!Planned
  <2>3. k.members # {} /\ k.members \subseteq pinned.manago
    BY <2>2, ClusterMembers DEF Clustered
  <2>4. Identity!Survivor(pinned, k.members) \in k.members
    BY <2>3, SurvivorIsMember
  <2> QED BY <2>1, <2>4
<1>2. PICK k \in Identity!Planned(pinned) :
               /\ {p.survivor} \cup p.losers \subseteq M(k)
               /\ p = [cluster |-> <<k.kind, k.value>>,
                       survivor |-> Identity!Survivor(pinned, k.members).id,
                       losers |-> M(k) \ {Identity!Survivor(pinned, k.members).id},
                       class |-> Identity!SafetyClass(pinned, k)]
  BY <1>1
<1>3. PICK l \in Identity!Planned(pinned) :
               /\ {q.survivor} \cup q.losers \subseteq M(l)
               /\ q = [cluster |-> <<l.kind, l.value>>,
                       survivor |-> Identity!Survivor(pinned, l.members).id,
                       losers |-> M(l) \ {Identity!Survivor(pinned, l.members).id},
                       class |-> Identity!SafetyClass(pinned, l)]
  BY <1>1
<1>4. k # l
  BY <1>2, <1>3
<1>5. k.members \cap l.members = {} /\ k \in Identity!Clusters(pinned) /\ l \in Identity!Clusters(pinned)
  BY <1>4, PlanIsApart
<1>6. k.members \subseteq pinned.manago /\ l.members \subseteq pinned.manago
  BY <1>5, ClusterMembers DEF Clustered
<1>7. M(k) \cap M(l) = {}
  BY <1>5, <1>6 DEF ContactsAndCustomers
<1> QED BY <1>2, <1>3, <1>7

(* A claim of CI-05: the contact and the customer that are alone with their address *)
Claims(u, i, c, s) ==
  /\ c \in u.manago /\ s \in u.shopify
  /\ i.contact = c.id /\ i.link = s.id /\ i.at = Plain(c.email)
  /\ c.link = 0 /\ c.email # NoEmail /\ Plain(s.email) = Plain(c.email)
  /\ s.id \notin Identity!Links(u)
  /\ \A d \in u.manago : Plain(d.email) = Plain(c.email) => d = c
  /\ Identity!RealCustomers(u, Plain(c.email)) = {s}
  /\ i = [at |-> i.at, contact |-> i.contact, email |-> c.email, link |-> i.link]

(* Every row that passes the filter of CI-05 is such a claim *)
LEMMA ClaimsOfRows ==
  ASSUME NEW u, ContactsAndCustomers(u), NEW listed,
         NEW i \in Identity!_ci05_filter_missing_rows(u, listed)
  PROVE  \E c \in u.manago, s \in u.shopify : Claims(u, i, c, s)
<1>1. PICK c \in u.manago :
        /\ c.email # Identity!NoEmail
        /\ Identity!Linkable(u, Identity!Plain(c.email))
        /\ i = [at |-> Identity!Plain(c.email), contact |-> c.id, email |-> c.email,
                link |-> Identity!Earliest(Identity!RealCustomers(u, Identity!Plain(c.email))).id]
  BY DEF Identity!_ci05_filter_missing_rows
<1> DEFINE e == Identity!Plain(c.email)
<1>2. PICK d \in u.manago : Identity!WithAddress(u.manago, e) = {d} /\ d.link = 0
  BY <1>1 DEF Identity!Linkable
<1>3. PICK s \in u.shopify : Identity!RealCustomers(u, e) = {s} /\ s.id \notin Identity!Links(u)
  BY <1>1 DEF Identity!Linkable
<1>4. d = c /\ \A x \in u.manago : Identity!Plain(x.email) = e => x = c
  BY <1>2 DEF Identity!WithAddress
<1>5. Identity!Plain(s.email) = e
  BY <1>3 DEF Identity!RealCustomers, Identity!WithAddress
<1>6. Identity!Earliest({s}) = s
  BY DEF Identity!Earliest, ContactsAndCustomers, Rows
<1>7. i.link = s.id /\ i.contact = c.id /\ i.at = e /\ i.email = c.email
  BY <1>1, <1>3, <1>6
<1>8. \A x : Identity!Plain(x) = Plain(x)
  BY DEF Identity!Plain, Plain
<1> QED BY <1>1, <1>2, <1>3, <1>4, <1>5, <1>7, <1>8 DEF Claims, NoEmail, Identity!NoEmail

(* The claims of CI-05 are apart, and ask for no key that is in use *)
LEMMA ClaimsOfCI05 ==
  ASSUME NEW u, ContactsAndCustomers(u), NEW e
  PROVE  /\ \A i \in Identity!_ci05_evidence_rows(u, e) :
              \E c \in u.manago, s \in u.shopify : Claims(u, i, c, s)
         /\ Identity!Distinct(u, Identity!_ci05_evidence_rows(u, e))
<1> DEFINE listed == Identity!_ci05_evidence_rows(u, e)
<1>1. \E X : listed = Identity!_ci05_filter_missing_rows(u, X)
  BY DEF Identity!_ci05_evidence_rows
<1>2. \A i \in listed : \E c \in u.manago, s \in u.shopify : Claims(u, i, c, s)
  BY <1>1, ClaimsOfRows
<1> HIDE DEF listed
<1>3. ASSUME NEW i \in listed, NEW j \in listed, i.link = j.link \/ i.contact = j.contact
      PROVE  i = j
  <2>1. PICK c \in u.manago, s \in u.shopify : Claims(u, i, c, s)
    BY <1>2
  <2>2. PICK d \in u.manago, t \in u.shopify : Claims(u, j, d, t)
    BY <1>2
  <2>3. c = d
    <3>1. CASE i.contact = j.contact
      BY <2>1, <2>2, <3>1 DEF Claims, ContactsAndCustomers
    <3>2. CASE i.link = j.link
      <4>1. s = t
        BY <2>1, <2>2, <3>2 DEF Claims, ContactsAndCustomers
      <4> QED BY <2>1, <2>2, <4>1 DEF Claims
    <3> QED BY <1>3, <3>1, <3>2
  <2>4. i.at = j.at /\ i.contact = j.contact
    BY <2>1, <2>2, <2>3 DEF Claims
  <2>5. i.link = j.link
    BY <2>1, <2>2, <2>3 DEF Claims
  <2> QED BY <2>1, <2>2, <2>3, <2>4, <2>5 DEF Claims
<1>4. \A i \in listed : i.link \notin Identity!Links(u)
  BY <1>2 DEF Claims
<1> QED BY <1>2, <1>3, <1>4 DEF listed, Identity!Distinct

(* An address stays one without its alias *)
LEMMA PlainAddress ==
  ASSUME NEW e \in Nat
  PROVE  /\ Plain(e) \in Nat /\ (Plain(e) = NoEmail <=> e = NoEmail)
         /\ Plain(e) <= e
         /\ e # NoEmail => Masked(Mask(e)) /\ Mask(e) # NoEmail
         /\ Mask(NoEmail) = NoEmail
<1>1. e % 2 \in {0, 1}
  OBVIOUS
<1> QED BY <1>1 DEF Plain, Mask, Masked, NoEmail

(* The customer that a contact is paired with is no guest, and its link or its address names it *)
LEMMA CustomerOfContact ==
  ASSUME NEW u, ContactsAndCustomers(u), NEW c, Consent!CustomersOf(u, c) # {}
  PROVE  LET s == Consent!Newest(Consent!CustomersOf(u, c))
         IN s \in u.shopify /\ ~s.guest /\ (s.id = c.link \/ SameAddress(c, s))
<1> DEFINE T == Consent!CustomersOf(u, c)
<1>1. \A s \in T : s \in u.shopify /\ ~s.guest /\ (s.id = c.link \/ SameAddress(c, s))
  BY DEF Consent!CustomersOf, SameAddress, Consent!Plain, Plain, Consent!NoEmail, NoEmail
<1>2. \A s \in u.shopify : s.id \in Nat \ {0}
  BY DEF ContactsAndCustomers, Rows
<1> HIDE DEF T
<1>3. Last(T)
  BY <1>1, <1>2, PartHasLast DEF ContactsAndCustomers
<1>4. PICK n \in {0} \cup {s.id : s \in T} : \A s \in T : s.id <= n
  BY <1>3 DEF Last
<1>5. T # {}
  BY DEF T
<1>6. \E s \in T : s.id = n
  BY <1>1, <1>2, <1>4, <1>5
<1>7. Consent!Newest(T) \in T
  BY <1>4, <1>6 DEF Consent!Newest
<1> QED BY <1>1, <1>7 DEF T

(* A contact that grew is provable when it was before, and the other way round *)
LEMMA ProvableLater ==
  ASSUME NEW u, ContactsAndCustomers(u), NEW v, v.shopify = u.shopify,
         NEW c \in u.manago, NEW d, Grew(u, c, d), c.email # NoEmail
  PROVE  Provable(u, c) <=> Provable(v, d)
<1>0. c.email \in Nat /\ Plain(c.email) # NoEmail
  BY PlainAddress DEF ContactsAndCustomers
<1>1. \A s \in u.shopify : s.id # 0
  BY DEF ContactsAndCustomers, Rows
<1>2. \A s : SameAddress(c, s) <=> SameAddress(d, s)
  BY DEF Grew, SameAddress
<1>3. \A s : Consent!HoldsEvidence([contact |-> c, customer |-> s])
               <=> Consent!HoldsEvidence([contact |-> d, customer |-> s])
  BY DEF Consent!HoldsEvidence
<1>4. ASSUME NEW s \in u.shopify
      PROVE  s.id = c.link \/ SameAddress(c, s) <=> s.id = d.link \/ SameAddress(d, s)
  <2>1. CASE d.link = c.link
    BY <2>1, <1>2
  <2>2. CASE d.link # c.link
    <3>1. Relinkable(u, c) /\ AddressLink(u, d)
      BY <2>2 DEF Grew
    <3>2. s.id = c.link => SameAddress(c, s)
      BY <3>1, <1>0, <1>1 DEF Relinkable, AddressLink, SameAddress, ContactsAndCustomers
    <3>3. s.id = d.link => SameAddress(c, s)
      BY <3>1, <1>0 DEF AddressLink, SameAddress, ContactsAndCustomers, Grew
    <3> QED BY <3>2, <3>3, <1>2
  <2> QED BY <2>1, <2>2
<1>5. c.proven <=> d.proven
  BY DEF Grew
<1> HIDE DEF Grew
<1> QED BY <1>2, <1>3, <1>4, <1>5 DEF Provable

(* To be later than what is later is to be later *)
LEMMA LaterStill ==
  ASSUME NEW u, NEW v, NEW w, Later(u, v), Later(v, w)
  PROVE  Later(u, w)
<1>1. w.shopify = u.shopify /\ w.executeOn = u.executeOn
  BY DEF Later
<1>2. \A c \in u.manago : \E d \in w.manago : d.id = c.id /\ d.email = c.email
  BY DEF Later
<1>3. ASSUME NEW c, NEW d, NEW x, Grew(u, c, d), Grew(v, d, x)
      PROVE  Grew(u, c, x)
  <2>1. v.shopify = u.shopify
    BY DEF Later
  <2>2. AddressLink(v, x) <=> AddressLink(u, x)
    BY <2>1 DEF AddressLink
  <2>3. d.link = c.link => (Relinkable(v, d) <=> Relinkable(u, c))
    BY <2>1, <1>3 DEF AddressLink, Relinkable, Grew
  <2>4. x.link = d.link => (AddressLink(u, d) <=> AddressLink(u, x))
    BY <1>3 DEF AddressLink, Grew
  <2> QED BY <1>3, <2>2, <2>3, <2>4 DEF Grew
<1>4. ASSUME NEW x \in w.manago, ~Masked(x.email)
      PROVE  \E c \in u.manago : Grew(u, c, x)
  <2>1. PICK d \in v.manago : Grew(v, d, x)
    BY <1>4 DEF Later
  <2>2. PICK c \in u.manago : Grew(u, c, d)
    BY <2>1, <1>4 DEF Later, Grew
  <2> QED BY <1>3, <2>1, <2>2
<1> QED BY <1>1, <1>2, <1>4 DEF Later

(* The platforms are as late as themselves *)
LEMMA LaterSelf ==
  ASSUME NEW u PROVE Later(u, u)
BY DEF Later, Grew

(* An opt-in is proposed for a reason *)
LEMMA SecondOfThree ==
  ASSUME NEW a \in BOOLEAN, NEW b \in BOOLEAN,
         Consent!FirstRule(<< <<a, "FORCE_OPT_OUT">>, <<b, "FORCE_OPT_IN">>,
                              <<TRUE, "SKIP_UNEVIDENCED">> >>) = "FORCE_OPT_IN"
  PROVE  b
<1> DEFINE rules == << <<a, "FORCE_OPT_OUT">>, <<b, "FORCE_OPT_IN">>, <<TRUE, "SKIP_UNEVIDENCED">> >>
           first(i) == rules[i][1] /\ \A j \in 1..(i - 1) : ~rules[j][1]
<1>1. \E i \in DOMAIN rules : first(i)
  <2>0. DOMAIN rules = 1..3 /\ rules[1][1] = a /\ rules[2][1] = b /\ rules[3][1] = TRUE
    OBVIOUS
  <2>1. CASE a
    <3>1. first(1) /\ 1 \in DOMAIN rules
      BY <2>1, <2>0
    <3> HIDE DEF first, rules
    <3> QED BY <3>1
  <2>2. CASE ~a /\ b
    <3>1. first(2) /\ 2 \in DOMAIN rules
      BY <2>2, <2>0
    <3> HIDE DEF first, rules
    <3> QED BY <3>1
  <2>3. CASE ~a /\ ~b
    <3>1. \A j \in 1..(3 - 1) : j = 1 \/ j = 2
      OBVIOUS
    <3>2. first(3) /\ 3 \in DOMAIN rules
      BY <2>3, <2>0, <3>1
    <3> HIDE DEF first, rules
    <3> QED BY <3>2
  <2> QED BY <2>1, <2>2, <2>3
<1>2. PICK i \in DOMAIN rules : first(i) /\ rules[i][2] = "FORCE_OPT_IN"
  <2> DEFINE i == CHOOSE k \in DOMAIN rules : first(k)
  <2>1. i \in DOMAIN rules /\ first(i)
    BY <1>1
  <2>2. rules[i][2] = "FORCE_OPT_IN"
    BY DEF Consent!FirstRule
  <2> QED BY <2>1, <2>2
<1>3. DOMAIN rules = 1..3 /\ rules[1][2] = "FORCE_OPT_OUT" /\ rules[3][2] = "SKIP_UNEVIDENCED"
  OBVIOUS
<1>4. i = 2
  BY <1>2, <1>3
<1> QED BY <1>2, <1>4

(* A stamp that a plan may find stands on what the platforms can prove of the address *)
LEMMA StampIsProvable ==
  ASSUME NEW u, Sound(u), Sound(latest), Later(u, latest), ~latest.executeOn,
         NEW c \in u.manago, c.email # NoEmail,
         NEW e \in {Plain(c.email), Mask(Plain(c.email))},
         NEW x \in Consent!find_manago_contact(latest, c.id, e), x.stamp
  PROVE  \E d \in u.manago : (d = c \/ SameAddress(c, d)) /\ Provable(u, d)
<1>0. c.email \in Nat /\ Plain(c.email) # NoEmail
  BY PlainAddress DEF Sound, ContactsAndCustomers
<1>1. x \in latest.manago /\ (x.id = c.id \/ x.email = e)
  BY DEF Consent!find_manago_contact
<1>2. ~Masked(x.email) /\ (x.email # NoEmail => Provable(latest, x))
  BY <1>1 DEF Sound, Stampable
<1>3. PICK d \in u.manago : Grew(u, d, x)
  BY <1>1, <1>2 DEF Later
<1>4. d = c \/ SameAddress(c, d)
  <2>1. CASE x.id = c.id
    BY <2>1, <1>3 DEF Grew, Sound, ContactsAndCustomers
  <2>2. CASE x.email = e
    <3>1. Masked(Mask(Plain(c.email)))
      BY <1>0, PlainAddress
    <3>2. x.email = Plain(c.email) /\ d.email = Plain(c.email)
      BY <3>1, <2>2, <1>2, <1>3 DEF Grew
    <3>3. Plain(Plain(c.email)) = Plain(c.email)
      BY <1>0 DEF Plain
    <3> QED BY <3>2, <3>3, <1>0 DEF SameAddress
  <2> QED BY <1>1, <2>1, <2>2
<1>5. d.email # NoEmail /\ d.email \in Nat
  BY <1>4, <1>0, PlainAddress DEF SameAddress, Sound, ContactsAndCustomers, Plain
<1>6. Provable(latest, x)
  BY <1>2, <1>3, <1>5 DEF Grew
<1>7. Provable(u, d)
  BY <1>3, <1>5, <1>6, ProvableLater DEF Sound, Later
<1> QED BY <1>4, <1>7

(* Where nothing may be written, what is proposed can be proved, in the universe the *)
(* row is of: the import that is pinned, or the one that was judged                  *)
LEMMA ProposalsProvable ==
  ASSUME Sound(latest), Later(latest, live), EvidenceIsJudged,
         \A u \in {pinned} \cup shown.import : Sound(u) /\ Later(u, latest)
  PROVE  OptInsProvable
<1> DEFINE plan == Consent!ConsentPlan("email", shown.evidence.consent, pinned, latest)
           Of(u) == Consent!PlanRows(u, "email")
           Proposed(S) == {[contact |-> r.contact, proposed |-> Consent!Proposal(latest, r)] :
                             r \in {q \in S : q.email # Consent!NoEmail}}
<1> SUFFICES ASSUME NEW x \in plan, x.proposed = "FORCE_OPT_IN", ~live.executeOn
             PROVE  \E u \in {pinned} \cup shown.import : \E c \in u.manago, d \in u.manago :
                      /\ c.id = x.contact
                      /\ d = c \/ SameAddress(c, d)
                      /\ Provable(u, d)
  BY DEF OptInsProvable
<1>1. PICK u \in {pinned} \cup shown.import : \E r \in Of(u) \cup Consent!MaskRows(Of(u)) :
        /\ r.email # Consent!NoEmail
        /\ x = [contact |-> r.contact, proposed |-> Consent!Proposal(latest, r)]
  <2>1. \/ shown.evidence.consent.cc01 = {}
        \/ \E u \in shown.import :
             shown.evidence.consent.cc01 \subseteq Of(u) \cup Consent!MaskRows(Of(u))
    <3>1. CASE \E u \in shown.import : shown.evidence.consent = Consent!ConsentEvidence(u)
      <4>1. PICK u \in shown.import : shown.evidence.consent = Consent!ConsentEvidence(u)
        BY <3>1
      <4>2. shown.evidence.consent.cc01 = IF Consent!Listed(Consent!evaluate_cc_01(u), FALSE)
                                          THEN Consent!MaskRows(Of(u)) ELSE {}
        BY <4>1 DEF Consent!ConsentEvidence
      <4> QED BY <4>2
    <3>2. CASE shown.evidence.consent = Consent!NoConsentEvidence
      BY <3>2 DEF Consent!NoConsentEvidence
    <3> QED BY <3>1, <3>2 DEF EvidenceIsJudged
  <2>2. \/ x \in Proposed(shown.evidence.consent.cc01)
        \/ x \in Proposed(Of(pinned))
    BY DEF Consent!ConsentPlan, Consent!FirstFew
  <2> HIDE DEF Of
  <2> QED BY <2>1, <2>2
<1> DEFINE R == Of(u)
<1>0. Sound(u) /\ Later(u, latest) /\ ContactsAndCustomers(u) /\ ~latest.executeOn
  BY DEF Later, Sound
<1>11. PICK r \in R \cup Consent!MaskRows(R) :
        /\ r.email # Consent!NoEmail
        /\ x = [contact |-> r.contact, proposed |-> Consent!Proposal(latest, r)]
  BY <1>1
<1>2. PICK p \in R : /\ r.contact = p.contact /\ r.proven = p.proven /\ r.levelAndTime = p.levelAndTime
                     /\ r.email \in {p.email, Consent!Mask(p.email)}
  <2>1. \A p \in R : p = [contact |-> p.contact, email |-> p.email, channel |-> p.channel,
                          side |-> p.side, proven |-> p.proven, levelAndTime |-> p.levelAndTime]
    BY DEF Consent!PlanRows, Consent!PlanRow
  <2> HIDE DEF R
  <2>2. CASE r \in R
    BY <2>2
  <2>3. CASE r \in Consent!MaskRows(R)
    <3>1. PICK p \in R : r = [p EXCEPT !.email = Consent!Mask(p.email)]
      BY <2>3 DEF Consent!MaskRows
    <3> QED BY <3>1, <2>1
  <2> QED BY <2>2, <2>3, <1>11
<1>3. PICK q \in Consent!Linked(u) : p = Consent!PlanRow(q, "email")
  BY DEF Consent!PlanRows, Consent!Mismatched
<1>4. PICK c \in u.manago : /\ Consent!CustomersOf(u, c) # {}
        /\ q = [contact |-> c, customer |-> Consent!Newest(Consent!CustomersOf(u, c))]
  BY DEF Consent!Linked
<1>5. /\ x.contact = c.id /\ r.contact = c.id
      /\ r.email \in {Plain(c.email), Mask(Plain(c.email))}
      /\ r.proven = c.proven
      /\ r.levelAndTime => q.customer.at["email"] # 0
  <2>1. p.contact = c.id /\ p.email = Consent!Plain(c.email) /\ p.proven = c.proven
          /\ p.levelAndTime = (q.customer.level["email"] /\ q.customer.at["email"] # 0)
    BY <1>3, <1>4 DEF Consent!PlanRow
  <2>2. Consent!Plain(c.email) = Plain(c.email) /\ \A e : Consent!Mask(e) = Mask(e)
    BY DEF Consent!Plain, Plain, Consent!Mask, Mask, Consent!Masked, Masked, Consent!NoEmail, NoEmail
  <2>3. x.contact = r.contact
    BY <1>11
  <2> QED BY <1>2, <2>1, <2>2, <2>3
<1>6. c.email # NoEmail
  <2>1. c.email = NoEmail => Plain(c.email) = NoEmail /\ Mask(Plain(c.email)) = NoEmail
    BY DEF Plain, Mask, NoEmail
  <2> QED BY <1>11, <1>5, <2>1 DEF Consent!NoEmail, NoEmail
<1>7. r.proven \/ Consent!Stamped(latest, r) \/ r.levelAndTime
  <2>1. Consent!Proposal(latest, r) = "FORCE_OPT_IN"
    BY <1>11
  <2> DEFINE a == r.side = "out_in"
             b == r.proven \/ Consent!Stamped(latest, r) \/ r.levelAndTime
  <2>2. Consent!FirstRule(<< <<a, "FORCE_OPT_OUT">>, <<b, "FORCE_OPT_IN">>,
                             <<TRUE, "SKIP_UNEVIDENCED">> >>) = "FORCE_OPT_IN"
    BY <2>1 DEF Consent!Proposal
  <2>3. a \in BOOLEAN /\ b \in BOOLEAN
    OBVIOUS
  <2> HIDE DEF a, b
  <2>4. b
    BY <2>2, <2>3, SecondOfThree
  <2> QED BY <2>4 DEF b
<1>8. CASE r.proven
  BY <1>5, <1>8 DEF Provable
<1>9. CASE r.levelAndTime
  <2> DEFINE s == Consent!Newest(Consent!CustomersOf(u, c))
  <2>1. s \in u.shopify /\ ~s.guest /\ (s.id = c.link \/ SameAddress(c, s))
    BY <1>0, <1>4, CustomerOfContact
  <2>2. q.customer = s
    BY <1>4
  <2> HIDE DEF s
  <2>3. Consent!HoldsEvidence([contact |-> c, customer |-> s])
    BY <1>5, <1>9, <2>2 DEF Consent!HoldsEvidence
  <2> QED BY <1>5, <2>1, <2>3 DEF Provable
<1>10. CASE Consent!Stamped(latest, r)
  <2>1. PICK y \in Consent!find_manago_contact(latest, c.id, r.email) : y.stamp
    BY <1>5, <1>10 DEF Consent!Stamped
  <2>2. \E d \in u.manago : (d = c \/ SameAddress(c, d)) /\ Provable(u, d)
    BY <2>1, <1>0, <1>5, <1>6, StampIsProvable
  <2> QED BY <2>2, <1>5
<1> QED BY <1>7, <1>8, <1>9, <1>10

(* What stays below a number is bounded *)
LEMMA BoundedBy ==
  ASSUME NEW S, S \subseteq Nat, NEW n \in Nat, \A k \in S : k <= n
  PROVE  Bounded(S)
<1>1. CASE S = {}
  BY <1>1 DEF Bounded
<1>2. CASE S # {}
  <2> DEFINE id == [k \in S |-> k]
  <2>1. \A k \in S : id[k] \in Nat /\ id[k] <= n
    OBVIOUS
  <2>2. \E k \in S : \A j \in S : id[j] <= id[k]
    BY <2>1, <1>2, GreatestValue
  <2> QED BY <2>2 DEF Bounded
<1> QED BY <1>1, <1>2

(* A count of none more leaves it bounded *)
LEMMA BoundedWithZero ==
  ASSUME NEW S, Bounded(S), NEW T, T \subseteq S \cup {0}
  PROVE  Bounded(T)
<1>1. PICK m \in {0} \cup S : \A k \in S : k <= m
  BY DEF Bounded
<1>2. S \subseteq Nat /\ m \in Nat
  BY <1>1 DEF Bounded
<1>3. \A k \in T : k \in Nat /\ k <= m
  BY <1>1, <1>2
<1> QED BY <1>2, <1>3, BoundedBy

(* A set whose ids stay below a number has a last one *)
LEMMA LastBy ==
  ASSUME NEW S, \A x \in S : x.id \in Nat, NEW n \in Nat, \A x \in S : x.id <= n
  PROVE  Last(S)
<1> DEFINE I == {x.id : x \in S}
<1>1. Bounded(I)
  <2>1. I \subseteq Nat /\ \A k \in I : k <= n
    OBVIOUS
  <2> QED BY <2>1, BoundedBy
<1> QED BY <1>1 DEF Bounded, Last

(* What a fix or a merchant may make of a contact *)
Altered(u, c, d) ==
  /\ ContactFields \subseteq DOMAIN d
  /\ d.id = c.id /\ d.email = c.email /\ d.buys = c.buys /\ d.events = c.events
  /\ d.proven = c.proven
  /\ "email" \in DOMAIN d.state /\ (d.state["email"] = "in" => c.state["email"] = "in")
  /\ Masked(c.email) \/ d.link = c.link \/ (Relinkable(u, c) /\ AddressLink(u, d))
  /\ d.stamp => c.stamp \/ Stampable(u, c)

(* A contact that is left alone is one of these *)
LEMMA AlteredSelf ==
  ASSUME NEW u, Sound(u), NEW c \in u.manago
  PROVE  Altered(u, c, c)
BY DEF Sound, ContactsAndCustomers, Altered, Rows

(* When every contact is altered like this the platforms stay sound, and are only later *)
LEMMA AlteredIsSound ==
  ASSUME NEW u, Sound(u), NEW v, NEW f,
         {"manago", "shopify", "executeOn"} \subseteq DOMAIN v,
         v.shopify = u.shopify, v.executeOn = u.executeOn,
         v.manago = {f[c] : c \in u.manago},
         \A c \in u.manago : Altered(u, c, f[c])
  PROVE  Sound(v) /\ Later(u, v)
<1>0. ContactsAndCustomers(u)
  BY DEF Sound
<1>1. \A d \in v.manago : \E c \in u.manago : d = f[c] /\ Altered(u, c, d)
  OBVIOUS
<1>2. ASSUME NEW c \in u.manago, NEW d, Altered(u, c, d), ~Masked(c.email)
      PROVE  Grew(u, c, d)
  BY <1>2 DEF Altered, Grew
<1>3. Later(u, v)
  <2>1. \A c \in u.manago : f[c] \in v.manago /\ f[c].id = c.id /\ f[c].email = c.email
    BY DEF Altered
  <2>2. \A d \in v.manago : Masked(d.email) \/ \E c \in u.manago : Grew(u, c, d)
    BY <1>1, <1>2 DEF Altered
  <2> QED BY <2>1, <2>2 DEF Later
<1>4. ContactsAndCustomers(v)
  <2>1. Rows(v.manago, ContactFields)
    BY <1>0, <1>1 DEF ContactsAndCustomers, Rows, Altered
  <2>2. \A x \in v.manago, y \in v.manago : x.id = y.id => x = y
    <3> SUFFICES ASSUME NEW x \in v.manago, NEW y \in v.manago, x.id = y.id PROVE x = y
      OBVIOUS
    <3>1. PICK c \in u.manago : x = f[c] /\ x.id = c.id
      BY <1>1 DEF Altered
    <3>2. PICK d \in u.manago : y = f[d] /\ y.id = d.id
      BY <1>1 DEF Altered
    <3> QED BY <3>1, <3>2, <1>0 DEF ContactsAndCustomers
  <2>3. Last(v.manago)
    <3>1. \A x \in v.manago : \E y \in u.manago : x.id = y.id
      BY <1>1 DEF Altered
    <3> QED BY <3>1, <1>0, PartHasLast DEF ContactsAndCustomers, Rows
  <2>4. Bounded({c.buys : c \in v.manago})
    <3>1. {c.buys : c \in v.manago} \subseteq {c.buys : c \in u.manago}
      BY <1>1 DEF Altered
    <3> QED BY <3>1, <1>0, BoundedPart DEF ContactsAndCustomers
  <2>5. Bounded({c.events : c \in v.manago})
    <3>1. {c.events : c \in v.manago} \subseteq {c.events : c \in u.manago}
      BY <1>1 DEF Altered
    <3> QED BY <3>1, <1>0, BoundedPart DEF ContactsAndCustomers
  <2>6. \A c \in v.manago : c.email \in Nat /\ "email" \in DOMAIN c.state
    BY <1>1, <1>0 DEF Altered, ContactsAndCustomers
  <2> QED BY <2>1, <2>2, <2>3, <2>4, <2>5, <2>6, <1>0 DEF ContactsAndCustomers
<1>5. ASSUME NEW d \in v.manago
      PROVE  /\ Masked(d.email) => d.state["email"] # "in"
             /\ d.stamp => Stampable(v, d)
  <2>1. PICK c \in u.manago : Altered(u, c, d)
    BY <1>1
  <2>2. Masked(d.email) => d.state["email"] # "in"
    BY <2>1 DEF Altered, Sound
  <2>3. ASSUME d.stamp PROVE Stampable(v, d)
    <3>1. Stampable(u, c) /\ d.email = c.email
      BY <2>1, <2>3 DEF Altered, Sound
    <3>2. CASE u.executeOn
      BY <3>2 DEF Stampable
    <3>3. CASE ~Masked(c.email) /\ c.email = NoEmail
      BY <3>1, <3>3 DEF Stampable
    <3>4. CASE ~Masked(c.email) /\ c.email # NoEmail /\ Provable(u, c)
      <4>1. Provable(v, d)
        BY <3>4, <2>1, <1>0, <1>2, ProvableLater
      <4> QED BY <3>1, <3>4, <4>1 DEF Stampable
    <3> QED BY <3>1, <3>2, <3>3, <3>4 DEF Stampable
  <2> QED BY <2>2, <2>3
<1> QED BY <1>3, <1>4, <1>5 DEF Sound

(* What leaves the contacts alone leaves them sound *)
LEMMA UntouchedIsSound ==
  ASSUME NEW u, Sound(u), NEW v, DOMAIN v = DOMAIN u,
         v.shopify = u.shopify, v.executeOn = u.executeOn, v.manago = u.manago
  PROVE  Sound(v) /\ Later(u, v)
<1> DEFINE f == [c \in u.manago |-> c]
<1>1. {"manago", "shopify", "executeOn"} \subseteq DOMAIN v
  BY DEF Sound, ContactsAndCustomers
<1>2. \A c \in u.manago : Altered(u, c, f[c])
  BY AlteredSelf
<1>3. v.manago = {f[c] : c \in u.manago}
  OBVIOUS
<1> HIDE DEF f
<1> QED BY <1>1, <1>2, <1>3, AlteredIsSound

(* To alter one contact is enough *)
LEMMA OneAlteredIsSound ==
  ASSUME NEW u, Sound(u), NEW c \in u.manago, NEW d, Altered(u, c, d),
         NEW v, v = [u EXCEPT !.manago = (@ \ {c}) \cup {d}]
  PROVE  Sound(v) /\ Later(u, v)
<1> DEFINE f == [x \in u.manago |-> IF x = c THEN d ELSE x]
<1>1. /\ {"manago", "shopify", "executeOn"} \subseteq DOMAIN v
      /\ v.shopify = u.shopify /\ v.executeOn = u.executeOn
      /\ v.manago = (u.manago \ {c}) \cup {d}
  BY DEF Sound, ContactsAndCustomers
<1>2. \A x \in u.manago : Altered(u, x, f[x])
  BY AlteredSelf
<1>3. v.manago = {f[x] : x \in u.manago}
  BY <1>1
<1> HIDE DEF f
<1> QED BY <1>1, <1>2, <1>3, AlteredIsSound

(* What CI-01 creates is nobody that was there *)
Created(u, d) ==
  /\ ContactFields \subseteq DOMAIN d
  /\ d.id \in Nat \ {0} /\ (\A c \in u.manago : d.id # c.id)
  /\ Masked(d.email) /\ d.buys = 0 /\ d.events = 0 /\ ~d.stamp
  /\ "email" \in DOMAIN d.state /\ d.state["email"] = "none"

(* To create contacts like this keeps the platforms sound *)
LEMMA CreatedIsSound ==
  ASSUME NEW u, Sound(u), NEW N, \A d \in N : Created(u, d),
         \A d \in N, e \in N : d.id = e.id => d = e,
         NEW n \in Nat, \A d \in N : d.id <= n,
         NEW v, DOMAIN v = DOMAIN u, v.shopify = u.shopify, v.executeOn = u.executeOn,
         v.manago = u.manago \cup N
  PROVE  Sound(v) /\ Later(u, v)
<1>0. ContactsAndCustomers(u)
  BY DEF Sound
<1>1. Later(u, v)
  BY DEF Later, Grew, Created
<1>2. ContactsAndCustomers(v)
  <2>1. Rows(v.manago, ContactFields)
    BY <1>0 DEF ContactsAndCustomers, Rows, Created
  <2>2. \A x \in v.manago, y \in v.manago : x.id = y.id => x = y
    BY <1>0 DEF ContactsAndCustomers, Created
  <2>3. Last(v.manago)
    <3>1. PICK m \in {0} \cup {x.id : x \in u.manago} : \A x \in u.manago : x.id <= m
      BY <1>0 DEF ContactsAndCustomers, Last
    <3>2. m \in Nat /\ \A x \in u.manago : x.id \in Nat
      BY <3>1, <1>0 DEF ContactsAndCustomers, Rows
    <3>3. m + n \in Nat /\ \A x \in v.manago : x.id \in Nat /\ x.id <= m + n
      BY <3>1, <3>2 DEF Created
    <3> QED BY <3>3, LastBy
  <2>5. Bounded({c.buys : c \in v.manago})
    <3>1. {c.buys : c \in v.manago} \subseteq {c.buys : c \in u.manago} \cup {0}
      BY DEF Created
    <3> QED BY <3>1, <1>0, BoundedWithZero DEF ContactsAndCustomers
  <2>6. Bounded({c.events : c \in v.manago})
    <3>1. {c.events : c \in v.manago} \subseteq {c.events : c \in u.manago} \cup {0}
      BY DEF Created
    <3> QED BY <3>1, <1>0, BoundedWithZero DEF ContactsAndCustomers
  <2>7. \A c \in v.manago : c.email \in Nat /\ "email" \in DOMAIN c.state
    BY <1>0 DEF Created, ContactsAndCustomers, Masked
  <2> QED BY <2>1, <2>2, <2>3, <2>5, <2>6, <2>7, <1>0 DEF ContactsAndCustomers
<1>3. \A c : Stampable(u, c) => Stampable(v, c)
  BY DEF Stampable, Provable
<1>4. \A d \in v.manago : /\ Masked(d.email) => d.state["email"] # "in"
                          /\ d.stamp => Stampable(v, d)
  BY <1>3 DEF Sound, Created
<1> QED BY <1>1, <1>2, <1>4 DEF Sound

(* The upserts of CI-01 and CI-05 *)
LEMMA UpsertsOfLinks ==
  ASSUME NEW u, Sound(u), NEW intents, Links(u, intents), NEW c \in u.manago
  PROVE  Altered(u, c, Identity!Upsert(u.manago, intents, c))
<1> DEFINE given == {i \in intents : Identity!Takes(u.manago, i, c)}
<1>1. CASE given = {}
  BY <1>1, AlteredSelf DEF Identity!Upsert
<1>2. CASE given # {}
  <2>1. PICK i \in intents : Identity!Takes(u.manago, i, c)
    BY <1>2
  <2>2. \A j \in given : j = i
    BY <2>1 DEF Links, Identity!Takes
  <2>3. given = {i} /\ i.at \in Nat
    BY <2>1, <2>2 DEF Links
  <2>4. Identity!LastLink({i}) = i.link
    BY <2>3 DEF Identity!LastLink
  <2>5. Identity!Upsert(u.manago, intents, c) = [c EXCEPT !.link = i.link]
    BY <2>3, <2>4, <1>2 DEF Identity!Upsert
  <2> DEFINE d == [c EXCEPT !.link = i.link]
  <2>6. ContactFields \subseteq DOMAIN c /\ "email" \in DOMAIN c.state
    BY DEF Sound, ContactsAndCustomers, Rows
  <2>7. /\ DOMAIN d = DOMAIN c /\ d.id = c.id /\ d.email = c.email /\ d.buys = c.buys
        /\ d.events = c.events /\ d.proven = c.proven /\ d.state = c.state /\ d.stamp = c.stamp
        /\ d.link = i.link
    BY <2>6 DEF ContactFields
  <2>8. i.contact = c.id
    BY <2>1 DEF Links, Identity!Takes
  <2>9. Masked(c.email) \/ (Relinkable(u, c) /\ AddressLink(u, d))
    BY <2>7, <2>8 DEF Links, AddressLink
  <2> HIDE DEF d
  <2>10. Altered(u, c, d)
    BY <2>6, <2>7, <2>9 DEF Altered
  <2> QED BY <2>5, <2>10 DEF d
<1> QED BY <1>1, <1>2

(* CI-01 alters contacts with a mask only *)
LEMMA UpsertsOfCreates ==
  ASSUME NEW u, Sound(u), NEW intents, Creates(intents), NEW c \in u.manago
  PROVE  Altered(u, c, Identity!Upsert(u.manago, intents, c))
<1> DEFINE given == {i \in intents : Identity!Takes(u.manago, i, c)}
           d == [c EXCEPT !.link = Identity!LastLink(given)]
<1>1. CASE given = {}
  BY <1>1, AlteredSelf DEF Identity!Upsert
<1>2. CASE given # {}
  <2>1. Masked(c.email)
    BY <1>2 DEF Creates, Identity!Takes
  <2>2. Identity!Upsert(u.manago, intents, c) = d
    BY <1>2 DEF Identity!Upsert
  <2>3. ContactFields \subseteq DOMAIN c /\ "email" \in DOMAIN c.state
    BY DEF Sound, ContactsAndCustomers, Rows
  <2>4. /\ DOMAIN d = DOMAIN c /\ d.id = c.id /\ d.email = c.email /\ d.buys = c.buys
        /\ d.events = c.events /\ d.proven = c.proven /\ d.state = c.state /\ d.stamp = c.stamp
    BY <2>3 DEF ContactFields
  <2> HIDE DEF d
  <2>5. Altered(u, c, d)
    BY <2>1, <2>3, <2>4 DEF Altered
  <2> QED BY <2>2, <2>5
<1> QED BY <1>1, <1>2

(* An upsert of CI-01 or CI-05 keeps the platforms sound *)
LEMMA UpsertsAreSound ==
  ASSUME NEW u, Sound(u), NEW intents, Creates(intents) \/ Links(u, intents),
         NEW v, v = Identity!UpsertAll(u, intents)
  PROVE  Sound(v) /\ Later(u, v)
<1> DEFINE f == [c \in u.manago |-> Identity!Upsert(u.manago, intents, c)]
           N == Identity!Create(u.manago, intents)
           X == {f[c] : c \in u.manago}
           w == [u EXCEPT !.manago = X]
           top == Identity!Max({0} \cup {c.id : c \in u.manago})
           alike(i) == {j \in Identity!Unheld(u.manago, intents) : j.email = i.email}
           made(i) == Identity!NewContact(top + i.at, i.email, Identity!LastLink(alike(i)))
<1>0. ContactsAndCustomers(u) /\ {"manago", "shopify", "executeOn"} \subseteq DOMAIN u
  BY DEF Sound, ContactsAndCustomers
<1>1. Sound(w) /\ Later(u, w)
  <2>1. \A c \in u.manago : Altered(u, c, f[c])
    BY UpsertsOfLinks, UpsertsOfCreates
  <2>2. /\ {"manago", "shopify", "executeOn"} \subseteq DOMAIN w
        /\ w.shopify = u.shopify /\ w.executeOn = u.executeOn /\ w.manago = X
    BY <1>0
  <2> HIDE DEF f, w
  <2> QED BY <2>1, <2>2, AlteredIsSound
<1>2. /\ DOMAIN v = DOMAIN w /\ v.shopify = w.shopify /\ v.executeOn = w.executeOn
      /\ v.manago = w.manago \cup N
  <2>1. X = {Identity!Upsert(u.manago, intents, c) : c \in u.manago}
    OBVIOUS
  <2>2. v = [u EXCEPT !.manago = X \cup N]
    BY <2>1 DEF Identity!UpsertAll
  <2> HIDE DEF X, N
  <2> QED BY <2>2, <1>0
<1>3. top \in Nat /\ \A c \in u.manago : c.id <= top
  <2> DEFINE I == {0} \cup {c.id : c \in u.manago}
  <2>1. PICK n \in I : \A c \in u.manago : c.id <= n
    BY <1>0 DEF ContactsAndCustomers, Last
  <2>2. \A i \in I : i \in Nat /\ n >= i
    BY <2>1, <1>0 DEF ContactsAndCustomers, Rows
  <2>3. top \in I /\ \A i \in I : top >= i
    BY <2>1, <2>2 DEF Identity!Max
  <2>4. \A c \in u.manago : c.id \in I
    OBVIOUS
  <2> HIDE DEF I, top
  <2> QED BY <2>2, <2>3, <2>4
<1> HIDE DEF top
<1>4. CASE Links(u, intents)
  <2>1. N = {}
    BY <1>4 DEF Identity!Create, Identity!Unheld, Links
  <2>2. v.manago = w.manago
    BY <1>2, <2>1
  <2> HIDE DEF w, N
  <2>3. Sound(v) /\ Later(w, v)
    BY <1>1, <1>2, <2>2, UntouchedIsSound
  <2> QED BY <1>1, <2>3, LaterStill
<1>5. CASE Creates(intents)
  <2>1. ASSUME NEW d \in N
        PROVE  \E i \in intents : /\ d.id = top + i.at /\ i.at \in Nat \ {0}
                                  /\ Masked(i.email) /\ d = made(i)
    <3>1. PICK i \in Identity!Unheld(u.manago, intents) : d = made(i)
      BY DEF Identity!Create, top
    <3>2. i \in intents
      BY DEF Identity!Unheld
    <3>3. i.at \in Nat \ {0} /\ Masked(i.email)
      BY <3>2, <1>5 DEF Creates, Bounded
    <3>4. d.id = top + i.at
      BY <3>1 DEF Identity!NewContact
    <3> QED BY <3>1, <3>2, <3>3, <3>4
  <2>2. \A d \in N, e \in N : d.id = e.id => d = e
    <3> SUFFICES ASSUME NEW d \in N, NEW e \in N, d.id = e.id PROVE d = e
      OBVIOUS
    <3> HIDE DEF made, N
    <3>1. PICK i \in intents : d.id = top + i.at /\ i.at \in Nat \ {0} /\ d = made(i)
      BY <2>1
    <3>2. PICK k \in intents : e.id = top + k.at /\ k.at \in Nat \ {0} /\ e = made(k)
      BY <2>1
    <3>3. i.at = k.at
      <4>1. top + i.at = top + k.at
        BY <3>1, <3>2
      <4>2. i.at \in Nat /\ k.at \in Nat /\ top \in Nat
        BY <3>1, <3>2, <1>3
      <4> QED BY <4>1, <4>2
    <3>4. i = k
      BY <3>3, <1>5 DEF Creates
    <3> QED BY <3>1, <3>2, <3>4
  <2>3. \A x \in w.manago : \E c \in u.manago : x.id = c.id
    <3>1. w.manago = X
      BY <1>0
    <3>2. \A c \in u.manago : Altered(u, c, f[c])
      BY UpsertsOfLinks, UpsertsOfCreates
    <3> HIDE DEF f, w
    <3> QED BY <3>1, <3>2 DEF Altered
  <2>4. ASSUME NEW d \in N PROVE Created(w, d)
    <3>1. PICK i \in intents : /\ d.id = top + i.at /\ i.at \in Nat \ {0}
                               /\ Masked(i.email) /\ d = made(i)
      BY <2>1
    <3>3. /\ ContactFields \subseteq DOMAIN d /\ Masked(d.email) /\ d.buys = 0 /\ d.events = 0
          /\ ~d.stamp /\ "email" \in DOMAIN d.state /\ d.state["email"] = "none"
      BY <3>1 DEF Identity!NewContact, ContactFields
    <3>4. d.id \in Nat \ {0} /\ \A c \in u.manago : d.id # c.id /\ c.id \in Nat
      BY <3>1, <1>3, <1>0 DEF ContactsAndCustomers, Rows
    <3>5. \A c \in w.manago : d.id # c.id
      BY <3>4, <2>3
    <3> HIDE DEF w
    <3> QED BY <3>3, <3>4, <3>5 DEF Created
  <2>5. PICK n \in {0} \cup {i.at : i \in intents} : \A k \in {i.at : i \in intents} : k <= n
    BY <1>5 DEF Creates, Bounded
  <2>6. n \in Nat
    BY <2>5, <1>5 DEF Creates, Bounded
  <2>7. top + n \in Nat /\ \A d \in N : d.id <= top + n
    <3> HIDE DEF made, N
    <3>1. ASSUME NEW d \in N PROVE d.id <= top + n
      <4>1. PICK i \in intents : d.id = top + i.at /\ i.at \in Nat \ {0}
        BY <2>1
      <4>2. i.at <= n
        BY <2>5
      <4> QED BY <4>1, <4>2, <2>6, <1>3
    <3> QED BY <3>1, <2>6, <1>3
  <2> HIDE DEF w, N
  <2>8. Sound(v) /\ Later(w, v)
    BY <1>1, <1>2, <2>2, <2>4, <2>7, CreatedIsSound
  <2> QED BY <1>1, <2>8, LaterStill
<1> QED BY <1>4, <1>5

(* A stamp *)
LEMMA StampsAreSound ==
  ASSUME NEW u, Sound(u), NEW intents, Stamps(u, intents),
         NEW v, v = Consent!StampAll(u, intents)
  PROVE  Sound(v) /\ Later(u, v)
<1> DEFINE f == [c \in u.manago |-> IF \E i \in intents : i.contact = c.id
                                    THEN [c EXCEPT !.stamp = TRUE] ELSE c]
<1>1. /\ {"manago", "shopify", "executeOn"} \subseteq DOMAIN v
      /\ v.shopify = u.shopify /\ v.executeOn = u.executeOn
      /\ v.manago = {f[c] : c \in u.manago}
  <2>1. /\ DOMAIN v = DOMAIN u /\ v.shopify = u.shopify /\ v.executeOn = u.executeOn
        /\ v.manago = {IF \E i \in intents : i.contact = c.id
                       THEN [c EXCEPT !.stamp = TRUE] ELSE c : c \in u.manago}
    BY DEF Consent!StampAll, Sound, ContactsAndCustomers
  <2> QED BY <2>1 DEF Sound, ContactsAndCustomers
<1>2. ASSUME NEW c \in u.manago PROVE Altered(u, c, f[c])
  <2>1. CASE ~\E i \in intents : i.contact = c.id
    BY <2>1, AlteredSelf
  <2>2. CASE \E i \in intents : i.contact = c.id
    <3> DEFINE d == [c EXCEPT !.stamp = TRUE]
    <3>1. f[c] = d
      BY <2>2
    <3>2. ContactFields \subseteq DOMAIN c /\ "email" \in DOMAIN c.state
      BY DEF Sound, ContactsAndCustomers, Rows
    <3>3. /\ DOMAIN d = DOMAIN c /\ d.id = c.id /\ d.email = c.email /\ d.buys = c.buys
          /\ d.events = c.events /\ d.proven = c.proven /\ d.state = c.state /\ d.link = c.link
      BY <3>2 DEF ContactFields
    <3>4. Stampable(u, c)
      BY <2>2 DEF Stamps, Stampable, Sound, ContactsAndCustomers
    <3> HIDE DEF d, f
    <3>5. Altered(u, c, d)
      BY <3>2, <3>3, <3>4 DEF Altered
    <3> QED BY <3>1, <3>5
  <2> QED BY <2>1, <2>2
<1> HIDE DEF f
<1> QED BY <1>1, <1>2, AlteredIsSound

(* Details, tags and worth are nothing that a plan of contacts and consents reads *)
LEMMA DetailsAreSound ==
  ASSUME NEW u, Sound(u), NEW intents, NEW v, v = Segment!SetDetails(u, intents)
  PROVE  Sound(v) /\ Later(u, v)
<1> DEFINE f == [c \in u.manago |-> Segment!WithDetails(c, intents)]
<1>1. /\ {"manago", "shopify", "executeOn"} \subseteq DOMAIN v
      /\ v.shopify = u.shopify /\ v.executeOn = u.executeOn
      /\ v.manago = {f[c] : c \in u.manago}
  <2>1. /\ DOMAIN v = DOMAIN u /\ v.shopify = u.shopify /\ v.executeOn = u.executeOn
        /\ v.manago = {Segment!WithDetails(c, intents) : c \in u.manago}
    BY DEF Segment!SetDetails, Sound, ContactsAndCustomers
  <2> QED BY <2>1 DEF Sound, ContactsAndCustomers
<1>2. ASSUME NEW c \in u.manago PROVE Altered(u, c, f[c])
  <2>1. \E A, B : Segment!WithDetails(c, intents) = [c EXCEPT !.details = A, !.tags = B]
    BY DEF Segment!WithDetails
  <2>2. PICK A, B : f[c] = [c EXCEPT !.details = A, !.tags = B]
    BY <2>1
  <2> DEFINE d == [c EXCEPT !.details = A, !.tags = B]
  <2>3. ContactFields \subseteq DOMAIN c /\ "email" \in DOMAIN c.state
    BY DEF Sound, ContactsAndCustomers, Rows
  <2>4. /\ DOMAIN d = DOMAIN c /\ d.id = c.id /\ d.email = c.email /\ d.buys = c.buys
        /\ d.events = c.events /\ d.proven = c.proven /\ d.state = c.state /\ d.link = c.link
        /\ d.stamp = c.stamp
    BY <2>3 DEF ContactFields
  <2> HIDE DEF d
  <2>5. Altered(u, c, d)
    BY <2>3, <2>4 DEF Altered
  <2> QED BY <2>2, <2>5 DEF d
<1> HIDE DEF f
<1> QED BY <1>1, <1>2, AlteredIsSound

(* Nor is the worth *)
LEMMA WorthIsSound ==
  ASSUME NEW u, Sound(u), NEW intents, NEW v, v = Product!StampWorth(u, intents)
  PROVE  Sound(v) /\ Later(u, v)
<1> DEFINE f == [c \in u.manago |->
                   IF \E i \in intents : i.contact = c.id
                   THEN [c EXCEPT !.worth = (CHOOSE i \in intents : i.contact = c.id).net]
                   ELSE c]
<1>1. /\ {"manago", "shopify", "executeOn"} \subseteq DOMAIN v
      /\ v.shopify = u.shopify /\ v.executeOn = u.executeOn
      /\ v.manago = {f[c] : c \in u.manago}
  <2>1. /\ DOMAIN v = DOMAIN u /\ v.shopify = u.shopify /\ v.executeOn = u.executeOn
        /\ v.manago = {IF \E i \in intents : i.contact = c.id
                       THEN [c EXCEPT !.worth = (CHOOSE i \in intents : i.contact = c.id).net]
                       ELSE c : c \in u.manago}
    BY DEF Product!StampWorth, Sound, ContactsAndCustomers
  <2> QED BY <2>1 DEF Sound, ContactsAndCustomers
<1>2. ASSUME NEW c \in u.manago PROVE Altered(u, c, f[c])
  <2>2. PICK A : f[c] \in {c, [c EXCEPT !.worth = A]}
    OBVIOUS
  <2> DEFINE d == [c EXCEPT !.worth = A]
  <2>3. ContactFields \subseteq DOMAIN c /\ "email" \in DOMAIN c.state
    BY DEF Sound, ContactsAndCustomers, Rows
  <2>4. /\ DOMAIN d = DOMAIN c /\ d.id = c.id /\ d.email = c.email /\ d.buys = c.buys
        /\ d.events = c.events /\ d.proven = c.proven /\ d.state = c.state /\ d.link = c.link
        /\ d.stamp = c.stamp
    BY <2>3 DEF ContactFields
  <2> HIDE DEF d
  <2>5. Altered(u, c, d)
    BY <2>3, <2>4 DEF Altered
  <2>6. f[c] \in {c, d}
    BY <2>2 DEF d
  <2> HIDE DEF f
  <2> QED BY <2>5, <2>6, AlteredSelf
<1> HIDE DEF f
<1> QED BY <1>1, <1>2, AlteredIsSound

(* A write-back leaves the contacts sound *)
LEMMA WritesAreSound ==
  ASSUME Sound(live), RequestFits, NEW r \in request, r.check \in Executable,
         NEW by, NEW v, v = Applied(live, r.check, r.intents, by)
  PROVE  Sound(v) /\ Later(live, v)
<1>1. CASE r.check \in {"CI-01", "CI-05"}
  <2>1. v = Identity!UpsertAll(live, r.intents)
    BY <1>1 DEF Applied
  <2>2. Creates(r.intents) \/ Links(live, r.intents)
    BY <1>1 DEF RequestFits
  <2> QED BY <2>1, <2>2, UpsertsAreSound
<1>2. CASE r.check = "CC-03"
  <2>1. v = Consent!StampAll(live, r.intents)
    BY <1>2 DEF Applied
  <2> QED BY <1>2, <2>1, StampsAreSound DEF RequestFits
<1>3. CASE r.check \in {"SP-03", "SP-07"}
  <2>1. v = Segment!SetDetails(live, r.intents)
    BY <1>3 DEF Applied
  <2> QED BY <2>1, DetailsAreSound
<1>4. CASE r.check = "PT-04"
  <2>1. v = Product!StampWorth(live, r.intents)
    BY <1>4 DEF Applied
  <2> QED BY <2>1, WorthIsSound
<1>5. CASE r.check \in {"LE-01", "LE-05", "LE-02", "LE-09", "PT-03"}
  <2>1. (\E X : v = [live EXCEPT !.events = X]) \/ (\E X : v = [live EXCEPT !.catalog = X])
    <3>1. CASE r.check = "PT-03"
      BY <3>1 DEF Applied, Product!PublishAll
    <3>2. CASE r.check # "PT-03"
      <4>1. v = Lifecycle!TellAll(live, r.intents, by)
        BY <3>2, <1>5 DEF Applied
      <4> QED BY <4>1 DEF Lifecycle!TellAll
    <3> QED BY <3>1, <3>2
  <2>2. DOMAIN v = DOMAIN live /\ v.shopify = live.shopify /\ v.executeOn = live.executeOn
          /\ v.manago = live.manago
    BY <2>1 DEF Sound, ContactsAndCustomers
  <2> QED BY <2>2, UntouchedIsSound
<1> QED BY <1>1, <1>2, <1>3, <1>4, <1>5 DEF Executable

(* And so does the merchant *)
LEMMA EditsAreSound ==
  ASSUME Sound(live), MerchantChanges
  PROVE  Sound(live') /\ Later(live, live')
<1>0. \A c \in live.manago : /\ ContactFields \subseteq DOMAIN c /\ "email" \in DOMAIN c.state
                             /\ Altered(live, c, c)
  BY AlteredSelf DEF Sound, ContactsAndCustomers, Rows
<1>1. CASE \E c \in live.manago :
             live' = [live EXCEPT !.manago = (@ \ {c}) \cup
                       {[c EXCEPT !.state = [@ EXCEPT !["email"] = "out"]]}]
  <2>1. PICK c \in live.manago :
             live' = [live EXCEPT !.manago = (@ \ {c}) \cup
                       {[c EXCEPT !.state = [@ EXCEPT !["email"] = "out"]]}]
    BY <1>1
  <2> DEFINE d == [c EXCEPT !.state = [@ EXCEPT !["email"] = "out"]]
  <2>2. /\ DOMAIN d = DOMAIN c /\ d.id = c.id /\ d.email = c.email /\ d.buys = c.buys
        /\ d.events = c.events /\ d.proven = c.proven /\ d.link = c.link /\ d.stamp = c.stamp
        /\ "email" \in DOMAIN d.state /\ d.state["email"] = "out"
    BY <1>0 DEF ContactFields
  <2>3. live' = [live EXCEPT !.manago = (@ \ {c}) \cup {d}]
    BY <2>1
  <2> HIDE DEF d
  <2>4. Altered(live, c, d)
    BY <1>0, <2>2 DEF Altered
  <2> QED BY <2>3, <2>4, OneAlteredIsSound
<1>2. CASE \E c \in live.manago : \E s \in live.shopify :
             /\ c.link = 0 /\ Plain(s.email) = Plain(c.email)
             /\ live' = [live EXCEPT !.manago = (@ \ {c}) \cup {[c EXCEPT !.link = s.id]}]
  <2>1. PICK c \in live.manago, s \in live.shopify :
             /\ c.link = 0 /\ Plain(s.email) = Plain(c.email)
             /\ live' = [live EXCEPT !.manago = (@ \ {c}) \cup {[c EXCEPT !.link = s.id]}]
    BY <1>2
  <2> DEFINE d == [c EXCEPT !.link = s.id]
  <2>2. /\ DOMAIN d = DOMAIN c /\ d.id = c.id /\ d.email = c.email /\ d.buys = c.buys
        /\ d.events = c.events /\ d.proven = c.proven /\ d.link = s.id /\ d.stamp = c.stamp
        /\ d.state = c.state
    BY <1>0 DEF ContactFields
  <2>3. live' = [live EXCEPT !.manago = (@ \ {c}) \cup {d}]
    BY <2>1
  <2> HIDE DEF d
  <2>4. Relinkable(live, c) /\ AddressLink(live, d)
    BY <2>1, <2>2 DEF Relinkable, AddressLink
  <2>5. Altered(live, c, d)
    BY <1>0, <2>2, <2>4 DEF Altered
  <2> QED BY <2>3, <2>5, OneAlteredIsSound
<1>3. CASE \E c \in live.manago : \E A :
             live' = [live EXCEPT !.manago = (@ \ {c}) \cup {[c EXCEPT !.details = A]}]
  <2>1. PICK c \in live.manago :
             \E A : live' = [live EXCEPT !.manago = (@ \ {c}) \cup {[c EXCEPT !.details = A]}]
    BY <1>3
  <2>a. PICK A : live' = [live EXCEPT !.manago = (@ \ {c}) \cup {[c EXCEPT !.details = A]}]
    BY <2>1
  <2> DEFINE d == [c EXCEPT !.details = A]
  <2>2. /\ DOMAIN d = DOMAIN c /\ d.id = c.id /\ d.email = c.email /\ d.buys = c.buys
        /\ d.events = c.events /\ d.proven = c.proven /\ d.link = c.link /\ d.stamp = c.stamp
        /\ d.state = c.state
    BY <1>0 DEF ContactFields
  <2>3. live' = [live EXCEPT !.manago = (@ \ {c}) \cup {d}]
    BY <2>a
  <2> HIDE DEF d
  <2>4. Altered(live, c, d)
    BY <1>0, <2>2 DEF Altered
  <2> QED BY <2>3, <2>4, OneAlteredIsSound
<1>4. CASE (\E X : live' = [live EXCEPT !.sales = X]) \/ (\E X : live' = [live EXCEPT !.shelf = X])
  <2>1. /\ DOMAIN live' = DOMAIN live /\ live'.shopify = live.shopify
        /\ live'.executeOn = live.executeOn /\ live'.manago = live.manago
    BY <1>4 DEF Sound, ContactsAndCustomers
  <2> QED BY <2>1, UntouchedIsSound
<1> QED BY <1>1, <1>2, <1>3, <1>4 DEF MerchantChanges

(* What a request may do it may do later *)
LEMMA LinksStill ==
  ASSUME NEW u, NEW v, Later(u, v), NEW intents, Links(u, intents)
  PROVE  Links(v, intents)
<1>1. ASSUME NEW i \in intents, NEW d \in v.manago, d.id = i.contact, ~Masked(d.email)
      PROVE  /\ d.email # NoEmail /\ Relinkable(v, d)
             /\ \E s \in v.shopify : s.id = i.link /\ Plain(s.email) = Plain(d.email)
  <2>1. PICK c \in u.manago : Grew(u, c, d)
    BY <1>1 DEF Later
  <2>2. c.id = i.contact /\ c.email = d.email
    BY <2>1, <1>1 DEF Grew
  <2>3. /\ c.email # NoEmail /\ Relinkable(u, c)
        /\ \E s \in u.shopify : s.id = i.link /\ Plain(s.email) = Plain(c.email)
    BY <2>2, <1>1 DEF Links
  <2>4. v.shopify = u.shopify
    BY DEF Later
  <2>5. Relinkable(v, d)
    BY <2>1, <2>2, <2>3, <2>4 DEF Relinkable, AddressLink, Grew
  <2> QED BY <2>2, <2>3, <2>4, <2>5
<1> QED BY <1>1 DEF Links

(* A contact that may be stamped may be stamped later *)
LEMMA StampableStill ==
  ASSUME NEW u, Sound(u), NEW v, Later(u, v), NEW c \in u.manago, Stampable(u, c)
  PROVE  v.executeOn \/ \E d \in v.manago : d.id = c.id /\ Stampable(v, d)
<1>1. CASE u.executeOn
  BY <1>1 DEF Later
<1>2. CASE ~u.executeOn
  <2>1. ~Masked(c.email) /\ (c.email # NoEmail => Provable(u, c))
    BY <1>2 DEF Stampable
  <2>2. PICK d \in v.manago : d.id = c.id /\ d.email = c.email
    BY DEF Later
  <2>3. PICK x \in u.manago : Grew(u, x, d)
    BY <2>1, <2>2 DEF Later
  <2>4. x = c
    BY <2>2, <2>3 DEF Grew, Sound, ContactsAndCustomers
  <2>5. c.email # NoEmail => Provable(v, d)
    BY <2>1, <2>3, <2>4, ProvableLater DEF Sound, Later
  <2> QED BY <2>1, <2>2, <2>5 DEF Stampable
<1> QED BY <1>1, <1>2

(* And so may all that a request names *)
LEMMA StampsStill ==
  ASSUME NEW u, Sound(u), NEW v, Later(u, v), NEW intents, Stamps(u, intents)
  PROVE  Stamps(v, intents)
<1>1. CASE u.executeOn
  BY <1>1 DEF Later, Stamps
<1>2. CASE ~u.executeOn
  <2>1. ASSUME NEW i \in intents
        PROVE  v.executeOn \/ \E d \in v.manago : d.id = i.contact /\ Stampable(v, d)
    <3>1. PICK c \in u.manago : c.id = i.contact /\ Stampable(u, c)
      BY <1>2 DEF Stamps
    <3> QED BY <3>1, StampableStill
  <2> QED BY <2>1 DEF Stamps
<1> QED BY <1>1, <1>2

(* What CI-05 asks for is for the address of the contact *)
LEMMA LinksOfCI05 ==
  ASSUME Sound(pinned), Sound(live), Later(pinned, live), NEW e
  PROVE  Links(live, Identity!_ci05_evidence_rows(pinned, e))
<1> DEFINE listed == Identity!_ci05_evidence_rows(pinned, e)
<1>0. ContactsAndCustomers(pinned)
  BY DEF Sound
<1>1. /\ \A i \in listed : \E c \in pinned.manago, s \in pinned.shopify : Claims(pinned, i, c, s)
      /\ Identity!Distinct(pinned, listed)
  BY <1>0, ClaimsOfCI05
<1> HIDE DEF listed
<1>2. \A i \in listed : i.contact # 0 /\ i.at \in Nat
  <2>1. \A c \in pinned.manago : c.id # 0 /\ Plain(c.email) \in Nat
    BY <1>0, PlainAddress DEF ContactsAndCustomers, Rows
  <2> QED BY <1>1, <2>1 DEF Claims
<1>3. \A i \in listed, j \in listed : i.contact = j.contact => i = j
  BY <1>1 DEF Identity!Distinct
<1>4. ASSUME NEW i \in listed, NEW d \in live.manago, d.id = i.contact, ~Masked(d.email)
      PROVE  /\ d.email # NoEmail /\ Relinkable(live, d)
             /\ \E s \in live.shopify : s.id = i.link /\ Plain(s.email) = Plain(d.email)
  <2>1. PICK c \in pinned.manago, s \in pinned.shopify : Claims(pinned, i, c, s)
    BY <1>1
  <2>2. PICK x \in pinned.manago : Grew(pinned, x, d)
    BY <1>4 DEF Later
  <2>3. x = c
    BY <2>1, <2>2, <1>0, <1>4 DEF Grew, Claims, ContactsAndCustomers
  <2>4. live.shopify = pinned.shopify
    BY DEF Later
  <2>5. d.email = c.email /\ c.email # NoEmail /\ c.link = 0
    BY <2>1, <2>2, <2>3 DEF Grew, Claims
  <2>6. Relinkable(live, d)
    BY <2>2, <2>3, <2>4, <2>5 DEF Relinkable, AddressLink, Grew
  <2> QED BY <2>1, <2>4, <2>5, <2>6 DEF Claims
<1> QED BY <1>2, <1>3, <1>4 DEF Links, listed

(* CC-03 asks to stamp what Shopify can prove *)
LEMMA StampsOfCC03 ==
  ASSUME NEW u, Sound(u), Later(u, live),
         shown.evidence.consent \in {Consent!ConsentEvidence(u), Consent!NoConsentEvidence}
  PROVE  Stamps(live, Consent!CC03Intents(shown.evidence.consent, latest, live.executeOn))
<1> DEFINE listed == shown.evidence.consent.cc03
           intents == Consent!CC03Intents(shown.evidence.consent, latest, live.executeOn)
<1> SUFFICES ASSUME ~live.executeOn, NEW i \in intents
             PROVE  \E d \in live.manago : d.id = i.contact /\ Stampable(live, d)
  BY DEF Stamps
<1>1. PICK x \in listed : i.contact = x.contact
  <2> DEFINE taken == Consent!_cc03_evidence_rows(shown.evidence.consent, latest, live.executeOn)
  <2>1. taken \subseteq listed
    BY DEF Consent!_cc03_evidence_rows
  <2> HIDE DEF taken
  <2>2. \E x \in taken : i = [contact |-> x.contact, email |-> x.email]
    BY DEF Consent!CC03Intents, Consent!FirstFew, taken
  <2> QED BY <2>1, <2>2
<1>2. listed \subseteq Consent!MaskRows(Consent!StampRows(u))
  <2> DEFINE R == Consent!MaskRows(Consent!StampRows(u))
  <2>1. CASE shown.evidence.consent = Consent!ConsentEvidence(u)
    <3>1. listed = IF Consent!Listed(Consent!evaluate_cc_03(u), FALSE) THEN R ELSE {}
      BY <2>1 DEF Consent!ConsentEvidence
    <3> QED BY <3>1
  <2>2. CASE shown.evidence.consent = Consent!NoConsentEvidence
    BY <2>2 DEF Consent!NoConsentEvidence
  <2> QED BY <2>1, <2>2
<1>3. PICK r \in Consent!EvidencedByShopify(u) : i.contact = r.contact.id
  <2>1. PICK y \in Consent!StampRows(u) : x = [y EXCEPT !.email = Consent!Mask(y.email)]
    BY <1>1, <1>2 DEF Consent!MaskRows
  <2>2. PICK r \in Consent!EvidencedByShopify(u) :
          y = [contact |-> r.contact.id, email |-> Consent!Plain(r.contact.email)]
    BY DEF Consent!StampRows, Consent!FirstFew
  <2> QED BY <1>1, <2>1, <2>2
<1>4. PICK c \in u.manago : /\ Consent!CustomersOf(u, c) # {}
        /\ r = [contact |-> c, customer |-> Consent!Newest(Consent!CustomersOf(u, c))]
  BY DEF Consent!EvidencedByShopify, Consent!Linked
<1> DEFINE s == Consent!Newest(Consent!CustomersOf(u, c))
<1>5. r.contact = c /\ r.customer = s
  BY <1>4
<1>6. c.state["email"] = "in" /\ Consent!HoldsEvidence(r)
  BY <1>5 DEF Consent!EvidencedByShopify, Consent!Unproven, Consent!OptedIn
<1>7. ~Masked(c.email)
  BY <1>6 DEF Sound
<1>8. s \in u.shopify /\ ~s.guest /\ (s.id = c.link \/ SameAddress(c, s))
  BY <1>4, CustomerOfContact DEF Sound
<1> HIDE DEF s
<1>9. Consent!HoldsEvidence([contact |-> c, customer |-> s])
  BY <1>5, <1>6 DEF Consent!HoldsEvidence
<1>10. Stampable(u, c)
  BY <1>7, <1>8, <1>9 DEF Stampable, Provable
<1> QED BY <1>10, <1>3, <1>5, StampableStill

(* CI-01 asks for contacts with a masked address, each for a customer of its own *)
LEMMA MissingPerson ==
  ASSUME NEW u, ContactsAndCustomers(u), NEW p \in Identity!PersonRows(u),
         p.side = "shopify_only", p.email # NoEmail
  PROVE  /\ p.at \in Nat \ {0} /\ p.email = p.at
         /\ \E s \in u.shopify : p.at = Plain(s.email)
         /\ p.shopify = Identity!Earliest(Identity!WithAddress(u.shopify, p.at)).id
<1> DEFINE customer(e) == Identity!Earliest(Identity!WithAddress(u.shopify, e))
<1>1. PICK e \in Identity!Addresses(u.shopify) :
        p = Identity!Person(3, e, Identity!LinkKey(customer(e).id), "shopify_only", e, 0, customer(e).id)
  BY DEF Identity!PersonRows, Identity!Person, Identity!NoEmail, NoEmail
<1>2. p.at = e /\ p.email = e /\ p.shopify = customer(e).id
  BY <1>1 DEF Identity!Person
<1>3. PICK s \in u.shopify : e = Identity!Plain(s.email) /\ e # Identity!NoEmail
  BY DEF Identity!Addresses
<1>4. e = Plain(s.email) /\ e # 0
  BY <1>3 DEF Identity!Plain, Plain, Identity!NoEmail
<1>5. s.email \in Nat
  BY DEF ContactsAndCustomers, Bounded
<1>6. e \in Nat
  BY <1>4, <1>5, PlainAddress
<1> QED BY <1>2, <1>4, <1>6

(* So that its requests create each contact once *)
LEMMA CreatesOfCI01 ==
  ASSUME NEW u, Sound(u),
         shown.evidence.identity \in {Identity!IdentityEvidence(u), Identity!NoIdentityEvidence}
  PROVE  Creates(Identity!CI01Intents(shown.evidence.identity))
<1> DEFINE listed == shown.evidence.identity.ci01
           intents == Identity!CI01Intents(shown.evidence.identity)
           given(a) == [at |-> a, contact |-> 0, email |-> Mask(a),
                        link |-> Identity!Earliest(Identity!WithAddress(u.shopify, a)).id]
<1>0. ContactsAndCustomers(u)
  BY DEF Sound
<1>1. listed \subseteq Identity!_ci01_contact_mismatches(u)
  <2> DEFINE R == Identity!_ci01_contact_mismatches(u)
  <2>1. CASE shown.evidence.identity = Identity!IdentityEvidence(u)
    <3>1. listed = IF Identity!Listed(Identity!evaluate_ci_01(u), FALSE) THEN R ELSE {}
      BY <2>1 DEF Identity!IdentityEvidence
    <3> QED BY <3>1
  <2>2. CASE shown.evidence.identity = Identity!NoIdentityEvidence
    BY <2>2 DEF Identity!NoIdentityEvidence
  <2> QED BY <2>1, <2>2
<1>2. ASSUME NEW i \in intents
      PROVE  /\ i.at \in Nat \ {0} /\ i = given(i.at)
             /\ \E s \in u.shopify : i.at = Plain(s.email)
  <2>1. PICK q \in listed : /\ q.side = "shopify_only" /\ q.email # Identity!NoEmail
                          /\ i = [at |-> q.at, contact |-> 0, email |-> q.email, link |-> q.shopify]
    BY DEF Identity!CI01Intents, Identity!FirstFew
  <2>2. PICK p \in Identity!PersonRows(u) : q = [p EXCEPT !.email = Identity!Mask(p.email)]
    BY <2>1, <1>1 DEF Identity!_ci01_contact_mismatches, Identity!FirstFew, Identity!People
  <2>3. p = [class |-> p.class, at |-> p.at, key |-> p.key, side |-> p.side, email |-> p.email,
             manago |-> p.manago, shopify |-> p.shopify]
    BY DEF Identity!PersonRows, Identity!Person
  <2>4. /\ q.side = p.side /\ q.at = p.at /\ q.shopify = p.shopify
        /\ q.email = Identity!Mask(p.email)
    BY <2>2, <2>3
  <2>5. \A e : Identity!Mask(e) = Mask(e)
    BY DEF Identity!Mask, Mask, Identity!Masked, Masked, Identity!NoEmail, NoEmail
  <2>6. p.email # NoEmail
    BY <2>1, <2>4, <2>5 DEF Mask, Identity!NoEmail, NoEmail
  <2>7. /\ p.at \in Nat \ {0} /\ p.email = p.at
        /\ \E s \in u.shopify : p.at = Plain(s.email)
        /\ p.shopify = Identity!Earliest(Identity!WithAddress(u.shopify, p.at)).id
    BY <1>0, <2>1, <2>4, <2>6, MissingPerson
  <2>8. i.at = p.at
    BY <2>1, <2>4
  <2>9. i = given(p.at)
    BY <2>1, <2>4, <2>5, <2>7
  <2> HIDE DEF given
  <2> QED BY <2>7, <2>8, <2>9
<1> HIDE DEF intents
<1>3. \A i \in intents : i.contact = 0 /\ Masked(i.email) /\ i.at # 0
  <2>1. \A a \in Nat \ {0} : Masked(Mask(a))
    BY PlainAddress DEF NoEmail
  <2> QED BY <1>2, <2>1
<1>4. \A i \in intents, j \in intents : i.at = j.at => i = j
  <2> HIDE DEF given
  <2> QED BY <1>2
<1>5. Bounded({i.at : i \in intents})
  <2>1. PICK n \in {0} \cup {s.email : s \in u.shopify} : \A s \in u.shopify : s.email <= n
    BY <1>0 DEF ContactsAndCustomers, Bounded
  <2>2. n \in Nat /\ \A s \in u.shopify : s.email \in Nat
    BY <2>1, <1>0 DEF ContactsAndCustomers, Bounded
  <2>3. \A s \in u.shopify : Plain(s.email) \in Nat /\ Plain(s.email) <= n
    <3> SUFFICES ASSUME NEW s \in u.shopify
                 PROVE  Plain(s.email) \in Nat /\ Plain(s.email) <= n
      OBVIOUS
    <3>1. Plain(s.email) \in Nat /\ Plain(s.email) <= s.email
      BY <2>2, PlainAddress
    <3> QED BY <3>1, <2>1, <2>2
  <2>4. \A k \in {i.at : i \in intents} : k \in Nat /\ k <= n
    BY <1>2, <2>3
  <2> QED BY <2>2, <2>4, BoundedBy
<1> QED BY <1>3, <1>4, <1>5 DEF Creates, intents

(* While the runs stand still, what keeps the contacts sound keeps all of it *)
LEMMA LiveMoves ==
  ASSUME PlansInv, Sound(live'), Later(live, live'),
         UNCHANGED <<latest, pinned, previous, shown, scoring>>, request' \subseteq request
  PROVE  PlansInv'
<1>1. Later(latest, live')
  BY LaterStill DEF PlansInv
<1>2. RequestFits'
  <2>1. Sound(live) /\ RequestFits
    BY DEF PlansInv
  <2>2. ASSUME NEW r \in request
        PROVE  /\ r.check = "CI-01" => Creates(r.intents)
               /\ r.check = "CI-05" => Links(live', r.intents)
               /\ r.check = "CC-03" => Stamps(live', r.intents)
    BY <2>1, LinksStill, StampsStill DEF RequestFits
  <2> QED BY <2>2 DEF RequestFits
<1>3. EvidenceIsJudged'
  BY DEF PlansInv, EvidenceIsJudged
<1> QED BY <1>1, <1>2, <1>3 DEF PlansInv

(* The first published run: nothing is fixed, and the evidence is of what was imported *)
LEMMA PlansInit == FixInit => PlansInv
<1> SUFFICES ASSUME FixInit PROVE PlansInv
  OBVIOUS
<1>1. /\ latest = live /\ pinned = live /\ previous = {} /\ shown = Judge(live)
      /\ scoring = {} /\ request = {}
  BY DEF FixInit
<1>2. Sound(live)
  BY WorldsAssumption DEF FixInit, Sound, Unfixed
<1>3. EvidenceIsJudged /\ shown.import = {live}
  <2>1. /\ shown.evidence.identity = Identity!IdentityEvidence(live)
        /\ shown.evidence.consent = Consent!ConsentEvidence(live)
        /\ shown.import = {live}
    BY <1>1 DEF Judge
  <2> QED BY <2>1 DEF EvidenceIsJudged
<1>4. RequestFits
  BY <1>1 DEF RequestFits
<1> QED BY <1>1, <1>2, <1>3, <1>4, LaterSelf DEF PlansInv

(* Runs: an import is the platforms as they are, what it becomes is the newest, and a *)
(* run that fails gives back what was pinned before                                  *)
LEMMA PlansRuns ==
  ASSUME HasEvidence, PlansInv, Import \/ PublishScore \/ ScoreFails \/ FailsAfterCommit
  PROVE  PlansInv'
<1> DEFINE Ground == {pinned} \cup previous \cup shown.import
<1>1. UNCHANGED <<live, request>>
  BY DEF Import, PublishScore, ScoreFails, FailsAfterCommit
<1>2. RequestFits'
  BY <1>1 DEF PlansInv, RequestFits
<1>3. CASE Import
  <2>1. /\ latest' = live /\ scoring' = {live} /\ UNCHANGED <<live, pinned, previous, shown>>
    BY <1>3 DEF Import
  <2>2. Later(live, live) /\ \A u \in Ground : Later(u, live)
    BY LaterStill, LaterSelf DEF PlansInv
  <2>3. EvidenceIsJudged'
    BY <2>1 DEF PlansInv, EvidenceIsJudged
  <2> QED BY <2>1, <2>2, <2>3, <1>2 DEF PlansInv
<1>4. CASE PublishScore
  <2>1. PICK u \in scoring : pinned' = u /\ previous' = {pinned} /\ shown' = Judge(u)
    BY <1>4 DEF PublishScore
  <2>2. scoring' = {} /\ UNCHANGED <<live, latest>>
    BY <1>4 DEF PublishScore
  <2>3. u = latest /\ Later(latest, latest)
    BY <2>1, LaterSelf DEF PlansInv
  <2>4. EvidenceIsJudged' /\ shown'.import = {u}
    <3>1. /\ shown'.evidence.identity = Identity!IdentityEvidence(u)
          /\ shown'.evidence.consent = Consent!ConsentEvidence(u)
          /\ shown'.import = {u}
      BY <2>1 DEF Judge
    <3> QED BY <3>1 DEF EvidenceIsJudged
  <2> QED BY <2>1, <2>2, <2>3, <2>4, <1>2 DEF PlansInv
<1>5. CASE ScoreFails
  <2>1. shown' = Nothing /\ scoring' = {} /\ UNCHANGED <<live, latest, pinned, previous>>
    BY <1>5 DEF ScoreFails
  <2>2. EvidenceIsJudged' /\ shown'.import = {}
    <3>1. /\ shown'.evidence.identity = Identity!NoIdentityEvidence
          /\ shown'.evidence.consent = Consent!NoConsentEvidence
          /\ shown'.import = {}
      BY <2>1 DEF Nothing
    <3> QED BY <3>1 DEF EvidenceIsJudged
  <2> QED BY <2>1, <2>2, <1>2 DEF PlansInv
<1>6. CASE FailsAfterCommit
  <2>1. PICK u \in previous : pinned' = u
    BY <1>6 DEF FailsAfterCommit
  <2>2. /\ previous' = {} /\ shown' = [shown EXCEPT !.failed = TRUE]
        /\ UNCHANGED <<live, latest, scoring>>
    BY <1>6 DEF FailsAfterCommit
  <2>3. shown'.evidence = shown.evidence /\ shown'.import = shown.import
    BY <2>2 DEF HasEvidence
  <2>4. EvidenceIsJudged'
    BY <2>3 DEF PlansInv, EvidenceIsJudged
  <2> QED BY <2>1, <2>2, <2>3, <2>4, <1>2 DEF PlansInv
<1> QED BY <1>3, <1>4, <1>5, <1>6

(* A request is built of the evidence and the universe of the last score, and fits   *)
(* what the platforms have become                                                   *)
LEMMA PlansBuildIntents ==
  ASSUME PlansInv, NEW check \in Executable, BuildIntents(check)
  PROVE  PlansInv'
<1>1. UNCHANGED <<live, latest, pinned, previous, shown, scoring>>
  BY DEF BuildIntents
<1>2. PICK judged, proof :
        request' = {[check |-> check, intents |-> collect_evidence_rows(check),
                     judged |-> judged, proof |-> proof]}
  BY DEF BuildIntents
<1>3. /\ Sound(live) /\ EvidenceIsJudged
      /\ \A u \in {pinned} \cup shown.import : Sound(u) /\ Later(u, live)
  BY LaterStill DEF PlansInv
<1>4. CASE check = "CI-01"
  <2>1. collect_evidence_rows(check) = Identity!CI01Intents(shown.evidence.identity)
    BY <1>4 DEF collect_evidence_rows, Identity!IdentityIntents
  <2>2. PICK u \in {pinned} \cup shown.import :
          shown.evidence.identity \in {Identity!IdentityEvidence(u), Identity!NoIdentityEvidence}
    BY <1>3 DEF EvidenceIsJudged
  <2>3. Creates(collect_evidence_rows(check))
    BY <2>1, <2>2, <1>3, CreatesOfCI01
  <2> QED BY <2>3, <1>1, <1>2, <1>4 DEF PlansInv, RequestFits, EvidenceIsJudged
<1>5. CASE check = "CI-05"
  <2>1. collect_evidence_rows(check) = Identity!_ci05_evidence_rows(pinned, shown.evidence.identity)
    BY <1>5 DEF collect_evidence_rows, Identity!IdentityIntents
  <2>2. Links(live, collect_evidence_rows(check))
    BY <2>1, <1>3, LinksOfCI05
  <2> QED BY <2>2, <1>1, <1>2, <1>5 DEF PlansInv, RequestFits, EvidenceIsJudged
<1>6. CASE check = "CC-03"
  <2>1. collect_evidence_rows(check)
          = Consent!CC03Intents(shown.evidence.consent, latest, live.executeOn)
    BY <1>6 DEF collect_evidence_rows
  <2>2. PICK u \in {pinned} \cup shown.import :
          shown.evidence.consent \in {Consent!ConsentEvidence(u), Consent!NoConsentEvidence}
    BY <1>3 DEF EvidenceIsJudged
  <2>3. Stamps(live, collect_evidence_rows(check))
    BY <2>1, <2>2, <1>3, StampsOfCC03
  <2> QED BY <2>3, <1>1, <1>2, <1>6 DEF PlansInv, RequestFits, EvidenceIsJudged
<1>7. CASE check \notin {"CI-01", "CI-05", "CC-03"}
  BY <1>1, <1>2, <1>7 DEF PlansInv, RequestFits, EvidenceIsJudged
<1> QED BY <1>4, <1>5, <1>6, <1>7

(* A write-back keeps the plans sound *)
LEMMA PlansWriteIntents ==
  ASSUME PlansInv, MadeInOrder, WriteIntents
  PROVE  PlansInv'
<1>0. PICK r \in request : \E by : live' = Applied(live, r.check, r.intents, by)
  BY DEF WriteIntents
<1>1. PICK by : live' = Applied(live, r.check, r.intents, by)
  BY <1>0
<1>2. request' = {} /\ UNCHANGED <<latest, pinned, previous, shown, scoring>>
  BY DEF WriteIntents
<1>3. r.check \in Executable
  BY DEF MadeInOrder
<1>4. Sound(live') /\ Later(live, live')
  BY <1>1, <1>3, WritesAreSound DEF PlansInv
<1> QED BY <1>2, <1>4, LiveMoves

(* Every step does *)
LEMMA PlansStep == ToldInv /\ PlansInv /\ [FixNext]_fixVars => PlansInv'
<1> SUFFICES ASSUME ToldInv, PlansInv, [FixNext]_fixVars PROVE PlansInv'
  OBVIOUS
<1>1. CASE Import \/ PublishScore \/ ScoreFails \/ FailsAfterCommit
  BY <1>1, PlansRuns DEF ToldInv
<1>2. CASE \E check \in Executable : BuildIntents(check)
  BY <1>2, PlansBuildIntents
<1>3. CASE WriteIntents
  BY <1>3, PlansWriteIntents DEF ToldInv
<1>4. CASE AlreadyExecuted \/ UNCHANGED fixVars
  <2>1. UNCHANGED <<live, latest, pinned, previous, shown, scoring>> /\ request' \subseteq request
    BY <1>4 DEF AlreadyExecuted, fixVars
  <2>2. Sound(live') /\ Later(live, live')
    BY <2>1, LaterSelf DEF PlansInv
  <2> QED BY <2>1, <2>2, LiveMoves
<1>5. CASE Edit
  <2>1. MerchantChanges /\ UNCHANGED <<latest, pinned, previous, shown, scoring, request>>
    BY <1>5 DEF Edit
  <2>2. Sound(live') /\ Later(live, live')
    BY <2>1, EditsAreSound DEF PlansInv
  <2> QED BY <2>1, <2>2, LiveMoves
<1> QED BY <1>1, <1>2, <1>3, <1>4, <1>5 DEF FixNext

(* And sound platforms have sound plans *)
LEMMA PlansInvIsSound == PlansInv => PlansAreSound
<1> SUFFICES ASSUME PlansInv PROVE PlansAreSound
  OBVIOUS
<1>1. ContactsAndCustomers(pinned)
  BY DEF PlansInv, Sound
<1>2. KeysDistinct
  BY <1>1, ClaimsOfCI05 DEF KeysDistinct
<1>3. MergesDisjoint
  BY <1>1, MergesAreDisjoint
<1>4. OptInsProvable
  BY ProposalsProvable DEF PlansInv
<1> QED BY <1>2, <1>3, <1>4 DEF PlansAreSound

(* Whatever scores, imports, write-backs and edits of the merchant come between: the  *)
(* link keys that CI-05 would give are apart and free, no contact is merged twice,    *)
(* and where writing is not allowed no opt-in is proposed that neither platform can    *)
(* prove for the address (PlansAreSound of FixCycle).                                  *)
THEOREM PlansAreSoundHolds == FixSpec => []PlansAreSound
<1>1. FixInit => ToldInv /\ PlansInv
  BY ToldInit, PlansInit
<1>2. ToldInv /\ PlansInv /\ [FixNext]_fixVars => ToldInv' /\ PlansInv'
  BY ToldStep, PlansStep
<1>3. PlansInv => PlansAreSound
  BY PlansInvIsSound
<1> QED BY <1>1, <1>2, <1>3, PTL DEF FixSpec
==================================================================================
