----------------------------- MODULE ArchitectureProofs -----------------------------
(* Proofs about ArchitectureAssessments and ArchitectureEstates, for any number of    *)
(* assessments, runs, callers and workers, and any estates.                          *)
EXTENDS ArchitectureEstates, FiniteSetTheorems, SequenceTheorems, WellFoundedInduction, TLAPS

LEMMA Types ==
  ASSUME IInv
  PROVE  /\ jobs \in [Jobs -> JobType] /\ scored \in 0 .. MaxScores
         /\ queue \in [Jobs -> {"none", "queued", "delivered"}]
         /\ caller \in [Callers -> CallerType] /\ worker \in [Workers -> WorkerType]
         /\ faults \in [lost : 0 .. MaxLost, killed : 0 .. MaxKilled]
  BY DEF IInv, TypeOK

LEMMA AwayType == Away \in CallerType /\ Away.pc = "idle"
  BY DEF Away, CallerType, Sources

LEMMA FreeType == Free \in WorkerType /\ Free.pc = "idle"
  BY DEF Free, WorkerType, Sources

LEMMA InitInv == ASSUME Init PROVE IInv
<1>1. NoJob \in JobType /\ NoJob.status = "absent"
  BY DEF NoJob, JobType, Sources, Status
<1>2. TypeOK
  BY <1>1, AwayType, FreeType, ArchitectureAssumption DEF Init, TypeOK
<1>3. /\ \A a \in Jobs : jobs[a] = NoJob /\ queue[a] = "none"
      /\ \A c \in Callers : caller[c].pc = "idle"
      /\ \A w \in Workers : worker[w].pc = "idle"
  BY AwayType, FreeType DEF Init
<1> QED
  BY <1>1, <1>2, <1>3 DEF IInv, LocalsBound, SentOnce, HoldsMessage, SucceededWhole

---------------------------------------------------------------------------------
(* A caller that goes on and writes nothing                                         *)
LEMMA CallerStep ==
  ASSUME IInv, NEW c \in Callers, NEW rec \in CallerType,
         caller' = [caller EXCEPT ![c] = rec],
         rec.pc # "send", rec.pc \in {"refresh", "label"} => rec.job \in Jobs,
         UNCHANGED <<jobs, queue, worker>>, scored' \in 0 .. MaxScores,
         faults' \in [lost : 0 .. MaxLost, killed : 0 .. MaxKilled]
  PROVE  IInv'
<1>1. TypeOK'
  BY Types DEF TypeOK
<1>2. caller'[c] = rec /\ \A d \in Callers : d # c => caller'[d] = caller[d]
  BY Types
<1>3. LocalsBound'
  BY <1>2 DEF IInv, LocalsBound
<1>4. SentOnce'
  BY <1>2 DEF IInv, SentOnce
<1> QED
  BY <1>1, <1>3, <1>4 DEF IInv, HoldsMessage, SucceededWhole

LEMMA AskStep ==
  ASSUME IInv, NEW c \in Callers,
         ScoreSucceeds(c) \/ \E source \in Sources : AdminPosts(c, source)
  PROVE  IInv'
<1>1. PICK source \in Sources :
        /\ caller' = [caller EXCEPT ![c] = [Away EXCEPT !.pc = "find", !.source = source]]
        /\ UNCHANGED <<jobs, queue, worker, faults>> /\ scored' \in 0 .. MaxScores
  <2>1. CASE ScoreSucceeds(c)
    <3>1. scored + 1 \in Sources /\ scored + 1 \in 0 .. MaxScores
      BY <2>1, Types, ArchitectureAssumption DEF ScoreSucceeds, Sources
    <3> QED
      BY <2>1, <3>1 DEF ScoreSucceeds
  <2>2. CASE \E source \in Sources : AdminPosts(c, source)
    BY <2>2, Types DEF AdminPosts
  <2> QED
    BY <2>1, <2>2
<1> DEFINE rec == [Away EXCEPT !.pc = "find", !.source = source]
<1>2. rec \in CallerType /\ rec.pc = "find"
  BY AwayType DEF CallerType
<1>3. caller' = [caller EXCEPT ![c] = rec]
  BY <1>1
<1> HIDE DEF rec
<1> QED
  BY <1>1, <1>2, <1>3, CallerStep, Types

LEMMA ReturnStep ==
  ASSUME IInv, NEW c \in Callers, Skip(c) \/ CallerDies(c)
  PROVE  IInv'
<1>1. faults' \in [lost : 0 .. MaxLost, killed : 0 .. MaxKilled]
  BY Types, ArchitectureAssumption DEF Skip, CallerDies, Killed
<1> QED
  BY <1>1, AwayType, CallerStep, Types DEF Skip, CallerDies, Return

LEMMA FindStep ==
  ASSUME IInv, NEW c \in Callers, FindNone(c) \/ FindActive(c)
  PROVE  IInv'
<1>1. caller[c] \in CallerType /\ UNCHANGED <<jobs, scored, queue, worker, faults>>
  BY Types DEF FindNone, FindActive
<1>2. PICK rec \in CallerType :
        /\ caller' = [caller EXCEPT ![c] = rec]
        /\ rec.pc # "send"
        /\ rec.pc \in {"refresh", "label"} => rec.job \in Jobs
  <2>1. CASE FindNone(c)
    <3> DEFINE rec == [caller[c] EXCEPT !.pc = "create"]
    <3>1. rec \in CallerType /\ rec.pc = "create"
      BY <1>1 DEF CallerType
    <3>2. caller' = [caller EXCEPT ![c] = rec]
      BY <2>1, Types DEF FindNone
    <3> HIDE DEF rec
    <3> QED
      BY <3>1, <3>2
  <2>2. CASE FindActive(c)
    <3>0. PICK a \in Jobs :
            \/ Return(c)
            \/ caller' = [caller EXCEPT ![c].pc = "refresh", ![c].job = a,
                                        ![c].runResult = jobs[a].runResult]
      BY <2>2, Zenon DEF FindActive
    <3>1. \/ caller' = [caller EXCEPT ![c] = Away]
          \/ caller' = [caller EXCEPT ![c] =
               [caller[c] EXCEPT !.pc = "refresh", !.job = a, !.runResult = jobs[a].runResult]]
      <4>1. caller \in [Callers -> CallerType] BY Types
      <4> QED BY <3>0, <4>1 DEF Return
    <3> DEFINE rec == [caller[c] EXCEPT !.pc = "refresh", !.job = a, !.runResult = jobs[a].runResult]
    <3>2. jobs[a].runResult \in BOOLEAN
      BY Types DEF JobType
    <3>3. rec \in CallerType /\ rec.pc = "refresh" /\ rec.job = a
      BY <1>1, <3>2 DEF CallerType
    <3> HIDE DEF rec
    <3> QED
      BY <3>1, <3>3, AwayType DEF rec
  <2> QED
    BY <2>1, <2>2
<1> QED
  BY <1>1, <1>2, CallerStep, Types

---------------------------------------------------------------------------------
(* A caller that writes to an assessment which stays as active as it is             *)
LEMMA RelabelStep ==
  ASSUME IInv, NEW c \in Callers, Refresh(c) \/ Label(c)
  PROVE  IInv'
<1> DEFINE a == caller[c].job
<1>1. a \in Jobs /\ caller[c] \in CallerType
  BY Types DEF IInv, LocalsBound, Refresh, Label
<1>2. UNCHANGED <<scored, queue, worker, faults>>
  BY DEF Refresh, Label
<1>3. PICK job \in JobType :
        /\ jobs' = [jobs EXCEPT ![a] = job]
        /\ job.status = jobs[a].status /\ job.result = jobs[a].result /\ job.run = jobs[a].run
  <2>1. jobs[a] \in JobType /\ caller[c].source \in Sources /\ caller[c].runResult \in BOOLEAN
    BY <1>1, Types DEF CallerType
  <2> DEFINE refreshed == [jobs[a] EXCEPT !.source = caller[c].source]
             labelled == [jobs[a] EXCEPT !.runSource = caller[c].source, !.runResult = caller[c].runResult]
  <2>2. /\ refreshed \in JobType /\ refreshed.status = jobs[a].status
        /\ refreshed.result = jobs[a].result /\ refreshed.run = jobs[a].run
    BY <2>1 DEF JobType
  <2>3. /\ labelled \in JobType /\ labelled.status = jobs[a].status
        /\ labelled.result = jobs[a].result /\ labelled.run = jobs[a].run
    BY <2>1 DEF JobType
  <2>4. jobs' = [jobs EXCEPT ![a] = refreshed] \/ jobs' = [jobs EXCEPT ![a] = labelled]
    BY <1>1, Types DEF Refresh, Label
  <2> HIDE DEF refreshed, labelled, a
  <2> QED
    BY <2>2, <2>3, <2>4
<1>4. PICK rec \in CallerType :
        /\ caller' = [caller EXCEPT ![c] = rec]
        /\ rec.pc # "send"
        /\ rec.pc \in {"refresh", "label"} => rec.job \in Jobs
  <2> DEFINE rec == [caller[c] EXCEPT !.pc = "label"]
  <2>1. rec \in CallerType /\ rec.pc = "label" /\ rec.job = a
    BY <1>1 DEF CallerType
  <2>2. caller' = [caller EXCEPT ![c] = rec] \/ caller' = [caller EXCEPT ![c] = Away]
    BY Types DEF Refresh, Label, Return
  <2> HIDE DEF rec, a
  <2> QED
    BY <1>1, <2>1, <2>2, AwayType
<1> HIDE DEF a
<1>5. /\ \A b \in Jobs : /\ jobs'[b].status = jobs[b].status /\ jobs'[b].result = jobs[b].result
                         /\ jobs'[b].run = jobs[b].run
      /\ jobs' \in [Jobs -> JobType]
  BY <1>1, <1>3, Types
<1>6. caller'[c] = rec /\ \A d \in Callers : d # c => caller'[d] = caller[d]
  BY <1>4, Types
<1>7. TypeOK'
  BY <1>2, <1>4, <1>5, Types DEF TypeOK
<1>8. LocalsBound'
  BY <1>2, <1>4, <1>6 DEF IInv, LocalsBound
<1>9. SentOnce'
  <2>1. \A d \in Callers : caller'[d].pc = "send" =>
          d # c /\ caller'[d] = caller[d] /\ caller[d].job \in Jobs
    BY <1>4, <1>6 DEF IInv, LocalsBound
  <2> QED
    BY <1>2, <1>5, <2>1 DEF IInv, SentOnce
<1>10. HoldsMessage'
  BY <1>2, <1>5 DEF IInv, HoldsMessage, LocalsBound
<1>11. SucceededWhole'
  BY <1>5 DEF IInv, SucceededWhole
<1> QED
  BY <1>7, <1>8, <1>9, <1>10, <1>11 DEF IInv

LEMMA CreateStep ==
  ASSUME IInv, NEW c \in Callers, Create(c)
  PROVE  IInv'
<1>1. /\ caller[c] \in CallerType /\ caller[c].source \in Sources
      /\ UNCHANGED <<scored, queue, worker, faults>>
  BY Types DEF Create, CallerType
<1> DEFINE job == [NoJob EXCEPT !.status = "pending", !.source = caller[c].source,
                                !.run = "pending", !.runSource = caller[c].source]
<1>2. PICK a \in Jobs :
        /\ jobs[a].status = "absent" /\ jobs' = [jobs EXCEPT ![a] = job]
        /\ caller' = [caller EXCEPT ![c] = [caller[c] EXCEPT !.pc = "send", !.job = a]]
  BY ZenonT(60), Types DEF Create
<1> DEFINE rec == [caller[c] EXCEPT !.pc = "send", !.job = a]
<1>3. rec \in CallerType /\ rec.pc = "send" /\ rec.job = a
  BY <1>1 DEF CallerType
<1>4. job \in JobType /\ job.status = "pending"
  BY <1>1 DEF NoJob, JobType, Status, Sources
<1>5. caller' = [caller EXCEPT ![c] = rec]
  BY <1>2
<1> HIDE DEF rec, job
<1>6. /\ jobs' \in [Jobs -> JobType] /\ jobs'[a] = job
      /\ \A b \in Jobs : b # a => jobs'[b] = jobs[b]
  BY <1>2, <1>4, Types
<1>7. /\ caller' \in [Callers -> CallerType] /\ caller'[c] = rec
      /\ \A d \in Callers : d # c => caller'[d] = caller[d]
  BY <1>3, <1>5, Types
<1>8. TypeOK'
  BY <1>1, <1>6, <1>7, Types DEF TypeOK
<1>9. LocalsBound'
  BY <1>1, <1>3, <1>7 DEF IInv, LocalsBound
<1>10. queue[a] = "none" /\ \A d \in Callers : caller[d].pc = "send" =>
         caller[d].job # a /\ caller[d].job \in Jobs
  BY <1>2 DEF IInv, SentOnce, LocalsBound
<1>11. SentOnce'
  BY <1>1, <1>3, <1>4, <1>6, <1>7, <1>10 DEF IInv, SentOnce
<1>12. \A w \in Workers : worker[w].pc # "idle" => worker[w].job # a /\ worker[w].job \in Jobs
  BY <1>10 DEF IInv, HoldsMessage, LocalsBound
<1>13. HoldsMessage'
  BY <1>1, <1>6, <1>12 DEF IInv, HoldsMessage
<1>14. SucceededWhole'
  BY <1>4, <1>6 DEF IInv, SucceededWhole
<1> QED
  BY <1>8, <1>9, <1>11, <1>13, <1>14 DEF IInv

LEMMA SendStep ==
  ASSUME IInv, NEW c \in Callers, Send(c) \/ SendFails(c)
  PROVE  IInv'
<1> DEFINE a == caller[c].job
<1>1. /\ a \in Jobs /\ caller[c].pc = "send" /\ queue[a] = "none" /\ jobs[a].status # "absent"
      /\ \A d \in Callers \ {c} : caller[d].pc = "send" => caller[d].job # a /\ caller[d].job \in Jobs
  BY DEF IInv, LocalsBound, SentOnce, Send, SendFails
<1>2. \A w \in Workers : worker[w].pc # "idle" => worker[w].job # a /\ worker[w].job \in Jobs
  BY <1>1 DEF IInv, HoldsMessage, LocalsBound
<1>3. UNCHANGED <<scored, worker, faults>> /\ caller' = [caller EXCEPT ![c] = Away]
  BY DEF Send, SendFails, Return
<1> DEFINE job == [jobs[a] EXCEPT !.status = "failed"]
<1>4. jobs[a] \in JobType /\ job \in JobType /\ job.status = "failed"
  BY <1>1, Types DEF JobType, Status
<1>5. /\ jobs' = jobs \/ jobs' = [jobs EXCEPT ![a] = job]
      /\ queue' = queue \/ queue' = [queue EXCEPT ![a] = "queued"]
  BY <1>1, Types DEF Send, SendFails
<1> HIDE DEF a, job
<1>6. /\ jobs' \in [Jobs -> JobType] /\ queue' \in [Jobs -> {"none", "queued", "delivered"}]
      /\ \A b \in Jobs : b # a => jobs'[b] = jobs[b] /\ queue'[b] = queue[b]
      /\ jobs'[a] = jobs[a] \/ jobs'[a] = job
  BY <1>1, <1>4, <1>5, Types
<1>7. /\ caller' \in [Callers -> CallerType] /\ caller'[c].pc = "idle"
      /\ \A d \in Callers : d # c => caller'[d] = caller[d]
  BY <1>3, AwayType, Types
<1>8. TypeOK'
  BY <1>3, <1>6, <1>7, Types DEF TypeOK
<1>9. LocalsBound'
  BY <1>3, <1>7 DEF IInv, LocalsBound
<1>10. SentOnce'
  <2>1. \A b \in Jobs : jobs'[b].status = "absent" => queue'[b] = "none"
    BY <1>1, <1>4, <1>6 DEF IInv, SentOnce
  <2>2. ASSUME NEW d \in Callers, caller'[d].pc = "send"
        PROVE  /\ queue'[caller'[d].job] = "none" /\ jobs'[caller'[d].job].status # "absent"
               /\ \A e \in Callers \ {d} : caller'[e].pc = "send" => caller'[e].job # caller'[d].job
    <3>1. d # c /\ caller'[d] = caller[d] /\ caller[d].job # a /\ caller[d].job \in Jobs
      BY <1>1, <1>7, <2>2
    <3>2. \A e \in Callers \ {d} : caller'[e].pc = "send" => e # c /\ caller'[e] = caller[e]
      BY <1>7
    <3> QED
      BY <1>6, <2>2, <3>1, <3>2 DEF IInv, SentOnce
  <2> QED
    BY <2>1, <2>2 DEF SentOnce
<1>11. HoldsMessage'
  BY <1>2, <1>3, <1>6 DEF IInv, HoldsMessage
<1>12. SucceededWhole'
  BY <1>4, <1>6 DEF IInv, SucceededWhole
<1> QED
  BY <1>8, <1>9, <1>10, <1>11, <1>12 DEF IInv

---------------------------------------------------------------------------------
(* A worker takes a message: the message was not sent before it was queued.         *)
LEMMA ReceiveStep ==
  ASSUME IInv, NEW w \in Workers, NEW a \in Jobs, Receive(w, a)
  PROVE  IInv'
<1> DEFINE rec == [pc |-> "loaded", job |-> a, source |-> jobs[a].source, runSource |-> jobs[a].runSource]
<1>1. /\ queue[a] = "queued" /\ queue' = [queue EXCEPT ![a] = "delivered"]
      /\ worker' = [worker EXCEPT ![w] = rec] /\ UNCHANGED <<jobs, scored, caller, faults>>
  BY DEF Receive
<1>2. rec \in WorkerType /\ rec.pc = "loaded" /\ rec.job = a
  BY Types DEF WorkerType, JobType
<1> HIDE DEF rec
<1>3. /\ queue' \in [Jobs -> {"none", "queued", "delivered"}] /\ queue'[a] = "delivered"
      /\ \A b \in Jobs : b # a => queue'[b] = queue[b]
  BY <1>1, Types
<1>4. /\ worker' \in [Workers -> WorkerType] /\ worker'[w] = rec
      /\ \A v \in Workers : v # w => worker'[v] = worker[v]
  BY <1>1, <1>2, Types
<1>5. TypeOK'
  BY <1>1, <1>3, <1>4, Types DEF TypeOK
<1>6. LocalsBound'
  BY <1>1, <1>2, <1>4 DEF IInv, LocalsBound
<1>7. \A c \in Callers : caller[c].pc = "send" => caller[c].job # a /\ caller[c].job \in Jobs
  BY <1>1 DEF IInv, SentOnce, LocalsBound
<1>8. jobs[a].status # "absent"
  BY <1>1 DEF IInv, SentOnce
<1>9. SentOnce'
  BY <1>1, <1>3, <1>7, <1>8 DEF IInv, SentOnce
<1>10. \A v \in Workers : v # w /\ worker[v].pc # "idle" => worker[v].job # a /\ worker[v].job \in Jobs
  BY <1>1 DEF IInv, HoldsMessage, LocalsBound
<1>11. HoldsMessage'
  BY <1>1, <1>2, <1>3, <1>4, <1>10 DEF IInv, HoldsMessage
<1> QED
  BY <1>1, <1>5, <1>6, <1>9, <1>11 DEF IInv, SucceededWhole

(* A worker writes to its assessment.                                               *)
LEMMA WriteStep ==
  ASSUME IInv, NEW w \in Workers, worker[w].pc # "idle",
         NEW job \in JobType, jobs' = [jobs EXCEPT ![worker[w].job] = job],
         job.status # "absent",
         job.status = "succeeded" => job.result # NoResult /\ job.run = "succeeded",
         NEW pc \in {"started", "running", "failing", "done"},
         pc # "done" => job.status # "succeeded",
         worker' = [worker EXCEPT ![w] = [worker[w] EXCEPT !.pc = pc]],
         UNCHANGED <<scored, queue, caller, faults>>
  PROVE  IInv'
<1> DEFINE a == worker[w].job
           rec == [worker[w] EXCEPT !.pc = pc]
<1>1. a \in Jobs /\ worker[w] \in WorkerType
  BY Types DEF IInv, LocalsBound
<1>2. rec \in WorkerType /\ rec.pc = pc /\ rec.job = a
  BY <1>1 DEF WorkerType
<1>3. worker' = [worker EXCEPT ![w] = rec] /\ jobs' = [jobs EXCEPT ![a] = job]
  OBVIOUS
<1> HIDE DEF rec
<1>4. /\ worker' \in [Workers -> WorkerType] /\ worker'[w] = rec
      /\ \A v \in Workers : v # w => worker'[v] = worker[v]
  BY <1>2, <1>3, Types
<1>5. /\ jobs' \in [Jobs -> JobType] /\ jobs'[a] = job
      /\ \A b \in Jobs : b # a => jobs'[b] = jobs[b]
  BY <1>1, <1>3, Types
<1>6. TypeOK'
  BY <1>4, <1>5, Types DEF TypeOK
<1>7. LocalsBound'
  BY <1>1, <1>2, <1>4 DEF IInv, LocalsBound
<1>8. queue[a] = "delivered"
  BY DEF IInv, HoldsMessage
<1>9. \A c \in Callers : caller[c].pc = "send" => caller[c].job # a /\ caller[c].job \in Jobs
  BY <1>8 DEF IInv, SentOnce, LocalsBound
<1>10. SentOnce'
  BY <1>5, <1>8, <1>9 DEF IInv, SentOnce
<1>11. \A v \in Workers : v # w /\ worker[v].pc # "idle" => worker[v].job # a /\ worker[v].job \in Jobs
  BY DEF IInv, HoldsMessage, LocalsBound
<1>12. HoldsMessage'
  BY <1>2, <1>4, <1>5, <1>8, <1>11 DEF IInv, HoldsMessage
<1>13. SucceededWhole'
  BY <1>5 DEF IInv, SucceededWhole
<1> QED
  BY <1>6, <1>7, <1>10, <1>12, <1>13 DEF IInv

LEMMA ExecuteStep ==
  ASSUME IInv, NEW w \in Workers, Start(w) \/ StartRun(w) \/ Commit(w) \/ Fail(w) \/ FailRun(w)
  PROVE  IInv'
<1> DEFINE a == worker[w].job
<1>1. worker[w].pc # "idle"
  BY DEF Start, StartRun, Commit, Fail, FailRun
<1>2. a \in Jobs /\ worker[w] \in WorkerType /\ jobs[a] \in JobType /\ jobs[a].status # "absent"
  BY <1>1, Types DEF IInv, LocalsBound, HoldsMessage, SentOnce
<1>3. UNCHANGED <<scored, queue, caller, faults>>
  BY DEF Start, StartRun, Commit, Fail, FailRun
<1>4. CASE Start(w)
  <2> DEFINE job == [jobs[a] EXCEPT !.status = "running"]
  <2>1. job \in JobType /\ job.status = "running"
    BY <1>2 DEF JobType, Status
  <2>2. /\ jobs' = [jobs EXCEPT ![a] = job]
        /\ worker' = [worker EXCEPT ![w] = [worker[w] EXCEPT !.pc = "started"]]
    BY <1>2, <1>4, Types DEF Start
  <2> HIDE DEF job
  <2> QED
    BY <1>1, <1>3, <2>1, <2>2, WriteStep
<1>5. CASE StartRun(w)
  <2> DEFINE job == [jobs[a] EXCEPT !.run = "running"]
  <2>1. job \in JobType /\ job.status = jobs[a].status
    BY <1>2 DEF JobType, Status
  <2>2. jobs[a].status # "succeeded"
    BY <1>5 DEF IInv, HoldsMessage, StartRun
  <2>3. /\ jobs' = [jobs EXCEPT ![a] = job]
        /\ worker' = [worker EXCEPT ![w] = [worker[w] EXCEPT !.pc = "running"]]
    BY <1>2, <1>5, Types DEF StartRun
  <2> HIDE DEF job
  <2> QED
    BY <1>1, <1>2, <1>3, <2>1, <2>2, <2>3, WriteStep
<1>6. CASE Commit(w)
  <2> DEFINE job == [jobs[a] EXCEPT !.status = "succeeded", !.result = worker[w].source,
                       !.run = "succeeded", !.runSource = worker[w].runSource, !.runResult = TRUE]
  <2>1. /\ worker[w].source \in Sources /\ worker[w].runSource \in Sources
        /\ worker[w].source # NoResult
    BY <1>2, ArchitectureAssumption DEF WorkerType, Sources, NoResult
  <2>2. /\ job \in JobType /\ job.status = "succeeded" /\ job.result # NoResult
        /\ job.run = "succeeded"
    BY <1>2, <2>1 DEF JobType, Status
  <2>3. /\ jobs' = [jobs EXCEPT ![a] = job]
        /\ worker' = [worker EXCEPT ![w] = [worker[w] EXCEPT !.pc = "done"]]
    BY <1>2, <1>6, Types DEF Commit
  <2> HIDE DEF job
  <2> QED
    BY <1>1, <1>3, <2>2, <2>3, WriteStep
<1>7. CASE Fail(w)
  <2> DEFINE job == [jobs[a] EXCEPT !.status = "failed"]
  <2>1. job \in JobType /\ job.status = "failed"
    BY <1>2 DEF JobType, Status
  <2>2. /\ jobs' = [jobs EXCEPT ![a] = job]
        /\ worker' = [worker EXCEPT ![w] = [worker[w] EXCEPT !.pc = "failing"]]
    BY <1>2, <1>7, Types DEF Fail
  <2> HIDE DEF job
  <2> QED
    BY <1>1, <1>3, <2>1, <2>2, WriteStep
<1>8. CASE FailRun(w)
  <2> DEFINE job == [jobs[a] EXCEPT !.run = "failed"]
  <2>1. job \in JobType /\ job.status = jobs[a].status
    BY <1>2 DEF JobType, Status
  <2>2. jobs[a].status # "succeeded"
    BY <1>8 DEF IInv, HoldsMessage, FailRun
  <2>3. /\ jobs' = [jobs EXCEPT ![a] = job]
        /\ worker' = [worker EXCEPT ![w] = [worker[w] EXCEPT !.pc = "done"]]
    BY <1>2, <1>8, Types DEF FailRun
  <2> HIDE DEF job
  <2> QED
    BY <1>1, <1>2, <1>3, <2>1, <2>2, <2>3, WriteStep
<1> QED
  BY <1>4, <1>5, <1>6, <1>7, <1>8

(* A worker that is free again has given its message back, or to the broker.        *)
LEMMA LeaveStep ==
  ASSUME IInv, NEW w \in Workers, Return200(w) \/ Kill(w) \/ LoseProcess(w)
  PROVE  IInv'
<1> DEFINE a == worker[w].job
<1>1. worker[w].pc # "idle" /\ UNCHANGED <<jobs, scored, caller>>
  BY DEF Return200, Kill, LoseProcess
<1>2. /\ a \in Jobs /\ queue[a] = "delivered"
      /\ \A v \in Workers \ {w} : worker[v].pc # "idle" => worker[v].job # a /\ worker[v].job \in Jobs
  BY <1>1 DEF IInv, LocalsBound, HoldsMessage
<1>3. PICK message \in {"none", "queued"} : queue' = [queue EXCEPT ![a] = message]
  BY DEF Return200, Kill, LoseProcess, Acknowledge
<1>4. worker' = [worker EXCEPT ![w] = Free]
  BY DEF Return200, Kill, LoseProcess, Acknowledge
<1>5. faults' \in [lost : 0 .. MaxLost, killed : 0 .. MaxKilled]
  BY Types, ArchitectureAssumption DEF Return200, Kill, LoseProcess, Killed
<1> HIDE DEF a
<1>6. /\ queue' \in [Jobs -> {"none", "queued", "delivered"}]
      /\ \A b \in Jobs : b # a => queue'[b] = queue[b]
  BY <1>2, <1>3, Types
<1>7. /\ worker' \in [Workers -> WorkerType] /\ worker'[w].pc = "idle"
      /\ \A v \in Workers : v # w => worker'[v] = worker[v]
  BY <1>4, FreeType, Types
<1>8. TypeOK'
  BY <1>1, <1>5, <1>6, <1>7, Types DEF TypeOK
<1>9. LocalsBound'
  BY <1>1, <1>7 DEF IInv, LocalsBound
<1>10. \A c \in Callers : caller[c].pc = "send" => caller[c].job # a /\ caller[c].job \in Jobs
  BY <1>2 DEF IInv, SentOnce, LocalsBound
<1>11. jobs[a].status # "absent"
  BY <1>2 DEF IInv, SentOnce
<1>12. SentOnce'
  BY <1>1, <1>6, <1>10, <1>11 DEF IInv, SentOnce
<1>13. HoldsMessage'
  BY <1>1, <1>2, <1>6, <1>7 DEF IInv, HoldsMessage
<1> QED
  BY <1>1, <1>8, <1>9, <1>12, <1>13 DEF IInv, SucceededWhole

LEMMA StutterInv == ASSUME IInv, UNCHANGED vars PROVE IInv'
  BY DEF vars, IInv, TypeOK, LocalsBound, SentOnce, HoldsMessage, SucceededWhole

LEMMA NextInv == ASSUME IInv, [Next]_vars PROVE IInv'
  BY AskStep, ReturnStep, FindStep, RelabelStep, CreateStep, SendStep, ReceiveStep, ExecuteStep,
     LeaveStep, StutterInv DEF Next, Enqueue, Execute

(* The invariant holds of the assessments of any number of callers and workers (enqueue.py, *)
(* runner.py).                                                                       *)
THEOREM Invariance == Spec => []IInv
  BY InitInv, NextInv, PTL DEF Spec

(* Assessments, messages, callers and workers keep their types.                     *)
THEOREM TypeCorrect == Spec => []TypeOK
<1>1. IInv => TypeOK
  BY DEF IInv
<1> QED
  BY <1>1, Invariance, PTL

---------------------------------------------------------------------------------
(* Whatever the estate, its assessments are those of ArchitectureAssessments.       *)
THEOREM EstatesAssess == EstateSpec => Spec
<1>1. EstateInit => Init
  BY DEF EstateInit
<1>2. [EstateNext]_estateVars => [Next]_vars
  BY DEF EstateNext, estateVars, vars, Next, Enqueue, Execute
<1> QED
  BY <1>1, <1>2, PTL DEF EstateSpec, Spec

(* What is read of a succeeded assessment is all there, however often its task was   *)
(* delivered and whichever runs were coalesced into it.                              *)
THEOREM SucceededWholeHolds == EstateSpec => []SucceededWhole
<1>1. IInv => SucceededWhole
  BY DEF IInv
<1> QED
  BY <1>1, EstatesAssess, Invariance, PTL

---------------------------------------------------------------------------------
(* Only a commit changes the result of an assessment, ...                           *)
NoCommit ==
  \/ \E c \in Callers :
       \/ ScoreSucceeds(c) \/ Enqueue(c) \/ CallerDies(c)
       \/ \E source \in Sources : AdminPosts(c, source)
  \/ \E w \in Workers :
       \/ Start(w) \/ StartRun(w) \/ Fail(w) \/ FailRun(w) \/ Return200(w) \/ Kill(w) \/ LoseProcess(w)
       \/ \E a \in Jobs : Receive(w, a)

LEMMA ResultStays ==
  ASSUME IInv, NEW a \in Jobs, NoCommit
  PROVE  /\ jobs'[a].status = "absent" => jobs[a].status = "absent"
         /\ jobs[a].status # "absent" => jobs'[a].result = jobs[a].result
         /\ jobs'[a].status = "succeeded" => jobs[a].status = "succeeded"
<1> DEFINE Stays == /\ jobs'[a].status = "absent" => jobs[a].status = "absent"
                    /\ jobs[a].status # "absent" => jobs'[a].result = jobs[a].result
                    /\ jobs'[a].status = "succeeded" => jobs[a].status = "succeeded"
<1>1. jobs[a] \in JobType /\ jobs \in [Jobs -> JobType]
  BY Types
<1>2. ASSUME UNCHANGED jobs PROVE Stays
  BY <1>2
<1>3. ASSUME NEW b, NEW status \in Status \ {"succeeded"}, jobs' = [jobs EXCEPT ![b].status = status]
      PROVE  Stays
  BY <1>1, <1>3 DEF JobType, Status
<1>4. ASSUME NEW b, NEW run, jobs' = [jobs EXCEPT ![b].run = run]
      PROVE  Stays
  BY <1>1, <1>4 DEF JobType
<1>5. ASSUME NEW c \in Callers, Refresh(c) \/ Label(c) \/ Create(c)
      PROVE  Stays
  <2>1. CASE Refresh(c)
    BY <1>1, <2>1 DEF Refresh, JobType
  <2>2. CASE Label(c)
    BY <1>1, <2>2 DEF Label, JobType
  <2>3. CASE Create(c)
    BY <1>1, <2>3 DEF Create, JobType, NoJob
  <2> QED
    BY <1>5, <2>1, <2>2, <2>3
<1>6. ASSUME NEW c \in Callers,
             \/ ScoreSucceeds(c) \/ Skip(c) \/ FindNone(c) \/ FindActive(c) \/ Send(c)
             \/ SendFails(c) \/ CallerDies(c) \/ \E source \in Sources : AdminPosts(c, source)
      PROVE  Stays
  <2> HIDE DEF Stays
  <2>1. "failed" \in Status \ {"succeeded"}
    BY DEF Status
  <2> QED
    BY <1>2, <1>3, <1>6, <2>1
       DEF ScoreSucceeds, Skip, FindNone, FindActive, Send, SendFails, CallerDies, AdminPosts
<1>7. ASSUME NEW w \in Workers,
             \/ Start(w) \/ StartRun(w) \/ Fail(w) \/ FailRun(w) \/ Return200(w)
             \/ Kill(w) \/ LoseProcess(w) \/ \E b \in Jobs : Receive(w, b)
      PROVE  Stays
  <2> HIDE DEF Stays
  <2>1. "failed" \in Status \ {"succeeded"} /\ "running" \in Status \ {"succeeded"}
    BY DEF Status
  <2> QED
    BY <1>2, <1>3, <1>4, <1>7, <2>1
       DEF Start, StartRun, Fail, FailRun, Return200, Kill, LoseProcess, Receive
<1> HIDE DEF Stays
<1>8. Stays
  BY <1>5, <1>6, <1>7 DEF NoCommit, Enqueue
<1> QED
  BY <1>8 DEF Stays

(* ... which is stored with it.                                                      *)
LEMMA PersistStep ==
  ASSUME IInv, HeldAsJudged, NEW w \in Workers, Commit(w), Persist(w), UNCHANGED estate,
         DOMAIN held = Jobs
  PROVE  HeldAsJudged'
<1> DEFINE a == worker[w].job
           found == {Assessed(estate, ResultsOf(worker[w].source))}
<1>1. a \in Jobs /\ jobs[a] \in JobType
  BY Types DEF IInv, LocalsBound, Commit
<1>2. held' = [held EXCEPT ![a] = found]
  BY DEF Persist
<1>3. /\ jobs'[a].status = "succeeded" /\ jobs'[a].result = worker[w].source
      /\ \A b \in Jobs : b # a => jobs'[b] = jobs[b]
  BY <1>1, Types DEF Commit, JobType
<1>4. /\ held'[a] = found /\ \A b \in Jobs : b # a => held'[b] = held[b]
  BY <1>1, <1>2
<1>5. found = {Assessed(estate, ResultsOf(jobs'[a].result))}
  BY <1>3
<1> HIDE DEF found, a
<1>6. ASSUME NEW b \in Jobs
      PROVE  /\ held'[b] # {} => held'[b] = {Assessed(estate, ResultsOf(jobs'[b].result))}
             /\ jobs'[b].status = "absent" => held'[b] = {}
  BY <1>3, <1>4, <1>5 DEF HeldAsJudged
<1>7. estate' = estate
  OBVIOUS
<1> QED
  BY <1>6, <1>7 DEF HeldAsJudged, ResultsOf

EachHeld == DOMAIN held = Jobs

LEMMA EstateStep ==
  ASSUME IInv, EachHeld, HeldAsJudged, [EstateNext]_estateVars
  PROVE  EachHeld' /\ HeldAsJudged'
<1>1. ASSUME NEW w \in Workers, Commit(w), Persist(w), UNCHANGED estate
      PROVE  EachHeld' /\ HeldAsJudged'
  BY <1>1, PersistStep DEF Persist, EachHeld
<1>2. ASSUME UNCHANGED <<estate, held>>, NoCommit
      PROVE  EachHeld' /\ HeldAsJudged'
  BY <1>2, ResultStays DEF HeldAsJudged, ResultsOf, EachHeld
<1>3. ASSUME UNCHANGED estateVars
      PROVE  EachHeld' /\ HeldAsJudged'
  BY <1>3 DEF estateVars, HeldAsJudged, ResultsOf, EachHeld
<1>4. ASSUME EstateNext
      PROVE  /\ UNCHANGED estate
             /\ \/ \E w \in Workers : Commit(w) /\ Persist(w)
                \/ UNCHANGED held /\ NoCommit
  BY <1>4 DEF EstateNext, NoCommit, Enqueue
<1> QED
  BY <1>1, <1>2, <1>3, <1>4

(* What is stored for an assessment was judged, as a whole, on the run its result names   *)
(* (run_architecture_assessment_job).                                                 *)
THEOREM HeldAsJudgedHolds == EstateSpec => []HeldAsJudged
<1>1. EstateInit => EachHeld /\ HeldAsJudged
  BY DEF EstateInit, HeldAsJudged, EachHeld
<1>2. IInv /\ EachHeld /\ HeldAsJudged /\ [EstateNext]_estateVars
        => EachHeld' /\ HeldAsJudged'
  BY EstateStep
<1>3. EstateSpec => []IInv
  BY EstatesAssess, Invariance, PTL
<1> QED
  BY <1>1, <1>2, <1>3, PTL DEF EstateSpec

---------------------------------------------------------------------------------
(* A failed consent check forbids to augment, and sends every workflow to be fixed.  *)
LEMMA ConsentForbids ==
  ASSUME NEW e, NEW results, NEW c \in DOMAIN results, results[c] = "FAIL", c \in Consents
  PROVE  LET h == Assessed(e, results)
         IN /\ h.mode # "AUGMENT"
            /\ \A i \in DOMAIN h.assets :
                 h.assets[i].type = "WORKFLOW" => h.verdicts[i].verdict = "FIX_FIRST"
<1> DEFINE assets == run_phase_b_inventory(e)
           edges == build_workflow_edges(assets)
           dcs == load_dcs_join(results)
           verdicts == assign_asset_verdicts(assets, edges, dcs)
           coverage == _blend_coverage(e, assets, edges)
           h == Assessed(e, results)
<1>1. c \in DOMAIN dcs /\ dcs[c] = "FAIL" /\ _is_consent(c)
  BY DEF load_dcs_join, Restrict, _is_consent
<1>2. /\ h.assets = assets /\ h.verdicts = verdicts
      /\ h.mode = rollup_mode(coverage, assets, edges, verdicts, dcs)
  BY DEF Assessed
<1> HIDE DEF assets, edges, dcs, coverage
<1>3. ConsentFails(dcs) # {}
  BY <1>1 DEF ConsentFails
<1>4. rollup_mode(coverage, assets, edges, verdicts, dcs) # "AUGMENT"
  BY <1>3 DEF rollup_mode
<1>5. ASSUME NEW i \in DOMAIN assets, assets[i].type = "WORKFLOW"
      PROVE  verdicts[i].verdict = "FIX_FIRST"
  <2>1. c \in _build_fix_first_map(assets[i], assets, edges, dcs)
    BY <1>1, <1>5 DEF _build_fix_first_map
  <2>2. _verdict_of(i, assets, edges, dcs) = Verdict("FIX_FIRST", "")
    BY <2>1 DEF _verdict_of
  <2>3. verdicts[i] = _verdict_of(i, assets, edges, dcs)
    BY <1>5 DEF assign_asset_verdicts
  <2>4. Verdict("FIX_FIRST", "").verdict = "FIX_FIRST"
    BY DEF Verdict
  <2> HIDE DEF verdicts, h
  <2> QED
    BY <2>2, <2>3, <2>4
<1> HIDE DEF verdicts
<1> QED
  BY <1>2, <1>4, <1>5

(* No account is augmented, and no workflow kept as it is, over a consent check that  *)
(* failed in the run that was joined.                                               *)
THEOREM NoBlessingOverConsentHolds == EstateSpec => []NoBlessingOverConsent
<1>1. HeldAsJudged => NoBlessingOverConsent
  <2> SUFFICES ASSUME HeldAsJudged, NEW a \in Jobs, Found(a),
                      NEW c \in DOMAIN ResultsOf(jobs[a].result),
                      ResultsOf(jobs[a].result)[c] = "FAIL", c \in Consents
               PROVE  /\ HeldBy(a).mode # "AUGMENT"
                      /\ \A i \in DOMAIN HeldBy(a).assets :
                           HeldBy(a).assets[i].type = "WORKFLOW" => HeldBy(a).verdicts[i].verdict = "FIX_FIRST"
    BY DEF NoBlessingOverConsent
  <2>1. HeldBy(a) = Assessed(estate, ResultsOf(jobs[a].result))
    BY DEF HeldAsJudged, Found, HeldBy
  <2> QED
    BY <2>1, ConsentForbids
<1> QED
  BY <1>1, HeldAsJudgedHolds, PTL

-----------------------------------------------------------------------------
(* The inventory is a fold over the rows that makes a sequence of assets.               *)

(* Induction is done on sets: of some sets, one has none of the others within it.       *)
IsSmallest(T, B) == T \in B /\ \A V \in B : V \subseteq T => V = T

(* Of the sets that are not in a set of finite sets there is a smallest one.        *)
LEMMA Smallest ==
  ASSUME NEW U, IsFiniteSet(U), NEW B, \A T \in B : T \subseteq U, B # {}
  PROVE  \E T : IsSmallest(T, B)
<1>1. IsWellFoundedOn(StrictSubsetOrdering(U), FiniteSubsetsOf(U))
  BY FS_StrictSubsetOrderingWellFounded
<1>2. FiniteSubsetsOf(U) = SUBSET U BY FS_FiniteSubsetsOfFinite
<1>3. PICK T \in B : \A V \in B : <<V, T>> \notin StrictSubsetOrdering(U)
  BY <1>1, <1>2, WFMin
<1>4. \A V \in B : V \subseteq T => V = T
  BY <1>3 DEF StrictSubsetOrdering
<1> QED BY <1>4 DEF IsSmallest

(* A finite set of integers that is not empty has a maximum, and Max is it.           *)
LEMMA MaxOfFinite ==
  ASSUME NEW S \in SUBSET Int, IsFiniteSet(S), S # {}
  PROVE  Max(S) \in S /\ \A y \in S : y <= Max(S)
<1> DEFINE Bad == {T \in SUBSET S : T # {} /\ ~\E x \in T : \A y \in T : x >= y}
<1>1. Bad = {}
  <2>1. SUFFICES ASSUME Bad # {} PROVE FALSE OBVIOUS
  <2>2. PICK T \in Bad : \A V \in Bad : V \subseteq T => V = T
    <3>1. \A T \in Bad : T \subseteq S OBVIOUS
    <3> HIDE DEF Bad
    <3>2. \E T : IsSmallest(T, Bad)
      <4>1. Bad # {} BY <2>1
      <4> QED BY <4>1, <3>1, Smallest, Zenon
    <3> QED BY <3>2 DEF IsSmallest
  <2>3. PICK k \in T : TRUE OBVIOUS
  <2>4. T \ {k} \notin Bad BY <2>2, <2>3
  <2>5. CASE T \ {k} = {} BY <2>3, <2>5
  <2>6. CASE T \ {k} # {}
    <3>1. PICK x \in T \ {k} : \A y \in T \ {k} : x >= y
      BY <2>4, <2>6
    <3>2. x \in Int /\ k \in Int /\ T \subseteq Int BY <2>3
    <3>3. CASE x >= k BY <3>1, <3>3
    <3>4. CASE k >= x
      <4>1. \A y \in T : k >= y BY <3>1, <3>2, <3>4
      <4> QED BY <4>1, <2>3
    <3> QED BY <3>2, <3>3, <3>4
  <2> QED BY <2>5, <2>6
<1>2. \E x \in S : \A y \in S : x >= y
  BY <1>1
<1>3. Max(S) \in S /\ \A y \in S : Max(S) >= y
  BY <1>2 DEF Max
<1> QED BY <1>3

(* Sequences, whatever they hold.                                                  *)
IsSeq(s) == s \in Seq({s[i] : i \in DOMAIN s})

(* A sequence is numbered from one on, whatever it holds.                             *)
LEMMA SeqLen ==
  ASSUME NEW s, IsSeq(s)
  PROVE  Len(s) \in Nat /\ DOMAIN s = 1..Len(s)
BY LenProperties DEF IsSeq

(* Appending a row to a table leaves the older rows where they are.                   *)
LEMMA SeqAppend ==
  ASSUME NEW s, NEW x, IsSeq(s)
  PROVE  /\ IsSeq(Append(s, x))
         /\ Len(Append(s, x)) = Len(s) + 1
         /\ DOMAIN Append(s, x) = 1..(Len(s) + 1)
         /\ \A i \in 1..Len(s) : Append(s, x)[i] = s[i]
         /\ Append(s, x)[Len(s) + 1] = x
<1> DEFINE T == {s[i] : i \in DOMAIN s} \cup {x}
           a == Append(s, x)
<1>1. s \in Seq(T) /\ x \in T
  BY SeqMonotonic DEF IsSeq
<1>2. /\ a \in Seq(T) /\ Len(a) = Len(s) + 1
      /\ (\A i \in 1..Len(s) : a[i] = s[i]) /\ a[Len(s) + 1] = x
  <2> HIDE DEF T
  <2> QED BY <1>1, AppendProperties
<1>3. a \in [1..Len(a) -> T] /\ Len(a) \in Nat /\ DOMAIN a = 1..Len(a)
  <2> HIDE DEF T, a
  <2> QED BY <1>2, LenProperties
<1>4. a \in [1..Len(a) -> {a[i] : i \in DOMAIN a}]
  <2> HIDE DEF T, a
  <2> QED BY <1>3
<1>5. IsSeq(a)
  <2> HIDE DEF T, a
  <2> QED BY <1>3, <1>4, SeqDef DEF IsSeq
<1> QED BY <1>2, <1>3, <1>5

(* The fold over the rows, as the recursive function it stands for.                   *)
IsFold(it, rows, S) ==
  it = [s \in SUBSET S |->
          IF s = {} THEN <<>> ELSE Keep(it[s \ {Max(s)}], AssetOf(rows[Max(s)]))]
Folded(rows, S) == (CHOOSE it : IsFold(it, rows, S))[S]

(* The community modules fold a list by the recursive function of MapThenFoldSet.       *)
LEMMA FoldUnfolds ==
  ASSUME NEW rows
  PROVE  FoldLeft(LAMBDA assets, row : Keep(assets, AssetOf(row)), <<>>, rows)
           = Folded(rows, DOMAIN rows)
BY Zenon DEF FoldLeft, MapThenFoldSet, IsFold, Folded

(* The rows of a list, by their places.                                               *)
AreRows(S) == S \subseteq Int /\ IsFiniteSet(S)

(* The last of some rows is one of them.                                              *)
LEMMA LastIsIn ==
  ASSUME NEW S, AreRows(S), NEW s, s \subseteq S, s # {}
  PROVE  Max(s) \in s
<1>1. s \in SUBSET Int /\ IsFiniteSet(s) BY FS_Subset DEF AreRows
<1> QED BY <1>1, MaxOfFinite

(* The function keeps the last row on top of the rest.                                *)
LEMMA FoldSteps ==
  ASSUME NEW rows, NEW S, NEW it, IsFold(it, rows, S), NEW s, s \subseteq S
  PROVE  it[s] = IF s = {} THEN <<>> ELSE Keep(it[s \ {Max(s)}], AssetOf(rows[Max(s)]))
BY Zenon DEF IsFold

(* Two such functions agree on the sets that both tell of.                            *)
LEMMA FoldUnique ==
  ASSUME NEW rows, NEW S, AreRows(S), NEW i, IsFold(i, rows, S),
         NEW R, NEW j, IsFold(j, rows, R), NEW s, s \subseteq S, s \subseteq R
  PROVE  i[s] = j[s]
<1> DEFINE Bad == {t \in SUBSET S : t \subseteq R /\ i[t] # j[t]}
<1>1. ASSUME Bad # {} PROVE FALSE
  <2>1. PICK t : IsSmallest(t, Bad)
    <3>1. \A t \in Bad : t \subseteq S OBVIOUS
    <3>2. Bad # {} BY <1>1
    <3>3. IsFiniteSet(S) BY DEF AreRows
    <3> HIDE DEF Bad
    <3> QED BY <3>1, <3>2, <3>3, Smallest, Zenon
  <2>2. t \subseteq S /\ t \subseteq R /\ i[t] # j[t] BY <2>1 DEF IsSmallest
  <2>3. /\ i[t] = IF t = {} THEN <<>> ELSE Keep(i[t \ {Max(t)}], AssetOf(rows[Max(t)]))
        /\ j[t] = IF t = {} THEN <<>> ELSE Keep(j[t \ {Max(t)}], AssetOf(rows[Max(t)]))
    <3>1. t \in SUBSET S /\ t \in SUBSET R BY <2>2
    <3> QED BY <3>1, Zenon DEF IsFold
  <2>4. t # {} BY <2>2, <2>3
  <2>5. Max(t) \in t BY <2>2, <2>4, LastIsIn
  <2> DEFINE u == t \ {Max(t)}
  <2>6. u \subseteq t /\ u # t BY <2>5
  <2>7. u \notin Bad
    <3> HIDE DEF u, Bad
    <3> QED BY <2>1, <2>6 DEF IsSmallest
  <2>8. i[u] = j[u] BY <2>7, <2>2
  <2> QED BY <2>2, <2>3, <2>4, <2>8
<1> QED BY <1>1

(* There is such a function on the subsets of every finite set.                       *)
LEMMA FoldExists ==
  ASSUME NEW rows, NEW S, AreRows(S)
  PROVE  \E it : IsFold(it, rows, S)
<1> DEFINE Bad == {t \in SUBSET S : ~\E it : IsFold(it, rows, t)}
<1>1. ASSUME Bad # {} PROVE FALSE
  <2>1. PICK t : IsSmallest(t, Bad)
    <3>1. \A t \in Bad : t \subseteq S OBVIOUS
    <3>2. Bad # {} BY <1>1
    <3>3. IsFiniteSet(S) BY DEF AreRows
    <3> HIDE DEF Bad
    <3> QED BY <3>1, <3>2, <3>3, Smallest, Zenon
  <2>2. t \subseteq S /\ ~\E it : IsFold(it, rows, t) BY <2>1 DEF IsSmallest
  <2>3. \A u : u \subseteq t /\ u # t => \E it : IsFold(it, rows, u)
    BY <2>1 DEF IsSmallest
  <2>4. \A u : u \subseteq t /\ u # t => IsFold(CHOOSE it : IsFold(it, rows, u), rows, u)
    BY <2>3, Zenon
  <2>5. \A u : u \subseteq t => AreRows(u)
    BY <2>2, FS_Subset DEF AreRows
  <2> DEFINE it == [s \in SUBSET t |->
                      IF s = {} THEN <<>> ELSE Keep(Folded(rows, s \ {Max(s)}), AssetOf(rows[Max(s)]))]
  <2>6. ASSUME NEW s, s \subseteq t, s # t
        PROVE  Folded(rows, s) = it[s]
    <3>1. IsFold(CHOOSE i : IsFold(i, rows, s), rows, s) BY <2>4, <2>6
    <3> DEFINE i == CHOOSE i : IsFold(i, rows, s)
    <3>2. i[s] = IF s = {} THEN <<>> ELSE Keep(i[s \ {Max(s)}], AssetOf(rows[Max(s)]))
      <4> HIDE DEF i
      <4>1. s \subseteq s OBVIOUS
      <4>2. IsFold(i, rows, s) BY <3>1 DEF i
      <4> QED BY <4>1, <4>2, FoldSteps
    <3>3. Folded(rows, s) = i[s] BY DEF Folded
    <3>4. it[s] = IF s = {} THEN <<>> ELSE Keep(Folded(rows, s \ {Max(s)}), AssetOf(rows[Max(s)]))
      BY <2>6
    <3> DEFINE u == s \ {Max(s)}
    <3>5. ASSUME s # {} PROVE i[u] = Folded(rows, u)
      <4>1. Max(s) \in s BY <2>2, <2>6, <3>5, LastIsIn
      <4>2. u \subseteq s /\ u \subseteq t /\ u # t BY <4>1, <2>6
      <4> DEFINE j == CHOOSE j : IsFold(j, rows, u)
      <4> HIDE DEF u
      <4>3. IsFold(j, rows, u) BY <4>2, <2>4, Zenon
      <4>4. u \subseteq u /\ AreRows(s) BY <2>5, <2>6
      <4>5. IsFold(i, rows, s) BY <3>1
      <4>6. Folded(rows, u) = j[u] BY DEF Folded
      <4> HIDE DEF i, j
      <4>7. i[u] = j[u] BY <4>2, <4>3, <4>4, <4>5, FoldUnique
      <4> QED BY <4>6, <4>7
    <3> HIDE DEF i, it
    <3> QED BY <3>2, <3>3, <3>4, <3>5
  <2>7. IsFold(it, rows, t)
    <3>1. ASSUME NEW s \in SUBSET t
          PROVE  it[s] = IF s = {} THEN <<>> ELSE Keep(it[s \ {Max(s)}], AssetOf(rows[Max(s)]))
      <4>1. it[s] = IF s = {} THEN <<>> ELSE Keep(Folded(rows, s \ {Max(s)}), AssetOf(rows[Max(s)]))
        BY <3>1
      <4>2. ASSUME s # {} PROVE Folded(rows, s \ {Max(s)}) = it[s \ {Max(s)}]
        <5>1. Max(s) \in s BY <2>2, <4>2, LastIsIn
        <5>2. s \ {Max(s)} \subseteq t /\ s \ {Max(s)} # t BY <5>1
        <5> HIDE DEF it
        <5> QED BY <5>2, <2>6
      <4> HIDE DEF it
      <4> QED BY <4>1, <4>2
    <3>2. it = [s \in SUBSET t |-> it[s]] OBVIOUS
    <3> HIDE DEF it
    <3> QED BY <3>1, <3>2 DEF IsFold
  <2> QED BY <2>2, <2>7
<1> QED BY <1>1

(* So the rows of a finite set are kept with the last one on top of the rest.          *)
LEMMA FoldedSteps ==
  ASSUME NEW rows, NEW S, AreRows(S)
  PROVE  /\ S = {} => Folded(rows, S) = <<>>
         /\ S # {} => /\ Max(S) \in S
                      /\ Folded(rows, S) = Keep(Folded(rows, S \ {Max(S)}), AssetOf(rows[Max(S)]))
<1> DEFINE u == S \ {Max(S)}
           i == CHOOSE i : IsFold(i, rows, S)
           j == CHOOSE j : IsFold(j, rows, u)
<1>1. AreRows(u) /\ u \subseteq S BY FS_Subset DEF AreRows
<1>2. IsFold(i, rows, S)
  BY FoldExists
<1>3. IsFold(j, rows, u)
  <2> HIDE DEF u
  <2> QED BY <1>1, FoldExists
<1>4. Folded(rows, S) = i[S] /\ Folded(rows, u) = j[u] BY DEF Folded
<1> HIDE DEF i, j
<1>5. i[S] = IF S = {} THEN <<>> ELSE Keep(i[u], AssetOf(rows[Max(S)]))
  <2>1. S \in SUBSET S OBVIOUS
  <2> QED BY <1>2, <2>1, Zenon DEF IsFold
<1>6. i[u] = j[u]
  <2> HIDE DEF u
  <2>1. u \subseteq u OBVIOUS
  <2> QED BY <1>1, <1>2, <1>3, <2>1, FoldUnique
<1>7. S # {} => Max(S) \in S BY LastIsIn
<1> QED BY <1>4, <1>5, <1>6, <1>7

(* A set of naturals that is not empty has a least element: the induction used here  *)
(* speaks of sets, and takes no operator as its parameter.                          *)
LEMMA Least ==
  ASSUME NEW S \in SUBSET Nat, S # {}
  PROVE  \E n \in S : \A m \in S : n <= m
<1> DEFINE R == {ss \in Nat \X Nat : ss[1] < ss[2]}
<1>1. IsWellFoundedOn(R, Nat)
  BY NatLessThanWellFounded DEF OpToRel
<1>2. PICK n \in S : \A m \in S : <<m, n>> \notin R
  <2> HIDE DEF R
  <2> QED BY <1>1, WFMin
<1>3. \A m \in S : n <= m
  <2> SUFFICES ASSUME NEW m \in S PROVE n <= m
    OBVIOUS
  <2>1. <<m, n>> \notin R BY <1>2
  <2>2. m \in Nat /\ n \in Nat OBVIOUS
  <2> QED BY <2>1, <2>2, SMT
<1> QED BY <1>2, <1>3

(* What is numbered from one on is a list.                                            *)
LEMMA NumberedIsList ==
  ASSUME NEW f, NEW n \in Nat, f = [i \in 1..n |-> f[i]]
  PROVE  IsSeq(f)
<1> DEFINE T == {f[i] : i \in DOMAIN f}
<1>1. f \in [1..n -> T]
  <2>1. DOMAIN f = 1..n OBVIOUS
  <2>2. \A i \in 1..n : f[i] \in T BY <2>1
  <2> HIDE DEF T
  <2> QED BY <2>2
<1>2. f \in Seq(T)
  <2> HIDE DEF T
  <2> QED BY <1>1, SeqDef
<1> QED BY <1>2 DEF IsSeq

(* Keeping a row changes a list in place, or makes it longer by one.                  *)
LEMMA KeepIsList ==
  ASSUME NEW assets, IsSeq(assets), NEW new
  PROVE  /\ IsSeq(Keep(assets, new))
         /\ \A i \in DOMAIN Keep(assets, new) :
              Keep(assets, new)[i] = new \/ \E j \in DOMAIN assets : Keep(assets, new)[i] = assets[j]
<1> DEFINE k == Keep(assets, new)
<1>1. CASE \E i \in DOMAIN assets : assets[i].id = new.id
  <2> DEFINE f == [i \in DOMAIN assets |-> IF assets[i].id = new.id THEN new ELSE assets[i]]
  <2>1. k = f BY <1>1 DEF Keep
  <2>2. DOMAIN assets = 1..Len(assets) /\ Len(assets) \in Nat BY SeqLen
  <2>3. f = [i \in 1..Len(assets) |-> f[i]] BY <2>2
  <2>4. IsSeq(f)
    <3> HIDE DEF f
    <3> QED BY <2>2, <2>3, NumberedIsList
  <2>5. \A i \in DOMAIN f : f[i] = new \/ \E j \in DOMAIN assets : f[i] = assets[j]
    OBVIOUS
  <2> HIDE DEF f, k
  <2> QED BY <2>1, <2>4, <2>5 DEF k
<1>2. CASE ~\E i \in DOMAIN assets : assets[i].id = new.id
  <2>1. k = Append(assets, new) BY <1>2 DEF Keep
  <2>2. DOMAIN assets = 1..Len(assets) /\ Len(assets) \in Nat BY SeqLen
  <2>3. /\ IsSeq(Append(assets, new))
        /\ DOMAIN Append(assets, new) = 1..(Len(assets) + 1)
        /\ \A i \in 1..Len(assets) : Append(assets, new)[i] = assets[i]
        /\ Append(assets, new)[Len(assets) + 1] = new
    BY SeqAppend
  <2>4. \A i \in DOMAIN k : k[i] = new \/ \E j \in DOMAIN assets : k[i] = assets[j]
    <3> HIDE DEF k
    <3> QED BY <2>1, <2>2, <2>3
  <2> HIDE DEF k
  <2> QED BY <2>1, <2>3, <2>4 DEF k
<1> QED BY <1>1, <1>2

(* What was kept are the assets of rows.                                             *)
LEMMA FoldedIsList ==
  ASSUME NEW rows, NEW S, AreRows(S)
  PROVE  /\ IsSeq(Folded(rows, S))
         /\ \A i \in DOMAIN Folded(rows, S) : \E k \in S : Folded(rows, S)[i] = AssetOf(rows[k])
<1> DEFINE Good(t) == /\ IsSeq(Folded(rows, t))
                      /\ \A i \in DOMAIN Folded(rows, t) :
                           \E k \in t : Folded(rows, t)[i] = AssetOf(rows[k])
           Bad == {t \in SUBSET S : ~Good(t)}
<1>1. ASSUME Bad # {} PROVE FALSE
  <2>1. PICK t : IsSmallest(t, Bad)
    <3>1. \A t \in Bad : t \subseteq S OBVIOUS
    <3>2. Bad # {} BY <1>1
    <3>3. IsFiniteSet(S) BY DEF AreRows
    <3> HIDE DEF Bad
    <3> QED BY <3>1, <3>2, <3>3, Smallest, Zenon
  <2>2. t \subseteq S /\ ~Good(t) BY <2>1 DEF IsSmallest
  <2>3. AreRows(t) BY <2>2, FS_Subset DEF AreRows
  <2>4. CASE t = {}
    <3>1. Folded(rows, t) = <<>> BY <2>3, <2>4, FoldedSteps
    <3>2. IsSeq(<<>>) /\ DOMAIN <<>> = {}
      <4>1. <<>> \in Seq({}) /\ DOMAIN <<>> = {} BY EmptySeq
      <4> QED BY <4>1 DEF IsSeq
    <3> QED BY <2>2, <3>1, <3>2
  <2>5. CASE t # {}
    <3> DEFINE u == t \ {Max(t)}
               f == Folded(rows, u)
               new == AssetOf(rows[Max(t)])
    <3>1. Max(t) \in t /\ Folded(rows, t) = Keep(f, new) BY <2>3, <2>5, FoldedSteps
    <3>2. u \subseteq t /\ u # t BY <3>1
    <3>3. Good(u)
      <4> HIDE DEF u, Good
      <4> QED BY <2>1, <2>2, <3>2 DEF IsSmallest
    <3> HIDE DEF u, f, new
    <3>4. IsSeq(f) /\ \A i \in DOMAIN f : \E k \in u : f[i] = AssetOf(rows[k]) BY <3>3 DEF f
    <3>5. /\ IsSeq(Keep(f, new))
          /\ \A i \in DOMAIN Keep(f, new) :
               Keep(f, new)[i] = new \/ \E j \in DOMAIN f : Keep(f, new)[i] = f[j]
      BY <3>4, KeepIsList
    <3>6. \A i \in DOMAIN Keep(f, new) : \E k \in t : Keep(f, new)[i] = AssetOf(rows[k])
      <4> SUFFICES ASSUME NEW i \in DOMAIN Keep(f, new)
                   PROVE  \E k \in t : Keep(f, new)[i] = AssetOf(rows[k])
        OBVIOUS
      <4>1. CASE Keep(f, new)[i] = new BY <3>1, <4>1 DEF new
      <4>2. CASE \E j \in DOMAIN f : Keep(f, new)[i] = f[j]
        <5>1. PICK j \in DOMAIN f : Keep(f, new)[i] = f[j] BY <4>2
        <5>2. PICK k \in u : f[j] = AssetOf(rows[k]) BY <3>4
        <5> QED BY <3>2, <5>1, <5>2
      <4> QED BY <3>5, <4>1, <4>2
    <3>7. Good(t) BY <3>1, <3>5, <3>6
    <3> QED BY <2>2, <3>7
  <2> QED BY <2>4, <2>5
<1> QED BY <1>1

(* A stage is one of the sixteen, or none.                                            *)
LEMMA StageOfAsset ==
  ASSUME NEW row
  PROVE  AssetOf(row).stage \in 0..16
<1>1. ASSUME NEW rules, NEW n \in Nat, DOMAIN rules = 1..n, \A i \in 1..n : rules[i] \in 1..16, NEW hits
      PROVE  FirstOf(rules, hits) \in 0..16
  <2> DEFINE at == {i \in DOMAIN rules : rules[i] \in hits}
  <2>1. FirstOf(rules, hits) = IF at = {} THEN 0 ELSE rules[Min(at)] BY Zenon DEF FirstOf
  <2>2. ASSUME at # {} PROVE Min(at) \in 1..n
    <3>1. at \subseteq Nat /\ at \subseteq 1..n BY <1>1
    <3> HIDE DEF at
    <3>2. PICK m \in at : \A i \in at : m <= i BY <2>2, <3>1, Least
    <3>3. Min(at) \in at BY <3>2, Zenon DEF Min
    <3> QED BY <3>1, <3>3
  <2> HIDE DEF at
  <2> QED BY <1>1, <2>1, <2>2
<1>2. \A hits : FirstOf(_STAGE_RULES, hits) \in 0..16
  <2>1. DOMAIN _STAGE_RULES = 1..16 /\ \A i \in 1..16 : _STAGE_RULES[i] \in 1..16
    BY DEF _STAGE_RULES, Stages
  <2> HIDE DEF _STAGE_RULES
  <2> QED BY <1>1, <2>1
<1>3. \A hits : FirstOf(_PROP_RULES, hits) \in 0..16
  <2>1. DOMAIN _PROP_RULES = 1..7 /\ \A i \in 1..7 : _PROP_RULES[i] \in 1..16
    BY DEF _PROP_RULES
  <2> HIDE DEF _PROP_RULES
  <2> QED BY <1>1, <2>1
<1>4. \A hits : FirstOf(_TAG_RULES, hits) \in 0..16
  <2>1. DOMAIN _TAG_RULES = 1..6 /\ \A i \in 1..6 : _TAG_RULES[i] \in 1..16
    BY DEF _TAG_RULES
  <2> HIDE DEF _TAG_RULES
  <2> QED BY <1>1, <2>1
<1>5. infer_lifecycle_stage(row) \in 0..16
  BY <1>2, <1>3, <1>4, Zenon DEF infer_lifecycle_stage
<1>6. AssetOf(row).stage = infer_lifecycle_stage(row) BY DEF AssetOf
<1> QED BY <1>5, <1>6

(* Two lists in a row are a list.                                                     *)
LEMMA SeqConcat ==
  ASSUME NEW s, NEW t, IsSeq(s), IsSeq(t)
  PROVE  IsSeq(s \o t)
<1> DEFINE T == {s[i] : i \in DOMAIN s} \cup {t[i] : i \in DOMAIN t}
           a == s \o t
<1>1. s \in Seq(T) /\ t \in Seq(T) BY SeqMonotonic DEF IsSeq
<1>2. a \in Seq(T)
  <2> HIDE DEF T
  <2> QED BY <1>1, ConcatProperties
<1>3. a \in [1..Len(a) -> T] /\ Len(a) \in Nat /\ DOMAIN a = 1..Len(a)
  <2> HIDE DEF T, a
  <2> QED BY <1>2, LenProperties
<1> HIDE DEF T, a
<1>4. a = [i \in 1..Len(a) |-> a[i]] BY <1>3
<1>5. IsSeq(a) BY <1>3, <1>4, NumberedIsList
<1> QED BY <1>5 DEF a

(* The inventory of an estate is a list of assets, each with a stage or with none.     *)
LEMMA InventoryIsList ==
  ASSUME NEW e \in Estates
  PROVE  LET assets == run_phase_b_inventory(e)
         IN /\ Len(assets) \in Nat /\ DOMAIN assets = 1..Len(assets)
            /\ \A i \in DOMAIN assets : assets[i].stage \in 0..16
<1> DEFINE rows == Listed(e.workflows) \o Listed(e.tags) \o e.properties \o e.segments
           assets == run_phase_b_inventory(e)
<1>1. /\ \A x \in e.workflows.answer : IsSeq(x)
      /\ \A x \in e.tags.answer : IsSeq(x)
      /\ IsSeq(e.workflows.imported) /\ IsSeq(e.tags.imported) /\ IsSeq(e.properties) /\ IsSeq(e.segments)
  BY EstatesAssumption DEF IsSeq, ToSet
<1>2. IsSeq(Listed(e.workflows)) /\ IsSeq(Listed(e.tags))
  BY <1>1 DEF Listed
<1>3. IsSeq(rows)
  <2>1. IsSeq(Listed(e.workflows) \o Listed(e.tags)) BY <1>2, SeqConcat
  <2>2. IsSeq(Listed(e.workflows) \o Listed(e.tags) \o e.properties) BY <1>1, <2>1, SeqConcat
  <2> QED BY <1>1, <2>2, SeqConcat
<1>4. assets = Folded(rows, DOMAIN rows)
  BY FoldUnfolds, Zenon DEF run_phase_b_inventory
<1> HIDE DEF rows, assets
<1>5. AreRows(DOMAIN rows)
  <2>1. Len(rows) \in Nat /\ DOMAIN rows = 1..Len(rows) BY <1>3, SeqLen
  <2>2. IsFiniteSet(1..Len(rows)) BY <2>1, FS_Interval
  <2> QED BY <2>1, <2>2 DEF AreRows
<1>6. /\ IsSeq(assets)
      /\ \A i \in DOMAIN assets : \E k \in DOMAIN rows : assets[i] = AssetOf(rows[k])
  BY <1>4, <1>5, FoldedIsList
<1>7. \A i \in DOMAIN assets : assets[i].stage \in 0..16 BY <1>6, StageOfAsset
<1>8. Len(assets) \in Nat /\ DOMAIN assets = 1..Len(assets) BY <1>6, SeqLen
<1> QED BY <1>7, <1>8 DEF assets

-----------------------------------------------------------------------------
(* Nothing that is used is retired.                                                   *)

(* The last two verdicts are given on a complete graph only, and the last one to what   *)
(* nothing depends on.                                                              *)
LEMMA VerdictSays ==
  ASSUME NEW i, NEW assets, NEW edges, NEW dcs
  PROVE  LET v == _verdict_of(i, assets, edges, dcs)
             fix == _build_fix_first_map(assets[i], assets, edges, dcs) # {}
             retirable == /\ _is_dormant(assets[i]) \/ assets[i].type # "WORKFLOW"
                          /\ _dependents_of(assets[i].id, edges) = {}
             overlaps == i \in _overlap_clusters(assets)
             complete == Complete(assets, edges)
         IN /\ v.verdict = "FIX_FIRST" <=> fix
            /\ v.verdict = "RETIRE_CANDIDATE" <=> ~fix /\ ~overlaps /\ retirable /\ complete
            /\ v.verdict = "CONSOLIDATE" <=> ~fix /\ overlaps /\ complete
            /\ v.verdict \in {"KEEP", "KEEP_IMPROVE"} <=>
                 ~fix /\ ~(overlaps /\ complete) /\ ~(~overlaps /\ retirable /\ complete)
            /\ v.why = "Overlap" => overlaps
<1> DEFINE a == assets[i]
           v == _verdict_of(i, assets, edges, dcs)
           fix == _build_fix_first_map(a, assets, edges, dcs) # {}
           used == _dependents_of(a.id, edges) # {}
           dormant == _is_dormant(a)
           flow == a.type = "WORKFLOW"
           retirable == (dormant \/ ~flow) /\ ~used
           overlaps == i \in _overlap_clusters(assets)
           complete == Complete(assets, edges)
           weak == flow /\ (DOMAIN dcs \cap _MEASUREMENT_CHECKS # {} \/ i \in Untriggered(assets))
<1>1. v = CASE fix -> Verdict("FIX_FIRST", "")
            [] ~fix /\ overlaps ->
                 IF complete THEN Verdict("CONSOLIDATE", "") ELSE Verdict("KEEP_IMPROVE", "Overlap")
            [] ~fix /\ ~overlaps /\ retirable ->
                 IF complete THEN Verdict("RETIRE_CANDIDATE", "") ELSE Verdict("KEEP", "GRAPH_GATE")
            [] ~fix /\ ~overlaps /\ used /\ dormant -> Verdict("KEEP", "HAS_DEPENDENTS")
            [] ~fix /\ ~overlaps /\ ~retirable /\ ~(used /\ dormant) /\ weak -> Verdict("KEEP_IMPROVE", "")
            [] OTHER -> Verdict("KEEP", "")
  BY Zenon DEF _verdict_of
<1> HIDE DEF v, fix, used, dormant, flow, overlaps, complete, weak
<1>2. /\ fix => v = Verdict("FIX_FIRST", "")
      /\ ~fix /\ overlaps /\ complete => v = Verdict("CONSOLIDATE", "")
      /\ ~fix /\ overlaps /\ ~complete => v = Verdict("KEEP_IMPROVE", "Overlap")
      /\ ~fix /\ ~overlaps /\ retirable /\ complete => v = Verdict("RETIRE_CANDIDATE", "")
      /\ ~fix /\ ~overlaps /\ retirable /\ ~complete => v = Verdict("KEEP", "GRAPH_GATE")
      /\ ~fix /\ ~overlaps /\ ~retirable =>
           v \in {Verdict("KEEP", "HAS_DEPENDENTS"), Verdict("KEEP_IMPROVE", ""), Verdict("KEEP", "")}
  BY <1>1
<1>3. /\ v.verdict = "FIX_FIRST" <=> fix
      /\ v.verdict = "RETIRE_CANDIDATE" <=> ~fix /\ ~overlaps /\ retirable /\ complete
      /\ v.verdict = "CONSOLIDATE" <=> ~fix /\ overlaps /\ complete
      /\ v.verdict \in {"KEEP", "KEEP_IMPROVE"} <=>
           ~fix /\ ~(overlaps /\ complete) /\ ~(~overlaps /\ retirable /\ complete)
      /\ v.why = "Overlap" => overlaps
  <2> DEFINE kind == v.verdict
             why == v.why
  <2>1. \A x, y : v = Verdict(x, y) => kind = x /\ why = y BY DEF Verdict
  <2> HIDE DEF retirable, kind, why
  <2>2. /\ fix => kind = "FIX_FIRST" /\ why = ""
        /\ ~fix /\ overlaps /\ complete => kind = "CONSOLIDATE"
        /\ ~fix /\ overlaps /\ ~complete => kind = "KEEP_IMPROVE"
        /\ ~fix /\ ~overlaps /\ retirable /\ complete => kind = "RETIRE_CANDIDATE" /\ why = ""
        /\ ~fix /\ ~overlaps /\ retirable /\ ~complete => kind = "KEEP" /\ why = "GRAPH_GATE"
        /\ ~fix /\ overlaps /\ complete => why = ""
    BY <1>2, <2>1, Zenon
  <2>3. ~fix /\ ~overlaps /\ ~retirable => kind \in {"KEEP", "KEEP_IMPROVE"} /\ why \in {"HAS_DEPENDENTS", ""}
    BY <1>2, <2>1, Zenon
  <2>4. /\ kind = "FIX_FIRST" <=> fix
        /\ kind = "RETIRE_CANDIDATE" <=> ~fix /\ ~overlaps /\ retirable /\ complete
        /\ kind = "CONSOLIDATE" <=> ~fix /\ overlaps /\ complete
        /\ kind \in {"KEEP", "KEEP_IMPROVE"} <=>
             ~fix /\ ~(overlaps /\ complete) /\ ~(~overlaps /\ retirable /\ complete)
        /\ why = "Overlap" => overlaps
    BY <2>2, <2>3
  <2> QED BY <2>4 DEF kind, why
<1> QED BY <1>3 DEF v, fix, used, dormant, flow, overlaps, complete

(* A name leads to an asset that bears it.                                            *)
LEMMA NameLeads ==
  ASSUME NEW assets, NEW n \in Nat, DOMAIN assets = 1..n, NEW type,
         NEW i \in OfType(assets, type)
  PROVE  \E k \in OfType(assets, type) :
           /\ assets[k].name = assets[i].name
           /\ \A names : assets[i].name \in names =>
                assets[k].id \in Reached(_index_assets(assets, type), names)
<1> DEFINE x == assets[i].name
           those == OfType(assets, type)
           same == {k \in those : assets[k].name = x}
           index == _index_assets(assets, type)
<1>1. index = [m \in {assets[k].name : k \in those} |->
                 assets[Max({k \in those : assets[k].name = m})].id]
  BY Zenon DEF _index_assets
<1>2. those \subseteq 1..n /\ same \subseteq those /\ i \in same BY DEF OfType
<1>3. Max(same) \in same
  <2>1. same \in SUBSET Int /\ same \subseteq 1..n /\ same # {} BY <1>2
  <2> HIDE DEF same
  <2>2. IsFiniteSet(1..n) BY FS_Interval
  <2>3. IsFiniteSet(same) BY <2>1, <2>2, FS_Subset
  <2> QED BY <2>1, <2>3, MaxOfFinite
<1>4. x \in DOMAIN index /\ index[x] = assets[Max(same)].id
  <2>1. x \in {assets[k].name : k \in those} BY <1>2
  <2> HIDE DEF x, those, index
  <2> QED BY <1>1, <2>1, Zenon
<1>5. \A names : x \in names => index[x] \in Reached(index, names)
  <2> HIDE DEF index, x
  <2> QED BY <1>4, Zenon DEF Reached
<1>6. Max(same) \in those /\ assets[Max(same)].name = x
  <2> HIDE DEF x, those
  <2> QED BY <1>3
<1> DEFINE k == Max(same)
<1>7. k \in those /\ assets[k].name = x /\ index[x] = assets[k].id BY <1>4, <1>6
<1> HIDE DEF k, index, same
<1> QED BY <1>5, <1>7 DEF index

(* What a workflow names has an edge that leads to it, or to another asset of its type   *)
(* that bears its name.                                                             *)
LEMMA NamedIsUsed ==
  ASSUME NEW assets, NEW n \in Nat, DOMAIN assets = 1..n,
         NEW i \in 1..n, NEW j \in OfType(assets, "WORKFLOW"), Names(assets[j], assets[i])
  PROVE  \/ _dependents_of(assets[i].id, build_workflow_edges(assets)) # {}
         \/ \E k \in (1..n) \ {i} :
              assets[k].type = assets[i].type /\ assets[k].name = assets[i].name
<1> DEFINE edges == build_workflow_edges(assets)
           w == assets[j]
           x == assets[i]
           text == w.def.trigger.names
           tags == _index_assets(assets, "TAG")
           properties == _index_assets(assets, "PROPERTY")
           segments == _index_assets(assets, "SEGMENT")
           used == _dependents_of(x.id, edges) # {}
           twin == \E k \in (1..n) \ {i} : assets[k].type = x.type /\ assets[k].name = x.name
<1>1. /\ \A t \in Reached(tags, w.def.tags \cup text) : Edge(w.id, t, "READS") \in edges
      /\ \A t \in Reached(properties, w.def.properties \cup text) : Edge(w.id, t, "READS") \in edges
      /\ \A t \in Reached(segments, w.def.segments \cup text) : Edge(w.id, t, "USES") \in edges
      /\ \A t \in Reached(tags, w.def.writes) : Edge(w.id, t, "WRITES") \in edges
  <2> DEFINE F(k) == LET v == assets[k]
                         tokens == v.def.trigger.names
                     IN {Edge(v.id, t, "READS") : t \in Reached(tags, v.def.tags \cup tokens)
                                                   \cup Reached(properties, v.def.properties \cup tokens)}
                          \cup {Edge(v.id, t, "USES") : t \in Reached(segments, v.def.segments \cup tokens)}
                          \cup {Edge(v.id, t, "WRITES") : t \in Reached(tags, v.def.writes)}
  <2>1. edges = UNION {F(k) : k \in OfType(assets, "WORKFLOW")} BY Zenon DEF build_workflow_edges
  <2>2. F(j) \subseteq edges
    <3> HIDE DEF F, edges
    <3> QED BY <2>1
  <2>3. F(j) = {Edge(w.id, t, "READS") : t \in Reached(tags, w.def.tags \cup text)
                                                 \cup Reached(properties, w.def.properties \cup text)}
                 \cup {Edge(w.id, t, "USES") : t \in Reached(segments, w.def.segments \cup text)}
                 \cup {Edge(w.id, t, "WRITES") : t \in Reached(tags, w.def.writes)}
    BY Zenon
  <2> HIDE DEF F, edges, w, text, tags, properties, segments
  <2> QED BY <2>2, <2>3, Zenon
<1>2. \A t, type : Edge(w.id, t, type) \in edges => _dependents_of(t, edges) # {}
  <2>1. \A t, type : Edge(w.id, t, type).to = t BY DEF Edge
  <2> HIDE DEF edges, w
  <2> QED BY <2>1 DEF _dependents_of
<1>3. ASSUME NEW type, x.type = type, NEW names, x.name \in names,
             \A t \in Reached(_index_assets(assets, type), names) : _dependents_of(t, edges) # {}
      PROVE  used \/ twin
  <2>1. i \in OfType(assets, type) BY <1>3 DEF OfType
  <2>2. PICK k \in OfType(assets, type) :
          /\ assets[k].name = assets[i].name
          /\ \A those : assets[i].name \in those =>
               assets[k].id \in Reached(_index_assets(assets, type), those)
    BY <2>1, NameLeads
  <2>3. _dependents_of(assets[k].id, edges) # {}
    <3> HIDE DEF edges
    <3> QED BY <1>3, <2>2
  <2>4. k \in 1..n /\ assets[k].type = type BY <2>2 DEF OfType
  <2> HIDE DEF edges
  <2> QED BY <1>3, <2>2, <2>3, <2>4
<1>4. ASSUME x.type = "TAG", x.name \in text \cup w.def.tags \cup w.def.writes
      PROVE  used \/ twin
  <2>1. \A t \in Reached(tags, text \cup w.def.tags \cup w.def.writes) : _dependents_of(t, edges) # {}
    <3>1. \A t \in Reached(tags, text \cup w.def.tags \cup w.def.writes) :
            \/ t \in Reached(tags, w.def.tags \cup text) \/ t \in Reached(tags, w.def.writes)
      <4> HIDE DEF tags, text, w
      <4> QED BY DEF Reached
    <3> HIDE DEF edges, tags, text, w
    <3> QED BY <1>1, <1>2, <3>1
  <2> HIDE DEF edges, text, w, x, used, twin
  <2> QED BY <1>3, <1>4, <2>1, Zenon
<1>5. ASSUME x.type = "PROPERTY", x.name \in text \cup w.def.properties
      PROVE  used \/ twin
  <2>1. \A t \in Reached(properties, text \cup w.def.properties) : _dependents_of(t, edges) # {}
    <3>1. text \cup w.def.properties = w.def.properties \cup text OBVIOUS
    <3> HIDE DEF edges, properties, text, w
    <3> QED BY <1>1, <1>2, <3>1
  <2> HIDE DEF edges, text, w, x, used, twin
  <2> QED BY <1>3, <1>5, <2>1, Zenon
<1>6. ASSUME x.type = "SEGMENT", x.name \in text \cup w.def.segments
      PROVE  used \/ twin
  <2>1. \A t \in Reached(segments, text \cup w.def.segments) : _dependents_of(t, edges) # {}
    <3>1. text \cup w.def.segments = w.def.segments \cup text OBVIOUS
    <3> HIDE DEF edges, segments, text, w
    <3> QED BY <1>1, <1>2, <3>1
  <2> HIDE DEF edges, text, w, x, used, twin
  <2> QED BY <1>3, <1>6, <2>1, Zenon
<1> HIDE DEF used, twin
<1>7. used \/ twin BY <1>4, <1>5, <1>6, Zenon DEF Names
<1> QED BY <1>7 DEF used, twin

(* What may be said of an asset that is to be retired or merged.                      *)
OnlyUnusedGo(h, i) ==
  /\ h.verdicts[i].verdict \in {"RETIRE_CANDIDATE", "CONSOLIDATE"} =>
       /\ \E j \in DOMAIN h.assets : h.assets[j].type = "SEGMENT"
       /\ \A j \in DOMAIN h.assets : h.assets[j].type = "WORKFLOW" => h.assets[j].def.trigger.norm # ""
  /\ h.verdicts[i].verdict = "RETIRE_CANDIDATE" =>
       \A j \in DOMAIN h.assets : h.assets[j].type = "WORKFLOW" /\ Names(h.assets[j], h.assets[i]) =>
         \E k \in DOMAIN h.assets \ {i} :
           h.assets[k].type = h.assets[i].type /\ h.assets[k].name = h.assets[i].name

(* An assessment says so of every asset.                                              *)
LEMMA RetiredIsUnused ==
  ASSUME NEW e \in Estates, NEW results, NEW h, h = Assessed(e, results), NEW i \in DOMAIN h.assets
  PROVE  OnlyUnusedGo(h, i)
<1> DEFINE assets == run_phase_b_inventory(e)
           edges == build_workflow_edges(assets)
           dcs == load_dcs_join(results)
           n == Len(assets)
<1>1. h.assets = assets /\ h.verdicts = assign_asset_verdicts(assets, edges, dcs)
  BY DEF Assessed
<1>2. n \in Nat /\ DOMAIN assets = 1..n
  <2> HIDE DEF assets
  <2> QED BY InventoryIsList DEF assets
<1> HIDE DEF assets, dcs, n
<1>3. i \in 1..n /\ h.verdicts[i] = _verdict_of(i, assets, edges, dcs)
  BY <1>1, <1>2 DEF assign_asset_verdicts
<1> DEFINE v == _verdict_of(i, assets, edges, dcs)
<1>4. /\ v.verdict \in {"RETIRE_CANDIDATE", "CONSOLIDATE"} => Complete(assets, edges)
      /\ v.verdict = "RETIRE_CANDIDATE" => _dependents_of(assets[i].id, edges) = {}
  <2> HIDE DEF edges
  <2> QED BY VerdictSays
<1>5. Complete(assets, edges) => OfType(assets, "SEGMENT") # {} /\ Untriggered(assets) = {}
  <2> HIDE DEF edges
  <2> QED BY DEF Complete, TriggerProbe
<1>6. ASSUME Complete(assets, edges)
      PROVE  /\ \E j \in DOMAIN assets : assets[j].type = "SEGMENT"
             /\ \A j \in DOMAIN assets : assets[j].type = "WORKFLOW" => assets[j].def.trigger.norm # ""
  <2>1. OfType(assets, "SEGMENT") # {} /\ Untriggered(assets) = {} BY <1>5, <1>6
  <2> QED BY <2>1 DEF OfType, Untriggered
<1>7. ASSUME _dependents_of(assets[i].id, edges) = {},
             NEW j \in 1..n, assets[j].type = "WORKFLOW", Names(assets[j], assets[i])
      PROVE  \E k \in (1..n) \ {i} : assets[k].type = assets[i].type /\ assets[k].name = assets[i].name
  <2>1. j \in OfType(assets, "WORKFLOW") BY <1>2, <1>7 DEF OfType
  <2> QED BY <1>2, <1>3, <1>7, <2>1, NamedIsUsed
<1> HIDE DEF v, edges
<1> QED BY <1>1, <1>2, <1>3, <1>4, <1>6, <1>7 DEF v, OnlyUnusedGo

(* The estate is one of those given, whatever happens.                                *)
LEMMA EstateStays == EstateSpec => [](estate \in Estates)
<1>1. EstateInit => estate \in Estates BY DEF EstateInit
<1>2. estate \in Estates /\ [EstateNext]_estateVars => (estate \in Estates)'
  BY DEF EstateNext, estateVars
<1> QED BY <1>1, <1>2, PTL DEF EstateSpec

(* Whatever the estate and the runs it is judged on, an asset is to be retired or merged *)
(* on a complete graph only, and none is to be retired that a workflow names, unless      *)
(* another of its type bears the name (_verdict_of, build_workflow_edges).              *)
THEOREM NothingUsedIsRetiredHolds == EstateSpec => []NothingUsedIsRetired
<1>1. HeldAsJudged /\ estate \in Estates => NothingUsedIsRetired
  <2> SUFFICES ASSUME HeldAsJudged, estate \in Estates, NEW a \in Jobs, Found(a),
                      NEW i \in DOMAIN HeldBy(a).assets
               PROVE  OnlyUnusedGo(HeldBy(a), i)
    BY Zenon DEF NothingUsedIsRetired, OnlyUnusedGo
  <2>1. HeldBy(a) = Assessed(estate, ResultsOf(jobs[a].result))
    BY DEF HeldAsJudged, Found, HeldBy
  <2> QED BY <2>1, RetiredIsUnused
<1> QED
  BY <1>1, EstateStays, HeldAsJudgedHolds, PTL

-----------------------------------------------------------------------------
(* Better data is never judged worse.                                                 *)

(* A run whose checks did no worse: it impairs no check the other does not, and fails   *)
(* none that the other only warns of.                                              *)
Milder(d, t) ==
  /\ DOMAIN d \subseteq DOMAIN t
  /\ \A c \in DOMAIN d : d[c] = "FAIL" => t[c] = "FAIL"

(* What does less harm is joined as a milder run.                                      *)
LEMMA LessHarmIsMilder ==
  ASSUME NEW r, NEW s, \A c \in DOMAIN r \cup DOMAIN s : HarmOf(r, c) <= HarmOf(s, c)
  PROVE  Milder(load_dcs_join(r), load_dcs_join(s))
<1>1. /\ Harm("FAIL") = 2 /\ Harm("WARN") = 1
      /\ \A x : x \notin {"FAIL", "WARN"} => Harm(x) = 0
  BY DEF Harm
<1>2. \A q : /\ DOMAIN load_dcs_join(q) = {c \in DOMAIN q : q[c] \in {"FAIL", "WARN"}}
             /\ \A c \in DOMAIN load_dcs_join(q) : load_dcs_join(q)[c] = q[c]
  BY DEF load_dcs_join, Restrict
<1>3. ASSUME NEW c \in DOMAIN load_dcs_join(r)
      PROVE  /\ c \in DOMAIN s /\ s[c] \in {"FAIL", "WARN"}
             /\ r[c] = "FAIL" => s[c] = "FAIL"
  <2>1. c \in DOMAIN r /\ r[c] \in {"FAIL", "WARN"} BY <1>2, <1>3
  <2>2. HarmOf(r, c) <= HarmOf(s, c) BY <2>1
  <2>3. HarmOf(r, c) = Harm(r[c]) BY <2>1 DEF HarmOf
  <2>4. c \in DOMAIN s /\ HarmOf(s, c) = Harm(s[c])
    <3>1. HarmOf(r, c) \in {1, 2} BY <1>1, <2>1, <2>3
    <3>2. c \notin DOMAIN s => HarmOf(s, c) = 0 BY DEF HarmOf
    <3>3. c \in DOMAIN s BY <2>2, <3>1, <3>2
    <3> QED BY <3>3 DEF HarmOf
  <2> DEFINE x == s[c]
  <2>5. Harm(r[c]) <= Harm(x) BY <2>2, <2>3, <2>4
  <2> HIDE DEF x
  <2>6. x \in {"FAIL", "WARN"} /\ (r[c] = "FAIL" => x = "FAIL")
    <3>1. x \notin {"FAIL", "WARN"} => Harm(x) = 0 BY <1>1
    <3>2. CASE r[c] = "FAIL"
      <4>1. Harm(x) >= 2 BY <1>1, <2>5, <3>2
      <4>2. x # "WARN" BY <1>1, <4>1
      <4> QED BY <3>1, <4>1, <4>2
    <3>3. CASE r[c] = "WARN"
      <4>1. Harm(x) >= 1 BY <1>1, <2>5, <3>3
      <4> QED BY <3>1, <3>3, <4>1
    <3> QED BY <2>1, <3>2, <3>3
  <2> QED BY <2>4, <2>6 DEF x
<1> QED BY <1>2, <1>3 DEF Milder

(* What is to be fixed first after the better run is to be fixed after the worse one.   *)
LEMMA FixesGrow ==
  ASSUME NEW d, NEW t, Milder(d, t), NEW a, NEW assets, NEW edges,
         _build_fix_first_map(a, assets, edges, d) # {}
  PROVE  _build_fix_first_map(a, assets, edges, t) # {}
<1>1. \A type, p, q : p \subseteq q => Joined(a, assets, edges, type, p) \subseteq Joined(a, assets, edges, type, q)
  BY DEF Joined
<1>2. \A p : DOMAIN d \cap p \subseteq DOMAIN t \cap p BY DEF Milder
<1>3. OtherFails(d) \subseteq OtherFails(t) BY DEF OtherFails, Milder
<1>4. {c \in DOMAIN d : _is_consent(c)} \subseteq {c \in DOMAIN t : _is_consent(c)} BY DEF Milder
<1>5. /\ Joined(a, assets, edges, "PROPERTY", DOMAIN d \cap _PROPERTY_CHECKS)
           \subseteq Joined(a, assets, edges, "PROPERTY", DOMAIN t \cap _PROPERTY_CHECKS)
      /\ Joined(a, assets, edges, "TAG", DOMAIN d \cap _TAG_CHECKS)
           \subseteq Joined(a, assets, edges, "TAG", DOMAIN t \cap _TAG_CHECKS)
  BY <1>1, <1>2
<1>6. _build_fix_first_map(a, assets, edges, d) \subseteq _build_fix_first_map(a, assets, edges, t)
  <2> DEFINE J(d_) == Joined(a, assets, edges, "PROPERTY", DOMAIN d_ \cap _PROPERTY_CHECKS)
             K(d_) == Joined(a, assets, edges, "TAG", DOMAIN d_ \cap _TAG_CHECKS)
             L(d_) == {c \in DOMAIN d_ : _is_consent(c)}
  <2>1. \A u : _build_fix_first_map(a, assets, edges, u)
                 = J(u) \cup K(u) \cup (IF a.type = "WORKFLOW" THEN L(u) \cup OtherFails(u) ELSE {})
    BY Zenon DEF _build_fix_first_map
  <2>2. J(d) \subseteq J(t) /\ K(d) \subseteq K(t) /\ L(d) \subseteq L(t) BY <1>4, <1>5
  <2> HIDE DEF J, K, L
  <2> QED BY <1>3, <2>1, <2>2
<1> QED BY <1>6

(* Subsets of a list's places are counted.                                           *)
LEMMA PlacesCount ==
  ASSUME NEW n \in Nat, NEW S \in SUBSET (1..n), NEW T \in SUBSET S
  PROVE  /\ Cardinality(S) \in Nat /\ Cardinality(T) \in Nat
         /\ Cardinality(T) <= Cardinality(S) /\ Cardinality(S) <= n
<1>1. IsFiniteSet(1..n) /\ Cardinality(1..n) = n BY FS_Interval
<1>2. IsFiniteSet(S) /\ Cardinality(S) <= n BY <1>1, FS_Subset
<1>3. IsFiniteSet(T) /\ Cardinality(T) <= Cardinality(S) BY <1>2, FS_Subset
<1> QED BY <1>2, <1>3, FS_CardinalityType

(* The weighted score of n assets without overlaps, of which f are to be fixed and k kept. *)
ScoreOf(n, base, f, k, x) ==
  (100 * (base + 50 * (n - f) + 30 * (n - 0) + n * x + 40 * k) + n) \div (2 * n)

(* The weighted score falls when a fix more is needed, an asset less is kept or the      *)
(* measurement fails.                                                              *)
LEMMA WeightFalls ==
  ASSUME NEW n \in Nat, n >= 1, NEW base \in Nat, NEW f \in 0..n, NEW g \in 0..n, f <= g,
         NEW k \in 0..n, NEW m \in 0..n, m <= k, NEW x \in {12, 30}, NEW y \in {12, 30}, y <= x
  PROVE  ScoreOf(n, base, g, m, y) <= ScoreOf(n, base, f, k, x)
<1> DEFINE p == base + 50 * (n - f) + 30 * (n - 0) + n * x + 40 * k
           q == base + 50 * (n - g) + 30 * (n - 0) + n * y + 40 * m
<1>1. n * y <= n * x /\ n * y \in Nat /\ n * x \in Nat
  <2>1. (x = 30 /\ y = 30) \/ (x = 30 /\ y = 12) \/ (x = 12 /\ y = 12) OBVIOUS
  <2> QED BY <2>1
<1>2. q <= p /\ p \in Nat /\ q \in Nat
  <2> DEFINE a == n * x
             b == n * y
  <2>1. b <= a /\ a \in Nat /\ b \in Nat BY <1>1
  <2> HIDE DEF a, b
  <2>2. base + 50 * (n - g) + 30 * (n - 0) + b + 40 * m <= base + 50 * (n - f) + 30 * (n - 0) + a + 40 * k
    BY <2>1
  <2>3. /\ base + 50 * (n - g) + 30 * (n - 0) + b + 40 * m \in Nat
        /\ base + 50 * (n - f) + 30 * (n - 0) + a + 40 * k \in Nat
    BY <2>1
  <2> QED BY <2>2, <2>3 DEF a, b
<1> HIDE DEF p, q
<1>3. ASSUME NEW s \in Nat, NEW t \in Nat, s <= t, NEW c \in Nat, c >= 1
      PROVE  s \div c <= t \div c
  <2> DEFINE u == s \div c
             v == t \div c
             cu == c * u
             cv == c * v
  <2>1. u \in Nat /\ v \in Nat /\ cu <= s /\ s < cu + c /\ cv <= t /\ t < cv + c BY <1>3
  <2>2. u >= v + 1 => cu >= cv + c
    <3> SUFFICES ASSUME u >= v + 1 PROVE c * u >= c * v + c OBVIOUS
    <3> DEFINE w == u - (v + 1)
    <3>1. w \in Nat /\ u = w + v + 1 BY <2>1
    <3> HIDE DEF w, u, v
    <3>2. c * u = c * w + c * v + c BY <1>3, <2>1, <3>1
    <3>3. c * w >= 0 /\ c * w \in Nat /\ c * v \in Nat BY <1>3, <2>1, <3>1
    <3> QED BY <3>2, <3>3
  <2>3. cu \in Nat /\ cv \in Nat BY <1>3, <2>1
  <2> HIDE DEF u, v, cu, cv
  <2>4. u <= v BY <1>3, <2>1, <2>2, <2>3
  <2> QED BY <2>4 DEF u, v
<1>4. (100 * q + n) \div (2 * n) <= (100 * p + n) \div (2 * n)
  <2>1. 100 * q + n \in Nat /\ 100 * p + n \in Nat /\ 100 * q + n <= 100 * p + n BY <1>2
  <2>2. 2 * n \in Nat /\ 2 * n >= 1 OBVIOUS
  <2> QED BY <1>3, <2>1, <2>2
<1> QED BY <1>4 DEF p, q, ScoreOf

(* Of two runs of an estate without overlaps the milder one is not told to rebuild more. *)
LEMMA MilderIsJudgedBetter ==
  ASSUME NEW assets, NEW n \in Nat, Len(assets) = n, DOMAIN assets = 1..n,
         NEW edges, NEW coverage, NEW d, NEW t, Milder(d, t), _overlap_clusters(assets) = {}
  PROVE  LET good == rollup_mode(coverage, assets, edges, assign_asset_verdicts(assets, edges, d), d)
             bad == rollup_mode(coverage, assets, edges, assign_asset_verdicts(assets, edges, t), t)
         IN /\ (good = "INCOMPLETE") = (bad = "INCOMPLETE")
            /\ good # "INCOMPLETE" => Rank[good] <= Rank[bad]
<1> DEFINE V(u) == assign_asset_verdicts(assets, edges, u)
           Fix(u) == {i \in 1..n : V(u)[i].verdict = "FIX_FIRST"}
           Kept(u) == {i \in 1..n : V(u)[i].verdict \in {"KEEP", "KEEP_IMPROVE"}}
           Harmed(u) == \E c \in DOMAIN u \cap _MEASUREMENT_CHECKS : u[c] = "FAIL"
           complete == Complete(assets, edges)
           fixed(u, i) == _build_fix_first_map(assets[i], assets, edges, u) # {}
           retirable(i) == /\ _is_dormant(assets[i]) \/ assets[i].type # "WORKFLOW"
                           /\ _dependents_of(assets[i].id, edges) = {}
           N == Max({n, 1})
           staged == Cardinality({i \in 1..n : assets[i].stage # 0})
           base == IF staged = 0 THEN 25 * N ELSE 50 * staged
           consent(u) == Cardinality(ConsentFails(u))
           W(u) == Weighted(assets, V(u), u)
<1>1. \A u : DOMAIN V(u) = 1..n /\ \A i \in 1..n : V(u)[i] = _verdict_of(i, assets, edges, u)
  BY DEF assign_asset_verdicts
<1>2. \A u, i : /\ _verdict_of(i, assets, edges, u).verdict = "FIX_FIRST" <=> fixed(u, i)
                /\ _verdict_of(i, assets, edges, u).verdict \in {"KEEP", "KEEP_IMPROVE"}
                     <=> ~fixed(u, i) /\ ~(retirable(i) /\ complete)
                /\ _verdict_of(i, assets, edges, u).verdict # "CONSOLIDATE"
                /\ _verdict_of(i, assets, edges, u).why # "Overlap"
  <2> TAKE u, i
  <2> DEFINE v == _verdict_of(i, assets, edges, u)
  <2>1. /\ v.verdict = "FIX_FIRST" <=> fixed(u, i)
        /\ v.verdict = "CONSOLIDATE" <=> ~fixed(u, i) /\ i \in _overlap_clusters(assets) /\ complete
        /\ v.verdict \in {"KEEP", "KEEP_IMPROVE"} <=>
             /\ ~fixed(u, i) /\ ~(i \in _overlap_clusters(assets) /\ complete)
             /\ ~(i \notin _overlap_clusters(assets) /\ retirable(i) /\ complete)
        /\ v.why = "Overlap" => i \in _overlap_clusters(assets)
    BY VerdictSays, Zenon
  <2>2. i \notin _overlap_clusters(assets) OBVIOUS
  <2> HIDE DEF v, fixed, retirable, complete
  <2>3. /\ v.verdict = "FIX_FIRST" <=> fixed(u, i)
        /\ v.verdict \in {"KEEP", "KEEP_IMPROVE"} <=> ~fixed(u, i) /\ ~(retirable(i) /\ complete)
        /\ v.verdict # "CONSOLIDATE" /\ v.why # "Overlap"
    BY <2>1, <2>2, Zenon
  <2> QED BY <2>3 DEF v
<1>3. \A i : fixed(d, i) => fixed(t, i) BY FixesGrow
<1>4. Fix(d) \subseteq Fix(t) /\ Kept(t) \subseteq Kept(d)
  <2> HIDE DEF V, fixed, retirable, complete
  <2> QED BY <1>1, <1>2, <1>3
<1>5. Harmed(d) => Harmed(t) BY DEF Milder
<1>6. /\ consent(d) \in Nat /\ consent(t) \in Nat /\ consent(d) <= consent(t)
      /\ ConsentFails(d) # {} => consent(d) >= 1
      /\ ConsentFails(t) # {} <=> consent(t) >= 1
  <2>1. ConsentFails(d) \subseteq ConsentFails(t) /\ ConsentFails(t) \subseteq Consents
    BY DEF ConsentFails, Milder, _is_consent
  <2>2. IsFiniteSet(ConsentFails(t)) BY <2>1, ConsentsAssumption, FS_Subset
  <2>3. IsFiniteSet(ConsentFails(d)) /\ consent(d) <= consent(t) BY <2>1, <2>2, FS_Subset
  <2>4. consent(d) \in Nat /\ consent(t) \in Nat BY <2>2, <2>3, FS_CardinalityType
  <2>5. (consent(d) = 0 <=> ConsentFails(d) = {}) /\ (consent(t) = 0 <=> ConsentFails(t) = {})
    BY <2>2, <2>3, FS_EmptySet
  <2> HIDE DEF consent
  <2> QED BY <2>3, <2>4, <2>5
<1>7. \A u : Colliding(V(u)) = 0
  <2> TAKE u
  <2>1. {i \in DOMAIN V(u) : V(u)[i].verdict = "CONSOLIDATE" \/ V(u)[i].why = "Overlap"} = {}
    <3> HIDE DEF V
    <3> QED BY <1>1, <1>2
  <2> HIDE DEF V
  <2> QED BY <2>1, FS_EmptySet DEF Colliding
<1>8. CriticalDefects(V(d), d) = consent(d) /\ CriticalDefects(V(t), t) = consent(t)
  <2>1. \A u : CriticalDefects(V(u), u) = consent(u) + (IF Colliding(V(u)) >= 3 THEN 1 ELSE 0)
    BY Zenon DEF CriticalDefects
  <2> HIDE DEF V, consent
  <2>2. \A u : ~(Colliding(V(u)) >= 3) BY <1>7
  <2> QED BY <1>6, <2>1, <2>2
<1>9. N \in Nat /\ N >= 1 /\ N >= n
  <2>1. {n, 1} \in SUBSET Int /\ {n, 1} # {} OBVIOUS
  <2>2. IsFiniteSet({n, 1})
    <3>1. IsFiniteSet(0..(n + 1)) BY FS_Interval
    <3>2. {n, 1} \subseteq 0..(n + 1) OBVIOUS
    <3> QED BY <3>1, <3>2, FS_Subset
  <2>3. N \in {n, 1} /\ \A y \in {n, 1} : y <= N BY <2>1, <2>2, MaxOfFinite
  <2> HIDE DEF N
  <2> QED BY <2>3
<1>10. /\ Cardinality(Fix(d)) \in 0..N /\ Cardinality(Fix(t)) \in 0..N
       /\ Cardinality(Fix(d)) <= Cardinality(Fix(t))
       /\ Cardinality(Kept(d)) \in 0..N /\ Cardinality(Kept(t)) \in 0..N
       /\ Cardinality(Kept(t)) <= Cardinality(Kept(d))
       /\ base \in Nat
  <2>1. Fix(t) \subseteq 1..n /\ Kept(d) \subseteq 1..n OBVIOUS
  <2>2. {i \in 1..n : assets[i].stage # 0} \subseteq 1..n OBVIOUS
  <2>3. staged \in Nat
    <3> DEFINE S == {i \in 1..n : assets[i].stage # 0}
    <3>1. S \in SUBSET (1..n) /\ {} \in SUBSET S OBVIOUS
    <3> HIDE DEF S
    <3>2. Cardinality(S) \in Nat BY <3>1, PlacesCount
    <3> QED BY <3>2 DEF S
  <2> HIDE DEF N, staged, Fix, Kept
  <2>4. /\ Cardinality(Fix(d)) \in Nat /\ Cardinality(Fix(t)) \in Nat
        /\ Cardinality(Fix(d)) <= Cardinality(Fix(t)) /\ Cardinality(Fix(t)) <= n
    BY <1>4, <2>1, PlacesCount
  <2>5. /\ Cardinality(Kept(d)) \in Nat /\ Cardinality(Kept(t)) \in Nat
        /\ Cardinality(Kept(t)) <= Cardinality(Kept(d)) /\ Cardinality(Kept(d)) <= n
    BY <1>4, <2>1, PlacesCount
  <2>6. base \in Nat BY <1>9, <2>3
  <2> QED BY <1>9, <2>4, <2>5, <2>6
<1> DEFINE Of(f, k, m) == ScoreOf(N, base, f, k, m)
           rate(u) == IF Harmed(u) THEN 12 ELSE 30
<1>11. \A u : W(u) = Of(Cardinality(Fix(u)), Cardinality(Kept(u)), rate(u))
  <2> TAKE u
  <2>1. Among(V(u), {"FIX_FIRST"}) = Cardinality(Fix(u)) /\ Among(V(u), {"KEEP", "KEEP_IMPROVE"}) = Cardinality(Kept(u))
    <3>1. Fix(u) = {i \in DOMAIN V(u) : V(u)[i].verdict \in {"FIX_FIRST"}}
      <4> HIDE DEF V
      <4> QED BY <1>1
    <3>2. Kept(u) = {i \in DOMAIN V(u) : V(u)[i].verdict \in {"KEEP", "KEEP_IMPROVE"}}
      <4> HIDE DEF V
      <4> QED BY <1>1
    <3> HIDE DEF V, Fix, Kept
    <3> QED BY <3>1, <3>2, Zenon DEF Among
  <2>2. Colliding(V(u)) = 0 BY <1>7
  <2>3. W(u) = (100 * ((IF staged = 0 THEN 25 * N ELSE 50 * staged)
                         + 50 * (N - Among(V(u), {"FIX_FIRST"})) + 30 * (N - Colliding(V(u)))
                         + N * (IF Harmed(u) THEN 12 ELSE 30)
                         + 40 * Among(V(u), {"KEEP", "KEEP_IMPROVE"})) + N) \div (2 * N)
    <3> DEFINE M == Max({Len(assets), 1})
               placed == Cardinality({i \in DOMAIN assets : assets[i].stage # 0})
    <3>1. M = N /\ placed = staged OBVIOUS
    <3>2. W(u) = (100 * ((IF placed = 0 THEN 25 * M ELSE 50 * placed)
                           + 50 * (M - Among(V(u), {"FIX_FIRST"})) + 30 * (M - Colliding(V(u)))
                           + M * (IF Harmed(u) THEN 12 ELSE 30)
                           + 40 * Among(V(u), {"KEEP", "KEEP_IMPROVE"})) + M) \div (2 * M)
      BY DEF Weighted
    <3> HIDE DEF W, V, N, staged, Harmed, M, placed
    <3> QED BY <3>1, <3>2, Zenon
  <2> HIDE DEF W, V, N, staged, Harmed, Fix, Kept
  <2> DEFINE f == Cardinality(Fix(u))
             k == Cardinality(Kept(u))
             m == rate(u)
  <2>4. W(u) = (100 * (base + 50 * (N - f) + 30 * (N - 0) + N * m + 40 * k) + N) \div (2 * N)
    <3>1. f = Among(V(u), {"FIX_FIRST"}) /\ k = Among(V(u), {"KEEP", "KEEP_IMPROVE"}) BY <2>1
    <3> HIDE DEF f, k
    <3> QED BY <2>2, <2>3, <3>1
  <2> HIDE DEF base, f, k, m
  <2>5. W(u) = Of(f, k, m) BY <2>4, Zenon DEF ScoreOf
  <2> HIDE DEF Of
  <2> QED BY <2>5 DEF f, k, m
<1>12. W(t) <= W(d)
  <2> HIDE DEF W, V, Fix, Kept, Harmed, N, base
  <2>1. rate(d) \in {12, 30} /\ rate(t) \in {12, 30} /\ rate(t) <= rate(d) BY <1>5
  <2> HIDE DEF rate
  <2> DEFINE f == Cardinality(Fix(d))
             g == Cardinality(Fix(t))
             k == Cardinality(Kept(d))
             m == Cardinality(Kept(t))
             x == rate(d)
             y == rate(t)
  <2>2. W(d) = Of(f, k, x) /\ W(t) = Of(g, m, y) BY <1>11, Zenon
  <2>3. /\ f \in 0..N /\ g \in 0..N /\ f <= g /\ k \in 0..N /\ m \in 0..N /\ m <= k
        /\ x \in {12, 30} /\ y \in {12, 30} /\ y <= x
    BY <1>10, <2>1
  <2> HIDE DEF f, g, k, m, x, y
  <2>4. ScoreOf(N, base, g, m, y) <= ScoreOf(N, base, f, k, x)
    <3>1. N \in Nat /\ N >= 1 /\ base \in Nat BY <1>9, <1>10
    <3> QED BY <2>3, <3>1, WeightFalls
  <2> HIDE DEF Of
  <2>5. Of(g, m, y) <= Of(f, k, x) BY <2>4, Zenon DEF Of
  <2> QED BY <2>2, <2>5
<1>13. W(d) \in Int /\ W(t) \in Int
  <2> HIDE DEF W, V, Fix, Kept, Harmed, N, base
  <2>1. rate(d) \in Nat /\ rate(t) \in Nat OBVIOUS
  <2> HIDE DEF rate
  <2>2. \A f, k \in 0..N : \A m \in Nat : Of(f, k, m) \in Int
    <3> TAKE f, k \in 0..N
    <3> TAKE m \in Nat
    <3> DEFINE y == N * m
    <3>1. y \in Nat BY <1>9
    <3> HIDE DEF y
    <3>2. 100 * (base + 50 * (N - f) + 30 * (N - 0) + y + 40 * k) + N \in Int BY <1>9, <1>10, <3>1
    <3> DEFINE x == 100 * (base + 50 * (N - f) + 30 * (N - 0) + y + 40 * k) + N
    <3> HIDE DEF x
    <3>3. x \div (2 * N) \in Int BY <1>9, <3>2 DEF x
    <3> QED BY <3>3 DEF x, y, ScoreOf
  <2> HIDE DEF Of
  <2> QED BY <1>10, <1>11, <2>1, <2>2
<1> DEFINE mode(u) == rollup_mode(coverage, assets, edges, V(u), u)
           blocked == coverage < 576 \/ ~complete
<1>14. \A u : CriticalDefects(V(u), u) = consent(u) =>
                mode(u) = IF blocked THEN "INCOMPLETE"
                          ELSE CASE consent(u) >= 2 \/ W(u) < 5000 -> "REBUILD"
                                 [] ~(consent(u) >= 2 \/ W(u) < 5000) /\ (consent(u) = 1 \/ W(u) < 7000) -> "SELECTIVE_REBUILD"
                                 [] OTHER -> IF ConsentFails(u) # {} THEN "SELECTIVE_REBUILD" ELSE "AUGMENT"
  <2> TAKE u
  <2>1. mode(u) = IF blocked THEN "INCOMPLETE"
                  ELSE CASE CriticalDefects(V(u), u) >= 2 \/ W(u) < 5000 -> "REBUILD"
                         [] ~(CriticalDefects(V(u), u) >= 2 \/ W(u) < 5000)
                              /\ (CriticalDefects(V(u), u) = 1 \/ W(u) < 7000) -> "SELECTIVE_REBUILD"
                         [] OTHER -> IF ConsentFails(u) # {} THEN "SELECTIVE_REBUILD" ELSE "AUGMENT"
    BY DEF rollup_mode
  <2> HIDE DEF mode, W, V, consent, blocked
  <2> QED BY <2>1
<1>15. /\ Rank["AUGMENT"] = 0 /\ Rank["SELECTIVE_REBUILD"] = 1 /\ Rank["REBUILD"] = 2
  BY DEF Rank
<1>16. /\ (mode(d) = "INCOMPLETE") = (mode(t) = "INCOMPLETE")
       /\ mode(d) # "INCOMPLETE" => Rank[mode(d)] <= Rank[mode(t)]
  <2> HIDE DEF mode, W, V, consent, blocked
  <2> DEFINE said(c, w, failed) ==
               CASE c >= 2 \/ w < 5000 -> "REBUILD"
                 [] ~(c >= 2 \/ w < 5000) /\ (c = 1 \/ w < 7000) -> "SELECTIVE_REBUILD"
                 [] OTHER -> IF failed THEN "SELECTIVE_REBUILD" ELSE "AUGMENT"
  <2>1. /\ mode(d) = IF blocked THEN "INCOMPLETE" ELSE said(consent(d), W(d), ConsentFails(d) # {})
        /\ mode(t) = IF blocked THEN "INCOMPLETE" ELSE said(consent(t), W(t), ConsentFails(t) # {})
    BY <1>8, <1>14
  <2>2. \A c, w, failed : /\ said(c, w, failed) \in {"REBUILD", "SELECTIVE_REBUILD", "AUGMENT"}
                          /\ said(c, w, failed) = "REBUILD" <=> c >= 2 \/ w < 5000
                          /\ said(c, w, failed) = "AUGMENT"
                               <=> ~(c >= 2 \/ w < 5000) /\ ~(c = 1 \/ w < 7000) /\ ~failed
    OBVIOUS
  <2> HIDE DEF said
  <2> DEFINE x == said(consent(d), W(d), ConsentFails(d) # {})
             y == said(consent(t), W(t), ConsentFails(t) # {})
  <2>3. x = "REBUILD" => y = "REBUILD" BY <1>6, <1>12, <1>13, <2>2
  <2>4. y = "AUGMENT" => x = "AUGMENT" BY <1>6, <1>12, <1>13, <2>2
  <2>5. x \in {"REBUILD", "SELECTIVE_REBUILD", "AUGMENT"} /\ y \in {"REBUILD", "SELECTIVE_REBUILD", "AUGMENT"}
    BY <2>2
  <2> HIDE DEF x, y
  <2>6. Rank[x] <= Rank[y] /\ x # "INCOMPLETE" /\ y # "INCOMPLETE" BY <1>15, <2>3, <2>4, <2>5
  <2> QED BY <2>1, <2>6 DEF x, y
<1> QED BY <1>16

(* What may be said of two assessments of an estate.                                  *)
NotJudgedWorse(good, bad) ==
  /\ (good.mode = "INCOMPLETE") = (bad.mode = "INCOMPLETE")
  /\ good.mode # "INCOMPLETE" => Rank[good.mode] <= Rank[bad.mode]

(* Two assessments of an estate on two runs.                                          *)
LEMMA MilderRunsAreJudgedBetter ==
  ASSUME NEW e \in Estates, NEW r, NEW s, \A c \in DOMAIN r \cup DOMAIN s : HarmOf(r, c) <= HarmOf(s, c),
         _overlap_clusters(Assessed(e, r).assets) = {}
  PROVE  NotJudgedWorse(Assessed(e, r), Assessed(e, s))
<1> DEFINE assets == run_phase_b_inventory(e)
           edges == build_workflow_edges(assets)
           coverage == _blend_coverage(e, assets, edges)
           d == load_dcs_join(r)
           t == load_dcs_join(s)
           n == Len(assets)
<1>1. Milder(d, t) BY LessHarmIsMilder
<1>2. n \in Nat /\ DOMAIN assets = 1..n
  <2> HIDE DEF assets
  <2> QED BY InventoryIsList DEF assets
<1>3. /\ Assessed(e, r).assets = assets
      /\ Assessed(e, r).mode = rollup_mode(coverage, assets, edges, assign_asset_verdicts(assets, edges, d), d)
      /\ Assessed(e, s).mode = rollup_mode(coverage, assets, edges, assign_asset_verdicts(assets, edges, t), t)
  BY DEF Assessed
<1> DEFINE x == rollup_mode(coverage, assets, edges, assign_asset_verdicts(assets, edges, d), d)
           y == rollup_mode(coverage, assets, edges, assign_asset_verdicts(assets, edges, t), t)
<1>4. _overlap_clusters(assets) = {} BY <1>3
<1> HIDE DEF assets, edges, coverage, d, t
<1>5. (x = "INCOMPLETE") = (y = "INCOMPLETE") /\ (x # "INCOMPLETE" => Rank[x] <= Rank[y])
  BY <1>1, <1>2, <1>4, MilderIsJudgedBetter
<1> HIDE DEF x, y
<1> QED BY <1>3, <1>5 DEF NotJudgedWorse, x, y

(* Of two assessments of any estate without overlaps, the one whose run did no check     *)
(* worse is not told to rebuild more (rollup_mode).                                   *)
THEOREM BetterDataNeverJudgedWorseHolds == EstateSpec => []BetterDataNeverJudgedWorse
<1>1. HeldAsJudged /\ estate \in Estates => BetterDataNeverJudgedWorse
  <2> SUFFICES ASSUME HeldAsJudged, estate \in Estates, NEW a \in Jobs, NEW b \in Jobs, Found(a), Found(b),
                      \A c \in DOMAIN ResultsOf(jobs[a].result) \cup DOMAIN ResultsOf(jobs[b].result) :
                        HarmOf(ResultsOf(jobs[a].result), c) <= HarmOf(ResultsOf(jobs[b].result), c),
                      _overlap_clusters(HeldBy(a).assets) = {}
               PROVE  NotJudgedWorse(HeldBy(a), HeldBy(b))
    BY Zenon DEF BetterDataNeverJudgedWorse, NotJudgedWorse
  <2>1. \A x \in {a, b} : HeldBy(x) = Assessed(estate, ResultsOf(jobs[x].result))
    BY DEF HeldAsJudged, Found, HeldBy
  <2>2. NotJudgedWorse(Assessed(estate, ResultsOf(jobs[a].result)), Assessed(estate, ResultsOf(jobs[b].result)))
    BY <2>1, MilderRunsAreJudgedBetter
  <2> QED BY <2>1, <2>2
<1> QED
  BY <1>1, EstateStays, HeldAsJudgedHolds, PTL

-----------------------------------------------------------------------------
(* Sums, with the fold of the community modules, and the parts they add up.             *)

(* Sums. A fold over a set is a recursive function: that it exists, and what it gives. *)

(* What the recursive function of a fold gives, subset by subset.                  *)
Picked(s) == CHOOSE x \in s : TRUE
IsSumOf(it, w, S) ==
  it = [s \in SUBSET S |-> IF s = {} THEN 0 ELSE w[Picked(s)] + it[s \ {Picked(s)}]]
Total(w, S) == (CHOOSE it : IsSumOf(it, w, S))[S]

(* The community modules sum by the recursive function of their fold.                 *)
LEMMA SumUnfolds ==
  ASSUME NEW w
  PROVE  SumFunction(w) = Total(w, DOMAIN w)
BY Zenon DEF SumFunction, SumFunctionOnSet, FoldFunctionOnSet, MapThenFoldSet, IsSumOf, Total, Picked

(* A set that is not empty has the element that the fold picks from it.               *)
LEMMA PickedIsIn ==
  ASSUME NEW s, s # {}
  PROVE  Picked(s) \in s
BY DEF Picked

(* The function adds what is picked to the sum of the rest.                           *)
LEMMA SumSteps ==
  ASSUME NEW w, NEW S, NEW it, IsSumOf(it, w, S), NEW s, s \subseteq S
  PROVE  it[s] = IF s = {} THEN 0 ELSE w[Picked(s)] + it[s \ {Picked(s)}]
BY Zenon DEF IsSumOf

(* Two such functions agree on the sets that both tell of.                            *)
LEMMA SumUnique ==
  ASSUME NEW w, NEW S, IsFiniteSet(S), NEW i, IsSumOf(i, w, S),
         NEW R, NEW j, IsSumOf(j, w, R), NEW s, s \subseteq S, s \subseteq R
  PROVE  i[s] = j[s]
<1> DEFINE Bad == {t \in SUBSET S : t \subseteq R /\ i[t] # j[t]}
<1>1. ASSUME Bad # {} PROVE FALSE
  <2>1. PICK t : IsSmallest(t, Bad)
    <3>1. \A t \in Bad : t \subseteq S OBVIOUS
    <3>2. Bad # {} BY <1>1
    <3> HIDE DEF Bad
    <3> QED BY <3>1, <3>2, Smallest, Zenon
  <2>2. t \subseteq S /\ t \subseteq R /\ i[t] # j[t] BY <2>1 DEF IsSmallest
  <2>3. /\ i[t] = IF t = {} THEN 0 ELSE w[Picked(t)] + i[t \ {Picked(t)}]
        /\ j[t] = IF t = {} THEN 0 ELSE w[Picked(t)] + j[t \ {Picked(t)}]
    BY <2>2, SumSteps
  <2>4. t # {} BY <2>2, <2>3
  <2>5. Picked(t) \in t BY <2>4, PickedIsIn
  <2> DEFINE u == t \ {Picked(t)}
  <2>6. u \subseteq t /\ u # t BY <2>5
  <2>7. u \notin Bad
    <3> HIDE DEF u, Bad
    <3> QED BY <2>1, <2>6 DEF IsSmallest
  <2>8. i[u] = j[u] BY <2>7, <2>2
  <2> QED BY <2>2, <2>3, <2>4, <2>8
<1> QED BY <1>1

(* There is such a function on the subsets of every finite set.                       *)
LEMMA SumExists ==
  ASSUME NEW w, NEW S, IsFiniteSet(S)
  PROVE  \E it : IsSumOf(it, w, S)
<1> DEFINE Bad == {t \in SUBSET S : ~\E it : IsSumOf(it, w, t)}
<1>1. ASSUME Bad # {} PROVE FALSE
  <2>1. PICK t : IsSmallest(t, Bad)
    <3>1. \A t \in Bad : t \subseteq S OBVIOUS
    <3>2. Bad # {} BY <1>1
    <3> HIDE DEF Bad
    <3> QED BY <3>1, <3>2, Smallest, Zenon
  <2>2. t \subseteq S /\ ~\E it : IsSumOf(it, w, t) BY <2>1 DEF IsSmallest
  <2>3. \A u : u \subseteq t /\ u # t => \E it : IsSumOf(it, w, u)
    BY <2>1 DEF IsSmallest
  <2>4. \A u : u \subseteq t /\ u # t => IsSumOf(CHOOSE it : IsSumOf(it, w, u), w, u)
    BY <2>3, Zenon
  <2>5. \A u : u \subseteq t => IsFiniteSet(u)
    BY <2>2, FS_Subset
  <2> DEFINE it == [s \in SUBSET t |->
                      IF s = {} THEN 0 ELSE w[Picked(s)] + Total(w, s \ {Picked(s)})]
  <2>6. ASSUME NEW s, s \subseteq t, s # t
        PROVE  Total(w, s) = it[s]
    <3>1. IsSumOf(CHOOSE i : IsSumOf(i, w, s), w, s) BY <2>4, <2>6
    <3> DEFINE i == CHOOSE i : IsSumOf(i, w, s)
    <3>2. i[s] = IF s = {} THEN 0 ELSE w[Picked(s)] + i[s \ {Picked(s)}]
      <4> HIDE DEF i
      <4>1. s \subseteq s OBVIOUS
      <4>2. IsSumOf(i, w, s) BY <3>1 DEF i
      <4> QED BY <4>1, <4>2, SumSteps
    <3>3. Total(w, s) = i[s] BY DEF Total
    <3>4. it[s] = IF s = {} THEN 0 ELSE w[Picked(s)] + Total(w, s \ {Picked(s)})
      BY <2>6
    <3> DEFINE u == s \ {Picked(s)}
    <3>5. ASSUME s # {} PROVE i[u] = Total(w, u)
      <4>1. Picked(s) \in s BY <3>5, PickedIsIn
      <4>2. u \subseteq s /\ u \subseteq t /\ u # t BY <4>1, <2>6
      <4> DEFINE j == CHOOSE j : IsSumOf(j, w, u)
      <4> HIDE DEF u
      <4>3. IsSumOf(j, w, u) BY <4>2, <2>4, Zenon
      <4>4. u \subseteq u /\ IsFiniteSet(s) BY <2>5, <2>6
      <4>5. IsSumOf(i, w, s) BY <3>1
      <4>6. Total(w, u) = j[u] BY DEF Total
      <4> HIDE DEF i, j
      <4>7. i[u] = j[u] BY <4>2, <4>3, <4>4, <4>5, SumUnique
      <4> QED BY <4>6, <4>7
    <3> HIDE DEF i, it
    <3> QED BY <3>2, <3>3, <3>4, <3>5
  <2>7. IsSumOf(it, w, t)
    <3>1. ASSUME NEW s \in SUBSET t
          PROVE  it[s] = IF s = {} THEN 0 ELSE w[Picked(s)] + it[s \ {Picked(s)}]
      <4>1. it[s] = IF s = {} THEN 0 ELSE w[Picked(s)] + Total(w, s \ {Picked(s)})
        BY <3>1
      <4>2. ASSUME s # {} PROVE Total(w, s \ {Picked(s)}) = it[s \ {Picked(s)}]
        <5>1. Picked(s) \in s BY <4>2, PickedIsIn
        <5>2. s \ {Picked(s)} \subseteq t /\ s \ {Picked(s)} # t BY <5>1
        <5> HIDE DEF it
        <5> QED BY <5>2, <2>6
      <4> HIDE DEF it
      <4> QED BY <4>1, <4>2
    <3>2. it = [s \in SUBSET t |-> it[s]] OBVIOUS
    <3> HIDE DEF it
    <3> QED BY <3>1, <3>2 DEF IsSumOf
  <2> QED BY <2>2, <2>7
<1> QED BY <1>1

(* So the sum of a finite set is what is picked and the sum of the rest.              *)
LEMMA TotalSteps ==
  ASSUME NEW w, NEW S, IsFiniteSet(S)
  PROVE  /\ S = {} => Total(w, S) = 0
         /\ S # {} => /\ Picked(S) \in S
                      /\ Total(w, S) = w[Picked(S)] + Total(w, S \ {Picked(S)})
<1> DEFINE u == S \ {Picked(S)}
           i == CHOOSE i : IsSumOf(i, w, S)
           j == CHOOSE j : IsSumOf(j, w, u)
<1>1. IsFiniteSet(u) /\ u \subseteq S BY FS_Subset
<1>2. IsSumOf(i, w, S)
  BY SumExists
<1>3. IsSumOf(j, w, u)
  <2> HIDE DEF u
  <2> QED BY <1>1, SumExists
<1>4. Total(w, S) = i[S] /\ Total(w, u) = j[u] BY DEF Total
<1> HIDE DEF i, j
<1>5. i[S] = IF S = {} THEN 0 ELSE w[Picked(S)] + i[u]
  <2>1. S \subseteq S OBVIOUS
  <2> QED BY <1>2, <2>1, SumSteps
<1>6. i[u] = j[u]
  <2> HIDE DEF u
  <2>1. u \subseteq u OBVIOUS
  <2> QED BY <1>1, <1>2, <1>3, <2>1, SumUnique
<1>7. S # {} => Picked(S) \in S BY PickedIsIn
<1> QED BY <1>4, <1>5, <1>6, <1>7

(* The parts of a whole: they are finite and do not meet.                              *)
AreParts(F, K) ==
  /\ IsFiniteSet(K) /\ \A k \in K : IsFiniteSet(F[k])
  /\ \A k, l \in K : k # l => F[k] \cap F[l] = {}
Whole(F, K) == UNION {F[k] : k \in K}

(* The sizes of the parts add up to that of the whole.                                *)
LEMMA PartsAddUp ==
  ASSUME NEW K, NEW F, AreParts(F, K), NEW w, \A k \in K : w[k] = Cardinality(F[k])
  PROVE  IsFiniteSet(Whole(F, K)) /\ Cardinality(Whole(F, K)) = Total(w, K)
<1> DEFINE Good(t) == IsFiniteSet(Whole(F, t)) /\ Cardinality(Whole(F, t)) = Total(w, t)
           Bad == {t \in SUBSET K : ~Good(t)}
<1>1. ASSUME Bad # {} PROVE FALSE
  <2>1. PICK t : IsSmallest(t, Bad)
    <3>1. \A t \in Bad : t \subseteq K OBVIOUS
    <3>2. Bad # {} BY <1>1
    <3>3. IsFiniteSet(K) BY DEF AreParts
    <3> HIDE DEF Bad
    <3> QED BY <3>1, <3>2, <3>3, Smallest, Zenon
  <2>2. t \subseteq K /\ ~Good(t) BY <2>1 DEF IsSmallest
  <2>3. IsFiniteSet(t) BY <2>2, FS_Subset DEF AreParts
  <2> DEFINE p == Picked(t)
             u == t \ {p}
  <2>4. CASE t = {}
    <3>1. Total(w, t) = 0 BY <2>3, <2>4, TotalSteps
    <3>2. Whole(F, t) = {} BY <2>4 DEF Whole
    <3> QED BY <2>2, <3>1, <3>2, FS_EmptySet
  <2>5. CASE t # {}
    <3>1. p \in t BY <2>5, PickedIsIn
    <3>2. u \subseteq t /\ u # t BY <3>1
    <3>3. Good(u)
      <4> HIDE DEF u, Good
      <4> QED BY <2>1, <2>2, <3>2 DEF IsSmallest
    <3>4. Total(w, t) = w[p] + Total(w, u) BY <2>3, <2>5, TotalSteps
    <3> HIDE DEF p
    <3>5. Whole(F, t) = F[p] \cup Whole(F, u) /\ F[p] \cap Whole(F, u) = {}
      BY <2>2, <3>1 DEF Whole, AreParts
    <3>6. IsFiniteSet(F[p]) /\ w[p] = Cardinality(F[p]) BY <2>2, <3>1 DEF AreParts
    <3> HIDE DEF u
    <3> DEFINE x == F[p]
               y == Whole(F, u)
    <3>7. /\ IsFiniteSet(x) /\ IsFiniteSet(y) /\ x \cap y = {} /\ Whole(F, t) = x \cup y
          /\ Cardinality(y) = Total(w, u) /\ Total(w, t) = Cardinality(x) + Total(w, u)
      BY <3>3, <3>4, <3>5, <3>6
    <3> HIDE DEF x, y
    <3>8. IsFiniteSet(x \cup y) /\ Cardinality(x \cup y) = Cardinality(x) + Cardinality(y)
      <4>1. IsFiniteSet(x \cup y)
            /\ Cardinality(x \cup y) = Cardinality(x) + Cardinality(y) - Cardinality(x \cap y)
        BY <3>7, FS_Union
      <4>2. Cardinality(x \cap y) = 0 BY <3>7, FS_EmptySet
      <4>3. Cardinality(x) \in Nat /\ Cardinality(y) \in Nat BY <3>7, FS_CardinalityType
      <4> QED BY <4>1, <4>2, <4>3
    <3> QED BY <2>2, <3>7, <3>8
  <2> QED BY <2>4, <2>5
<1>2. Good(K) BY <1>1
<1> QED BY <1>2

-----------------------------------------------------------------------------
(* The pages tell what is stored.                                                     *)

(* Each stage is on one card.                                                        *)
CardOf(s) == FE_PHASE_CARD_KEYS[Phase[s]]
StagesOf(k) == {s \in Stages : CardOf(s) = k}

LEMMA StagesAreShared == \A s \in Stages : CardOf(s) \in Cards
<1> SUFFICES ASSUME NEW s \in Stages PROVE CardOf(s) \in Cards OBVIOUS
<1> DEFINE names == {"Acquisition", "Activation", "Repeat", "Retention", "Loyalty", "Expansion", "Reactivation"}
<1>1. s \in Int /\ 1 <= s /\ s <= 16 BY DEF Stages
<1>2. Phase[s] = CASE s <= 2 -> "Acquisition" [] s \in 3..5 -> "Activation" [] s \in 6..8 -> "Repeat"
                   [] s \in 9..11 -> "Retention" [] s \in 12..13 -> "Loyalty"
                   [] s \in 14..15 -> "Expansion" [] s = 16 -> "Reactivation"
  BY Zenon DEF Phase
<1>3. Phase[s] \in names
  <2>1. s <= 2 \/ s \in 3..5 \/ s \in 6..8 \/ s \in 9..11 \/ s \in 12..13 \/ s \in 14..15 \/ s = 16 BY <1>1
  <2> DEFINE p == Phase[s]
  <2> HIDE DEF p
  <2> QED BY <1>2, <2>1 DEF p
<1> DEFINE p == Phase[s]
<1>4. p \in {Phase[t] : t \in Stages} OBVIOUS
<1>5. FE_PHASE_CARD_KEYS[p] =
        CASE p = "Acquisition" -> "acq" [] p \in {"Activation", "Repeat"} -> "act" [] p = "Loyalty" -> "loy"
          [] p = "Expansion" -> "exp" [] p \in {"Retention", "Reactivation"} -> "ret"
  <2> HIDE DEF p
  <2> QED BY <1>4, Zenon DEF FE_PHASE_CARD_KEYS
<1> HIDE DEF p
<1>6. FE_PHASE_CARD_KEYS[p] \in Cards BY <1>3, <1>5 DEF p, Cards
<1> QED BY <1>6 DEF p, CardOf

(* There are sixteen stages ...                                                      *)
LEMMA StagesAreFinite == IsFiniteSet(Stages)
<1> DEFINE n == 16
<1>1. n \in Int OBVIOUS
<1>2. Stages = 1..n BY DEF Stages
<1> HIDE DEF n
<1> QED BY <1>1, <1>2, FS_Interval

(* ... and five cards.                                                               *)
LEMMA CardsAreFinite == IsFiniteSet(Cards)
<1>1. \A S, x : IsFiniteSet(S) => IsFiniteSet(S \cup {x}) BY FS_AddElement
<1>2. IsFiniteSet({}) BY FS_EmptySet
<1> DEFINE c == ((({} \cup {"acq"}) \cup {"act"}) \cup {"exp"}) \cup {"loy"}
<1>3. IsFiniteSet(c) BY <1>1, <1>2
<1>4. Cards = c \cup {"ret"} BY DEF Cards
<1> HIDE DEF c
<1> QED BY <1>1, <1>3, <1>4

(* What is counted by stage: what has no stage is left over.                          *)
CardsAddUp(h, page) ==
  /\ Cardinality(page.unassigned) + SumFunction([k \in Cards |-> Cardinality(page.cards[k].assets)]) = Len(h.assets)
  /\ SumFunction([k \in Cards |-> page.cards[k].stages]) = Cardinality(Stages)
  /\ SumFunction([k \in Cards |-> page.cards[k].gaps]) = Cardinality(h.gaps) /\ page.gaps = h.gaps

(* The cards of an assessment do so.                                                  *)
LEMMA CardsTell ==
  ASSUME NEW e \in Estates, NEW results, NEW h, h = Assessed(e, results),
         NEW page, page = build_coverage_payload(h)
  PROVE  CardsAddUp(h, page)
<1> DEFINE assets == h.assets
           n == Len(assets)
           empty(s) == Staged(h, s) = {}
           A == [k \in Cards |-> UNION {Staged(h, s) : s \in StagesOf(k)}]
           S == [k \in Cards |-> StagesOf(k)]
           G == [k \in Cards |-> {s \in StagesOf(k) : empty(s)}]
<1>1. n \in Nat /\ DOMAIN assets = 1..n /\ \A i \in 1..n : assets[i].stage \in 0..16
  <2>1. h.assets = run_phase_b_inventory(e) BY DEF Assessed
  <2> QED BY <2>1, InventoryIsList
<1>2. /\ page.unassigned = Staged(h, 0) /\ page.gaps = {s \in Stages : empty(s)}
      /\ \A k \in Cards : /\ page.cards[k].assets = A[k]
                          /\ page.cards[k].stages = Cardinality(S[k])
                          /\ page.cards[k].gaps = Cardinality(G[k])
  <2>1. page.cards = _fe_phase_cards(h) /\ page.unassigned = Staged(h, 0) /\ page.gaps = {s \in Stages : empty(s)}
    BY DEF build_coverage_payload
  <2>2. ASSUME NEW k \in Cards
        PROVE  _fe_phase_cards(h)[k]
                 = [assets |-> A[k], stages |-> Cardinality(S[k]), gaps |-> Cardinality(G[k])]
    BY Zenon DEF _fe_phase_cards, StagesOf, CardOf
  <2> DEFINE c == _fe_phase_cards(h)
  <2>6. page.cards = c /\ page.unassigned = Staged(h, 0) /\ page.gaps = {s \in Stages : empty(s)} BY <2>1
  <2>4. \A k \in Cards : c[k] = [assets |-> A[k], stages |-> Cardinality(S[k]), gaps |-> Cardinality(G[k])]
    BY <2>2, Zenon
  <2> HIDE DEF A, S, G, c, empty
  <2>5. \A k \in Cards : c[k].assets = A[k] /\ c[k].stages = Cardinality(S[k]) /\ c[k].gaps = Cardinality(G[k])
    <3> TAKE k \in Cards
    <3>2. c[k] = [assets |-> A[k], stages |-> Cardinality(S[k]), gaps |-> Cardinality(G[k])] BY <2>4
    <3> DEFINE x == A[k]
               y == Cardinality(S[k])
               z == Cardinality(G[k])
               r == c[k]
    <3>3. r = [assets |-> x, stages |-> y, gaps |-> z] BY <3>2
    <3> HIDE DEF x, y, z, r
    <3>4. r.assets = x /\ r.stages = y /\ r.gaps = z BY <3>3
    <3> QED BY <3>4 DEF x, y, z, r
  <2> QED BY <2>5, <2>6, Zenon
<1>3. h.gaps = {s \in Stages : empty(s)}
  <2>1. h.gaps = Stages \ Covered(assets) BY DEF Assessed
  <2>2. \A s \in Stages : s \in Covered(assets) <=> ~empty(s)
    <3>1. \A s \in Stages : s # 0 BY DEF Stages
    <3>2. \A s : s \in Covered(assets) <=> s # 0 /\ \E i \in DOMAIN assets : assets[i].stage = s BY DEF Covered
    <3>3. \A s : ~empty(s) <=> \E i \in DOMAIN assets : assets[i].stage = s BY DEF Staged
    <3> HIDE DEF assets, empty
    <3> QED BY <3>1, <3>2, <3>3
  <2> HIDE DEF assets
  <2> QED BY <2>1, <2>2
<1>4. /\ IsFiniteSet(1..n) /\ Cardinality(1..n) = n /\ IsFiniteSet(Stages)
  <2>1. IsFiniteSet(1..n) /\ Cardinality(1..n) = n BY <1>1, FS_Interval
  <2> HIDE DEF n
  <2> QED BY <2>1, StagesAreFinite
<1>5. \A k \in Cards : A[k] \subseteq 1..n /\ S[k] \subseteq Stages /\ G[k] \subseteq Stages
  BY <1>1 DEF Staged, StagesOf
<1>6. AreParts(A, Cards) /\ AreParts(S, Cards) /\ AreParts(G, Cards)
  <2>1. \A k, l \in Cards : k # l => S[k] \cap S[l] = {} /\ G[k] \cap G[l] = {}
    BY DEF StagesOf
  <2>2. \A k, l \in Cards : k # l => A[k] \cap A[l] = {}
    <3>1. \A k \in Cards : \A i \in A[k] : CardOf(assets[i].stage) = k BY DEF Staged, StagesOf
    <3> HIDE DEF A, assets
    <3> QED BY <3>1
  <2>3. \A k \in Cards : IsFiniteSet(A[k]) /\ IsFiniteSet(S[k]) /\ IsFiniteSet(G[k])
    <3> HIDE DEF A, S, G, n
    <3> QED BY <1>4, <1>5, FS_Subset
  <2> HIDE DEF A, S, G
  <2> QED BY <2>1, <2>2, <2>3, CardsAreFinite DEF AreParts
<1>7. /\ Whole(A, Cards) = {i \in 1..n : assets[i].stage # 0}
      /\ Whole(S, Cards) = Stages
      /\ Whole(G, Cards) = {s \in Stages : empty(s)}
  <2>1. \A s \in Stages : CardOf(s) \in Cards BY StagesAreShared
  <2>2. \A s \in Stages : s \in StagesOf(CardOf(s)) BY DEF StagesOf
  <2>3. \A k : StagesOf(k) \subseteq Stages BY DEF StagesOf
  <2>4. Whole(S, Cards) = Stages
    <3> HIDE DEF Stages
    <3> QED BY <2>1, <2>2, <2>3 DEF Whole
  <2>5. Whole(G, Cards) = {s \in Stages : empty(s)}
    <3> HIDE DEF Stages, empty
    <3> QED BY <2>1, <2>2, <2>3 DEF Whole
  <2>6. Whole(A, Cards) = {i \in 1..n : assets[i].stage # 0}
    <3>1. \A i \in 1..n : assets[i].stage # 0 <=> assets[i].stage \in Stages
      <4>1. \A x \in 0..16 : x # 0 <=> x \in 1..16 OBVIOUS
      <4> HIDE DEF assets, n
      <4> QED BY <1>1, <4>1, Zenon DEF Stages
    <3>2. \A s, i : i \in Staged(h, s) <=> i \in 1..n /\ assets[i].stage = s BY <1>1 DEF Staged
    <3>3. \A k \in Cards : \A i : i \in A[k] <=> \E s \in StagesOf(k) : i \in Staged(h, s) OBVIOUS
    <3>4. ASSUME NEW i \in 1..n, assets[i].stage # 0
          PROVE  i \in Whole(A, Cards)
      <4> DEFINE s == assets[i].stage
      <4>1. s \in Stages /\ CardOf(s) \in Cards /\ s \in StagesOf(CardOf(s)) BY <2>1, <2>2, <3>1, <3>4
      <4>2. i \in Staged(h, s) BY <3>2
      <4> HIDE DEF s, A
      <4>3. i \in A[CardOf(s)] BY <3>3, <4>1, <4>2
      <4> QED BY <4>1, <4>3 DEF Whole
    <3>5. ASSUME NEW i \in Whole(A, Cards)
          PROVE  i \in 1..n /\ assets[i].stage # 0
      <4>1. PICK k \in Cards : i \in A[k] BY <3>5 DEF Whole
      <4>2. PICK s \in StagesOf(k) : i \in Staged(h, s) BY <3>3, <4>1
      <4>3. i \in 1..n /\ assets[i].stage = s /\ s \in Stages BY <2>3, <3>2, <4>2
      <4> QED BY <3>1, <4>3
    <3> HIDE DEF A, assets, n
    <3> QED BY <3>4, <3>5
  <2> QED BY <2>4, <2>5, <2>6
<1> DEFINE a == [k \in Cards |-> Cardinality(page.cards[k].assets)]
           s == [k \in Cards |-> page.cards[k].stages]
           g == [k \in Cards |-> page.cards[k].gaps]
<1>8. /\ DOMAIN a = Cards /\ \A k \in Cards : a[k] = Cardinality(A[k])
      /\ DOMAIN s = Cards /\ \A k \in Cards : s[k] = Cardinality(S[k])
      /\ DOMAIN g = Cards /\ \A k \in Cards : g[k] = Cardinality(G[k])
  <2> HIDE DEF A, S, G
  <2> QED BY <1>2
<1> HIDE DEF a, s, g, A, S, G
<1>9. SumFunction(a) = Total(a, Cards) /\ SumFunction(s) = Total(s, Cards) /\ SumFunction(g) = Total(g, Cards)
  BY <1>8, SumUnfolds
<1>10. /\ Cardinality(Whole(A, Cards)) = Total(a, Cards)
       /\ Cardinality(Whole(S, Cards)) = Total(s, Cards)
       /\ Cardinality(Whole(G, Cards)) = Total(g, Cards)
  BY <1>6, <1>8, PartsAddUp
<1>11. Cardinality(page.unassigned) + Cardinality(Whole(A, Cards)) = n
  <2> DEFINE x == Staged(h, 0)
             y == {i \in 1..n : assets[i].stage # 0}
  <2>1. x \cup y = 1..n /\ x \cap y = {} /\ x \subseteq 1..n /\ y \subseteq 1..n BY <1>1 DEF Staged
  <2> HIDE DEF x, y, n
  <2>2. IsFiniteSet(x) /\ IsFiniteSet(y) BY <1>4, <2>1, FS_Subset
  <2>3. Cardinality(x \cup y) = Cardinality(x) + Cardinality(y) - Cardinality(x \cap y) BY <2>2, FS_Union
  <2>4. Cardinality(x \cap y) = 0 BY <2>1, FS_EmptySet
  <2>5. Cardinality(x) \in Nat /\ Cardinality(y) \in Nat BY <2>2, FS_CardinalityType
  <2>7. Cardinality(x \cup y) = n BY <1>4, <2>1, Zenon
  <2>6. Cardinality(x) + Cardinality(y) = n BY <2>3, <2>4, <2>5, <2>7
  <2> QED BY <1>2, <1>7, <2>6 DEF x, y
<1> HIDE DEF n, assets, empty
<1>12. Cardinality(page.unassigned) + SumFunction(a) = n BY <1>9, <1>10, <1>11
<1>13. SumFunction(s) = Cardinality(Stages) /\ SumFunction(g) = Cardinality(h.gaps) /\ page.gaps = h.gaps
  BY <1>2, <1>3, <1>7, <1>9, <1>10
<1> QED BY <1>12, <1>13, Zenon DEF a, s, g, n, assets, CardsAddUp

(* What may be said of the pages of an assessment.                                    *)
PageTells(h) ==
  LET page == build_coverage_payload(h)
  IN /\ CardsAddUp(h, page)
     /\ build_lifecycle_summary(h).uncovered = Cardinality(page.gaps)
     /\ (run_phase_f_coverage(h.assets) = "succeeded") = (page.gaps = {})

(* The pages of what an assessment found.                                             *)
LEMMA PagesTell ==
  ASSUME NEW e \in Estates, NEW results
  PROVE  PageTells(Assessed(e, results))
<1> DEFINE h == Assessed(e, results)
           page == build_coverage_payload(h)
           assets == h.assets
<1>1. h.gaps = Stages \ Covered(assets) BY DEF Assessed
<1>2. Covered(assets) \subseteq Stages
  <2>1. assets = run_phase_b_inventory(e) BY DEF Assessed
  <2>2. \A i \in DOMAIN assets : assets[i].stage \in 0..16 BY <2>1, InventoryIsList
  <2>3. \A x \in 0..16 : x # 0 => x \in 1..16 OBVIOUS
  <2> HIDE DEF assets
  <2> QED BY <2>2, <2>3, Zenon DEF Covered, Stages
<1>3. assets = <<>> => Covered(assets) # Stages
  <2>1. \A a : a = <<>> => Covered(a) = {} BY DEF Covered
  <2>2. 1 \in Stages BY DEF Stages
  <2> QED BY <2>1, <2>2
<1> HIDE DEF h, assets, page
<1>4. run_phase_f_coverage(assets) = "succeeded" <=> Covered(assets) = Stages
  BY <1>3 DEF run_phase_f_coverage
<1>5. build_lifecycle_summary(h).uncovered = Cardinality(h.gaps)
  BY DEF build_lifecycle_summary
<1>6. CardsAddUp(h, page)
  <2>1. h = Assessed(e, results) /\ page = build_coverage_payload(h) BY DEF h, page
  <2> QED BY <2>1, CardsTell
<1>11. page.gaps = h.gaps BY <1>6, Zenon DEF CardsAddUp
<1>7. page.gaps = {} <=> Covered(assets) = Stages BY <1>1, <1>2, <1>11
<1>8. (run_phase_f_coverage(assets) = "succeeded") = (page.gaps = {}) BY <1>4, <1>7
<1>9. build_lifecycle_summary(h).uncovered = Cardinality(page.gaps)
  BY <1>5, <1>11
<1>10. PageTells(h)
  BY <1>6, <1>8, <1>9, Zenon DEF PageTells, page, assets
<1> QED BY <1>10 DEF h

(* What has succeeded has been stored.                                               *)
SucceededIsHeld == \A a \in Jobs : jobs[a].status = "succeeded" => held[a] # {}

(* A commit stores what it reports, and nothing takes it away.                          *)
LEMMA HeldStep ==
  ASSUME IInv, EachHeld, SucceededIsHeld, [EstateNext]_estateVars
  PROVE  SucceededIsHeld'
<1>1. ASSUME NEW w \in Workers, Commit(w), Persist(w)
      PROVE  SucceededIsHeld'
  <2> DEFINE a == worker[w].job
             found == {Assessed(estate, ResultsOf(worker[w].source))}
  <2>1. a \in Jobs BY <1>1, Types DEF IInv, LocalsBound, Commit
  <2>2. held' = [held EXCEPT ![a] = found] /\ found # {} BY <1>1 DEF Persist
  <2> HIDE DEF found
  <2>3. held'[a] # {} /\ \A b \in Jobs : b # a => held'[b] = held[b] BY <2>1, <2>2 DEF EachHeld
  <2>4. \A b \in Jobs : b # a => jobs'[b] = jobs[b] BY <1>1, <2>1, Types DEF Commit, IInv
  <2> HIDE DEF a
  <2> QED BY <2>3, <2>4 DEF SucceededIsHeld
<1>2. ASSUME UNCHANGED held, NoCommit
      PROVE  SucceededIsHeld'
  BY <1>2, ResultStays DEF SucceededIsHeld
<1>3. ASSUME UNCHANGED estateVars
      PROVE  SucceededIsHeld'
  BY <1>3 DEF estateVars, SucceededIsHeld
<1>4. ASSUME EstateNext
      PROVE  \/ \E w \in Workers : Commit(w) /\ Persist(w)
             \/ UNCHANGED held /\ NoCommit
  BY <1>4 DEF EstateNext, NoCommit, Enqueue
<1> QED
  BY <1>1, <1>2, <1>3, <1>4

(* So a succeeded assessment always has something stored.                              *)
LEMMA SucceededIsHeldHolds == EstateSpec => [](IInv /\ SucceededIsHeld)
<1>1. EstateInit => EachHeld /\ HeldAsJudged /\ SucceededIsHeld
  BY DEF EstateInit, HeldAsJudged, EachHeld, SucceededIsHeld, Init, NoJob
<1>2. IInv /\ EachHeld /\ HeldAsJudged /\ SucceededIsHeld /\ [EstateNext]_estateVars
        => EachHeld' /\ HeldAsJudged' /\ SucceededIsHeld'
  BY EstateStep, HeldStep
<1>3. EstateSpec => []IInv
  BY EstatesAssess, Invariance, PTL
<1> QED
  BY <1>1, <1>2, <1>3, PTL DEF EstateSpec

(* The newest of some jobs is one of them.                                           *)
LEMMA NewestIsIn ==
  ASSUME NEW S \in SUBSET Jobs, S # {}
  PROVE  Max(S) \in S /\ \A b \in S : b <= Max(S)
<1>1. Jobs = 1..MaxJobs /\ MaxJobs \in Nat BY ArchitectureAssumption DEF Jobs
<1>2. IsFiniteSet(1..MaxJobs) BY <1>1, FS_Interval
<1>3. IsFiniteSet(S)
  <2>1. S \subseteq 1..MaxJobs BY <1>1
  <2> QED BY <1>2, <2>1, FS_Subset
<1>4. S \in SUBSET Int BY <1>1
<1> QED BY <1>3, <1>4, MaxOfFinite

(* Of two newest ones, the one that is among the others is theirs.                     *)
LEMMA NewestOfBoth ==
  ASSUME NEW S \in SUBSET Jobs, NEW T \in SUBSET S, Max(S) \in T
  PROVE  Max(T) = Max(S)
<1>1. S # {} /\ T # {} OBVIOUS
<1>2. Max(T) \in T /\ (\A b \in T : b <= Max(T)) /\ \A b \in S : b <= Max(S) BY <1>1, NewestIsIn
<1>3. S \subseteq Int BY ArchitectureAssumption DEF Jobs
<1>4. Max(T) <= Max(S) /\ Max(S) <= Max(T) /\ Max(T) \in Int /\ Max(S) \in Int BY <1>2, <1>3
<1> QED BY <1>4

(* A report of a run shows an assessment that is stored.                              *)
LEMMA ReportsShowWhatIsHeld ==
  ASSUME SucceededIsHeld, NEW s, NEW a \in resolve_architecture_assessment_for_run(s)
  PROVE  held[a] # {}
<1> DEFINE linked == Succeeding({b \in Jobs : jobs[b].source = s})
           all == Succeeding(Jobs)
<1>1. \/ linked # {} /\ a = Max(linked)
      \/ all # {} /\ a = Max(all)
  BY DEF resolve_architecture_assessment_for_run
<1>2. linked \subseteq all /\ all \subseteq Jobs BY DEF Succeeding
<1>3. a \in all
  <2> HIDE DEF linked, all
  <2> QED BY <1>1, <1>2, NewestIsIn
<1> QED BY <1>3 DEF Succeeding, SucceededIsHeld

(* What is shown as up to date is the newest assessment, and it has succeeded.           *)
LEMMA ShownIsHeld ==
  ASSUME IInv, SucceededIsHeld, resolve_ui_status \in {"up_to_date", "incomplete_map"}
  PROVE  /\ PilotsAssessment = find_latest_architecture_assessment
         /\ \A a \in PilotsAssessment : held[a] # {} /\ jobs[a].run = "succeeded"
<1> DEFINE all == {a \in Jobs : jobs[a].status # "absent"}
           m == Max(all)
<1>1. /\ \A a \in Jobs : ~IsActive(a)
      /\ find_latest_architecture_assessment # {}
      /\ LET a == CHOOSE x \in find_latest_architecture_assessment : TRUE IN jobs[a].status # "failed"
  BY DEF resolve_ui_status
<1>2. all # {} /\ find_latest_architecture_assessment = {m}
  BY <1>1 DEF find_latest_architecture_assessment
<1>3. m \in all
  <2>1. all \in SUBSET Jobs OBVIOUS
  <2> HIDE DEF all
  <2> QED BY <1>2, <2>1, NewestIsIn
<1>4. (CHOOSE x \in {m} : TRUE) = m OBVIOUS
<1>5. jobs[m].status # "failed" /\ ~IsActive(m) /\ m \in Jobs /\ jobs[m].status # "absent"
  <2> HIDE DEF m
  <2> QED BY <1>1, <1>2, <1>3, <1>4
<1>6. jobs[m].status = "succeeded"
  <2> HIDE DEF m
  <2>1. jobs[m] \in JobType BY <1>5, Types DEF IInv
  <2> QED BY <1>5, <2>1 DEF JobType, Status, IsActive
<1>7. Succeeding(Jobs) \subseteq all /\ m \in Succeeding(Jobs) BY <1>5, <1>6 DEF Succeeding
<1>8. Max(Succeeding(Jobs)) = m
  <2>1. all \in SUBSET Jobs OBVIOUS
  <2>2. Succeeding(Jobs) \in SUBSET all BY <1>7
  <2> HIDE DEF all
  <2> QED BY <1>7, <2>1, <2>2, NewestOfBoth
<1>9. PilotsAssessment = {m}
  <2> HIDE DEF m
  <2> QED BY <1>7, <1>8 DEF PilotsAssessment
<1>10. held[m] # {} /\ jobs[m].run = "succeeded"
  <2> HIDE DEF m
  <2> QED BY <1>5, <1>6 DEF SucceededIsHeld, IInv, SucceededWhole
<1> HIDE DEF m
<1> QED BY <1>2, <1>9, <1>10

(* The cards of the coverage page account for every asset, stage and gap of any estate;   *)
(* a report is given no assessment of which nothing is stored; and what is shown as up to *)
(* date has been stored whole (build_coverage_payload, resolve_ui_status).               *)
THEOREM PagesTellWhatIsStoredHolds == EstateSpec => []PagesTellWhatIsStored
<1>1. IInv /\ HeldAsJudged /\ SucceededIsHeld /\ estate \in Estates => PagesTellWhatIsStored
  <2> SUFFICES ASSUME IInv, HeldAsJudged, SucceededIsHeld, estate \in Estates
               PROVE  PagesTellWhatIsStored
    OBVIOUS
  <2>1. ASSUME NEW a \in Jobs, Found(a)
        PROVE  PageTells(HeldBy(a))
    <3>1. HeldBy(a) = Assessed(estate, ResultsOf(jobs[a].result))
      BY <2>1 DEF HeldAsJudged, Found, HeldBy
    <3> QED BY <3>1, PagesTell
  <2>2. \A s \in 1..scored : \A a \in resolve_architecture_assessment_for_run(s) : held[a] # {}
    BY ReportsShowWhatIsHeld
  <2>3. resolve_ui_status \in {"up_to_date", "incomplete_map"} =>
          /\ PilotsAssessment = find_latest_architecture_assessment
          /\ \A a \in PilotsAssessment : held[a] # {} /\ jobs[a].run = "succeeded"
    BY ShownIsHeld
  <2> QED BY <2>1, <2>2, <2>3, Zenon DEF PagesTellWhatIsStored, PageTells, CardsAddUp
<1> QED
  BY <1>1, SucceededIsHeldHolds, EstateStays, HeldAsJudgedHolds, PTL

=====================================================================================
