--------------------------- MODULE ArchitectureAssessments ---------------------------
(* The architecture assessments of one company: enqueue_architecture_assessment     *)
(* (dataruns/architecture/enqueue.py), which a succeeded DCS run or an admin calls,  *)
(* and the Celery worker in run_architecture_assessment_job                          *)
(* (dataruns/architecture/runner.py).                                                *)
(*                                                                                   *)
(* An assessment is two rows, itself and its DataRun, saved one after the other      *)
(* except where the worker commits.  There is no reaper.                             *)
EXTENDS Integers

CONSTANTS
  MaxJobs,      \* bound on the assessments of the company
  MaxScores,    \* bound on its succeeded DCS runs
  Callers,      \* DCS workers and admin requests
  Workers,      \* Celery worker slots
  MaxLost,      \* bound on the number of lost worker processes
  MaxKilled,    \* bound on the number of killed children and callers
  None          \* null

ASSUME ArchitectureAssumption ==
  /\ MaxJobs \in Nat \ {0} /\ MaxScores \in Nat
  /\ MaxLost \in Nat /\ MaxKilled \in Nat
  /\ None \notin Nat

VARIABLES
  jobs,      \* ArchitectureAssessment rows, each with its DataRun, in order of creation
  scored,    \* number of succeeded DCS runs
  queue,     \* the Celery message of each job
  caller,    \* call that each caller is in
  worker,    \* task that each worker slot executes
  faults     \* lost processes and kills so far

vars == <<jobs, scored, queue, caller, worker, faults>>

Jobs == 1 .. MaxJobs

(* A DCS run, or none for an admin who names none                                    *)
Sources == (1 .. MaxScores) \cup {None}

Status == {"pending", "running", "succeeded", "failed"}

(* No assets, edges or verdicts yet; DCS runs count from 1.                           *)
NoResult == 0

(* `result' is the DCS run whose checks the verdicts joined; `runSource' and          *)
(* `runResult' are in the metadata of the DataRun.                                   *)

NoJob ==
  [status |-> "absent", source |-> None, result |-> NoResult,
   run |-> "absent", runSource |-> None, runResult |-> FALSE]

JobType ==
  [status : Status \cup {"absent"}, source : Sources, result : Sources \cup {NoResult},
   run : Status \cup {"absent"}, runSource : Sources, runResult : BOOLEAN]

Away == [pc |-> "idle", source |-> None, job |-> None, runResult |-> FALSE]

CallerType ==
  [pc : {"idle", "find", "refresh", "label", "create", "send"}, source : Sources,
   job : Jobs \cup {None}, runResult : BOOLEAN]

Free == [pc |-> "idle", job |-> None, source |-> None, runSource |-> None]

WorkerType ==
  [pc : {"idle", "loaded", "started", "running", "failing", "done"},
   job : Jobs \cup {None}, source : Sources, runSource : Sources]

TypeOK ==
  /\ jobs \in [Jobs -> JobType]
  /\ scored \in 0 .. MaxScores
  /\ queue \in [Jobs -> {"none", "queued", "delivered"}]
  /\ caller \in [Callers -> CallerType]
  /\ worker \in [Workers -> WorkerType]
  /\ faults \in [lost : 0 .. MaxLost, killed : 0 .. MaxKilled]

Init ==
  /\ jobs = [a \in Jobs |-> NoJob]
  /\ scored = 0
  /\ queue = [a \in Jobs |-> "none"]
  /\ caller = [c \in Callers |-> Away]
  /\ worker = [w \in Workers |-> Free]
  /\ faults = [lost |-> 0, killed |-> 0]

---------------------------------------------------------------------------------
(* enqueue_architecture_assessment                                                *)

IsActive(a) == jobs[a].status \in {"pending", "running"}

(* find_active_architecture_assessment: the newest active one                     *)
IsNewestActive(a) == IsActive(a) /\ \A b \in Jobs : b > a => ~IsActive(b)

Return(c) == caller' = [caller EXCEPT ![c] = Away]

(* A DCS run has succeeded, and its worker calls maybe_enqueue after it.          *)
ScoreSucceeds(c) ==
  /\ caller[c].pc = "idle"
  /\ scored < MaxScores
  /\ scored' = scored + 1
  /\ caller' = [caller EXCEPT ![c] = [Away EXCEPT !.pc = "find", !.source = scored + 1]]
  /\ UNCHANGED <<jobs, queue, worker, faults>>

(* ArchitectureAssessmentsView.post, by an admin, with a source or without one    *)
AdminPosts(c, source) ==
  /\ caller[c].pc = "idle"
  /\ source # None => source <= scored
  /\ caller' = [caller EXCEPT ![c] = [Away EXCEPT !.pc = "find", !.source = source]]
  /\ UNCHANGED <<jobs, scored, queue, worker, faults>>

(* company_has_eligible_manago says no, at any time.                              *)
Skip(c) ==
  /\ caller[c].pc = "find"
  /\ Return(c)
  /\ UNCHANGED <<jobs, scored, queue, worker, faults>>

(* No active assessment: one will be created, while MaxJobs has room.             *)
FindNone(c) ==
  /\ caller[c].pc = "find"
  /\ \E a \in Jobs : jobs[a].status = "absent"
  /\ \A a \in Jobs : ~IsActive(a)
  /\ caller' = [caller EXCEPT ![c].pc = "create"]
  /\ UNCHANGED <<jobs, scored, queue, worker, faults>>

(* An active one is kept.  If its source is another, it is refreshed with the new  *)
(* one ...                                                                        *)
FindActive(c) ==
  /\ caller[c].pc = "find"
  /\ \E a \in Jobs :
       /\ IsNewestActive(a)
       /\ IF caller[c].source \in {None, jobs[a].source}
          THEN Return(c)
          ELSE caller' = [caller EXCEPT ![c].pc = "refresh", ![c].job = a,
                                        ![c].runResult = jobs[a].runResult]
  /\ UNCHANGED <<jobs, scored, queue, worker, faults>>

Refresh(c) ==
  /\ caller[c].pc = "refresh"
  /\ jobs' = [jobs EXCEPT ![caller[c].job].source = caller[c].source]
  /\ caller' = [caller EXCEPT ![c].pc = "label"]
  /\ UNCHANGED <<scored, queue, worker, faults>>

(* ... and then its DataRun, whose metadata is the copy that was read with it.    *)
Label(c) ==
  /\ caller[c].pc = "label"
  /\ jobs' = [jobs EXCEPT ![caller[c].job].runSource = caller[c].source,
                          ![caller[c].job].runResult = caller[c].runResult]
  /\ Return(c)
  /\ UNCHANGED <<scored, queue, worker, faults>>

(* Both rows, in one transaction                                                  *)
Create(c) ==
  /\ caller[c].pc = "create"
  /\ \E a \in Jobs :
       /\ jobs[a].status = "absent" /\ \A b \in Jobs : b < a => jobs[b].status # "absent"
       /\ jobs' = [jobs EXCEPT ![a] =
            [NoJob EXCEPT !.status = "pending", !.source = caller[c].source,
                          !.run = "pending", !.runSource = caller[c].source]]
       /\ caller' = [caller EXCEPT ![c].pc = "send", ![c].job = a]
  /\ UNCHANGED <<scored, queue, worker, faults>>

Send(c) ==
  /\ caller[c].pc = "send"
  /\ queue' = [queue EXCEPT ![caller[c].job] = "queued"]
  /\ Return(c)
  /\ UNCHANGED <<jobs, scored, worker, faults>>

(* delay raises, whether or not the broker has taken the message.  The assessment   *)
(* is saved as failed; saving the DataRun raises in turn, for error_message is not  *)
(* one of its fields.                                                             *)
SendFails(c) ==
  /\ caller[c].pc = "send"
  /\ jobs' = [jobs EXCEPT ![caller[c].job].status = "failed"]
  /\ \/ UNCHANGED queue
     \/ queue' = [queue EXCEPT ![caller[c].job] = "queued"]
  /\ Return(c)
  /\ UNCHANGED <<scored, worker, faults>>

Killed == faults' = [faults EXCEPT !.killed = @ + 1]

CallerDies(c) ==
  /\ caller[c].pc # "idle"
  /\ faults.killed < MaxKilled
  /\ Killed
  /\ Return(c)
  /\ UNCHANGED <<jobs, scored, queue, worker>>

---------------------------------------------------------------------------------
(* run_architecture_assessment_job                                                *)

(* The rows as they are; nothing asks whether the job was done already.           *)
Receive(w, a) ==
  /\ worker[w].pc = "idle"
  /\ queue[a] = "queued"
  /\ queue' = [queue EXCEPT ![a] = "delivered"]
  /\ worker' = [worker EXCEPT ![w] =
       [pc |-> "loaded", job |-> a, source |-> jobs[a].source,
        runSource |-> jobs[a].runSource]]
  /\ UNCHANGED <<jobs, scored, caller, faults>>

Start(w) ==
  /\ worker[w].pc = "loaded"
  /\ jobs' = [jobs EXCEPT ![worker[w].job].status = "running"]
  /\ worker' = [worker EXCEPT ![w].pc = "started"]
  /\ UNCHANGED <<scored, queue, caller, faults>>

StartRun(w) ==
  /\ worker[w].pc = "started"
  /\ jobs' = [jobs EXCEPT ![worker[w].job].run = "running"]
  /\ worker' = [worker EXCEPT ![w].pc = "running"]
  /\ UNCHANGED <<scored, queue, caller, faults>>

(* mutant: the statuses are saved before, not with, what was found *)
CommitMut(w) ==
  /\ worker[w].pc = "running"
  /\ jobs' = [jobs EXCEPT ![worker[w].job].status = "succeeded",
                          ![worker[w].job].run = "succeeded"]
  /\ worker' = [worker EXCEPT ![w].pc = "done"]
  /\ UNCHANGED <<scored, queue, caller, faults>>

(* Assets, edges, verdicts, probes, and both rows, in one transaction             *)
Commit(w) ==
  /\ worker[w].pc = "running"
  /\ jobs' = [jobs EXCEPT ![worker[w].job] =
       [@ EXCEPT !.status = "succeeded", !.result = worker[w].source, !.run = "succeeded",
                 !.runSource = worker[w].runSource, !.runResult = TRUE]]
  /\ worker' = [worker EXCEPT ![w].pc = "done"]
  /\ UNCHANGED <<scored, queue, caller, faults>>

(* mutant: the exception is logged *)
FailMut(w) ==
  /\ worker[w].pc \in {"loaded", "started", "running"}
  /\ worker' = [worker EXCEPT ![w].pc = "done"]
  /\ UNCHANGED <<jobs, scored, queue, caller, faults>>

(* An exception before the commit: the assessment, and then its DataRun           *)
Fail(w) ==
  /\ worker[w].pc \in {"loaded", "started", "running"}
  /\ jobs' = [jobs EXCEPT ![worker[w].job].status = "failed"]
  /\ worker' = [worker EXCEPT ![w].pc = "failing"]
  /\ UNCHANGED <<scored, queue, caller, faults>>

FailRun(w) ==
  /\ worker[w].pc = "failing"
  /\ jobs' = [jobs EXCEPT ![worker[w].job].run = "failed"]
  /\ worker' = [worker EXCEPT ![w].pc = "done"]
  /\ UNCHANGED <<scored, queue, caller, faults>>

Acknowledge(w) ==
  /\ queue' = [queue EXCEPT ![worker[w].job] = "none"]
  /\ worker' = [worker EXCEPT ![w] = Free]

Return200(w) ==
  /\ worker[w].pc = "done"
  /\ Acknowledge(w)
  /\ UNCHANGED <<jobs, scored, caller, faults>>

(* A child killed at the time limit or out of memory is acknowledged all the same. *)
Kill(w) ==
  /\ worker[w].pc # "idle"
  /\ faults.killed < MaxKilled
  /\ Killed
  /\ Acknowledge(w)
  /\ UNCHANGED <<jobs, scored, caller>>

(* The process goes, and the broker delivers its message again.                   *)
LoseProcess(w) ==
  /\ worker[w].pc # "idle"
  /\ faults.lost < MaxLost
  /\ faults' = [faults EXCEPT !.lost = @ + 1]
  /\ queue' = [queue EXCEPT ![worker[w].job] = "queued"]
  /\ worker' = [worker EXCEPT ![w] = Free]
  /\ UNCHANGED <<jobs, scored, caller>>

Enqueue(c) ==
  \/ Skip(c) \/ FindNone(c) \/ FindActive(c) \/ Refresh(c) \/ Label(c)
  \/ Create(c) \/ Send(c) \/ SendFails(c)

Execute(w) ==
  Start(w) \/ StartRun(w) \/ Commit(w) \/ Fail(w) \/ FailRun(w) \/ Return200(w)

Next ==
  \/ \E c \in Callers :
       \/ ScoreSucceeds(c) \/ Enqueue(c) \/ CallerDies(c)
       \/ \E source \in Sources : AdminPosts(c, source)
  \/ \E w \in Workers :
       \/ Execute(w) \/ Kill(w) \/ LoseProcess(w)
       \/ \E a \in Jobs : Receive(w, a)

Spec == Init /\ [][Next]_vars

(* A caller and a worker that are alive go on, and the broker delivers.           *)
Fairness ==
  /\ \A c \in Callers : WF_vars(Enqueue(c))
  /\ \A w \in Workers : WF_vars(Execute(w))
  /\ \A a \in Jobs : WF_vars(\E w \in Workers : Receive(w, a))

FairSpec == Spec /\ Fairness

---------------------------------------------------------------------------------
(* What the product reads of a succeeded assessment is all there, and its DataRun    *)
(* has succeeded with it, also when the task was delivered again after its commit.   *)
SucceededWhole ==
  \A a \in Jobs : jobs[a].status = "succeeded" =>
    jobs[a].result # NoResult /\ jobs[a].run = "succeeded"

(* An assessment does not stay active, unless somebody is killed: the failure of its *)
(* dispatch, an exception in a phase and the loss of a worker process all end it.    *)
JobsSettle == \A a \in Jobs : IsActive(a) ~> ~IsActive(a) \/ faults.killed > 0

---------------------------------------------------------------------------------
(* Why it stays whole: what a caller or a worker writes to is known, ...            *)
LocalsBound ==
  /\ \A c \in Callers : caller[c].pc \in {"refresh", "label", "send"} => caller[c].job \in Jobs
  /\ \A w \in Workers : worker[w].pc # "idle" => worker[w].job \in Jobs

(* ... a job that has not been sent has no message and one caller, ...              *)
SentOnce ==
  /\ \A a \in Jobs : jobs[a].status = "absent" => queue[a] = "none"
  /\ \A c \in Callers : caller[c].pc = "send" =>
       /\ queue[caller[c].job] = "none" /\ jobs[caller[c].job].status # "absent"
       /\ \A d \in Callers \ {c} : caller[d].pc = "send" => caller[d].job # caller[c].job

(* ... and one that is executed has one worker, which has its message, and which takes *)
(* back the success of an earlier execution before anything else.                    *)
HoldsMessage ==
  \A w \in Workers : worker[w].pc # "idle" =>
    /\ queue[worker[w].job] = "delivered"
    /\ worker[w].pc \in {"started", "running", "failing"} => jobs[worker[w].job].status # "succeeded"
    /\ \A v \in Workers \ {w} : worker[v].pc # "idle" => worker[v].job # worker[w].job

IInv == TypeOK /\ LocalsBound /\ SentOnce /\ HoldsMessage /\ SucceededWhole

=================================================================================
