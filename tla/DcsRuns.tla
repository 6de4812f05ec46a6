--------------------------------- MODULE DcsRuns ---------------------------------
(* The life of a DCS score run of one company: enqueue_dcs_score and the reaper of *)
(* stale runs (dataruns/dcs/enqueue.py), the Celery broker, and the worker that    *)
(* carries the run through run_dcs_pipeline (dataruns/dcs/orchestrate.py).         *)
(*                                                                                 *)
(* Nothing here takes a lock.  An enqueue reads, decides and writes in separate    *)
(* steps; the worker saves its own copy of the row; the broker delivers at least   *)
(* once (CELERY_TASK_ACKS_LATE).  Time is discrete: a run is as old as its         *)
(* started_at, which the enqueue sets, a task as old as its delivery.              *)
EXTENDS Integers

CONSTANTS
  MaxRuns,         \* bound on the number of score runs
  Callers,         \* processes that enqueue or poll: web workers, the beat task
  Workers,         \* Celery worker slots
  ManualStale,     \* DCS_MANUAL_PENDING_RETRY_AFTER
  PendingStale,    \* DCS_PENDING_STALE_AFTER
  RunningStale,    \* DCS_RUNNING_STALE_AFTER
  TaskLimit,       \* CELERY_TASK_TIME_LIMIT
  Visibility,      \* the broker's visibility timeout
  MaxLost,         \* bound on the number of lost worker processes
  None             \* null

ASSUME DcsAssumption ==
  /\ MaxRuns \in Nat \ {0}
  /\ ManualStale \in Nat /\ PendingStale \in Nat /\ RunningStale \in Nat
  /\ ManualStale <= PendingStale /\ PendingStale <= RunningStale
  /\ TaskLimit \in Nat /\ Visibility \in Nat /\ MaxLost \in Nat
  /\ None \notin Nat

(* A task is killed (30 min) before the broker gives it up for lost (1 h).         *)
ASSUME VisibilityAssumption == TaskLimit < Visibility

VARIABLES
  rows,      \* DataRun rows of kind dcs_score, by id in order of creation
  scores,    \* RunScore rows of each run's domain Run
  broker,    \* the Celery message of each run
  caller,    \* request each caller is serving
  worker,    \* task each worker slot is executing
  lost       \* worker processes lost so far

vars == <<rows, scores, broker, caller, worker, lost>>

Runs == 1 .. MaxRuns

(* `results' says whether the row's metadata holds the score, `daily' whether the  *)
(* run counts as today's daily_beat run.                                           *)
NoRun == [status |-> "absent", daily |-> FALSE, age |-> 0, results |-> FALSE]

RunStatus == {"absent", "pending", "running", "succeeded", "failed"}

RunType ==
  [status : RunStatus, daily : BOOLEAN, age : 0 .. RunningStale, results : BOOLEAN]

NoMessage == [state |-> "none", age |-> 0]

MessageType == [state : {"none", "queued", "delivered"}, age : 0 .. Visibility]

(* manual and daily_beat and post_bootstrap enqueue; "status" is the poll of       *)
(* resolve_dcs_app_status, which only reaps.                                       *)
Trigger == {"manual", "daily_beat", "post_bootstrap", "status"}

Waiting == [pc |-> "idle", trigger |-> None, run |-> None, results |-> FALSE]

CallerType ==
  [pc : {"idle", "reap", "mark", "manual", "retry", "markRetry", "check", "create",
         "send"},
   trigger : Trigger \cup {None}, run : Runs \cup {None}, results : BOOLEAN]

Free == [pc |-> "idle", run |-> None, results |-> FALSE, age |-> 0]

WorkerType ==
  [pc : {"idle", "loaded", "running", "committed", "reporting"}, run : Runs \cup {None},
   results : BOOLEAN, age : 0 .. Visibility]

TypeOK ==
  /\ rows \in [Runs -> RunType]
  /\ scores \in [Runs -> Nat]
  /\ broker \in [Runs -> MessageType]
  /\ caller \in [Callers -> CallerType]
  /\ worker \in [Workers -> WorkerType]
  /\ lost \in 0 .. MaxLost

Init ==
  /\ rows = [r \in Runs |-> NoRun]
  /\ scores = [r \in Runs |-> 0]
  /\ broker = [r \in Runs |-> NoMessage]
  /\ caller = [c \in Callers |-> Waiting]
  /\ worker = [w \in Workers |-> Free]
  /\ lost = 0

---------------------------------------------------------------------------------
(* enqueue.py                                                                     *)

IsActive(r) == rows[r].status \in {"pending", "running"}

(* find_active_dcs_data_run: the newest active run, whatever older ones there are *)
IsNewestActive(r) == IsActive(r) /\ \A q \in Runs : q > r => ~IsActive(q)

NoneActive == \A r \in Runs : ~IsActive(r)

HasDailyToday ==
  \E r \in Runs : rows[r].daily /\ rows[r].status \in {"pending", "running", "succeeded"}

(* mutant: a running run has no budget *)
StaleNowMut(r) == rows[r].status = "pending" /\ rows[r].age >= PendingStale

(* The budget of fail_stale_active_dcs_runs when it is called without one          *)
StaleNow(r) ==
  IF rows[r].status = "pending" THEN rows[r].age >= PendingStale
                                ELSE rows[r].age >= RunningStale

Answer(c) == caller' = [caller EXCEPT ![c] = Waiting]

(* What follows the first reap, and the second.                                   *)
AfterReap(c) ==
  CASE caller[c].trigger = "status" -> "idle"
    [] caller[c].trigger = "manual" /\ caller[c].pc \in {"reap", "mark"} -> "manual"
    [] OTHER -> "check"

Reaped(c) ==
  IF AfterReap(c) = "idle" THEN Waiting
  ELSE [Waiting EXCEPT !.pc = AfterReap(c), !.trigger = caller[c].trigger]

Call(c, trigger) ==
  /\ caller[c].pc = "idle"
  /\ trigger = "daily_beat" => ~HasDailyToday
  /\ caller' = [caller EXCEPT ![c] = [Waiting EXCEPT !.pc = "reap", !.trigger = trigger]]
  /\ UNCHANGED <<rows, scores, broker, worker, lost>>

ToReap(c, r) ==
  /\ IsNewestActive(r)
  /\ \/ caller[c].pc = "reap" /\ StaleNow(r)
     \/ caller[c].pc = "retry" /\ rows[r].age >= ManualStale

(* The reaper reads the newest active run and its metadata ...                    *)
Reap(c) ==
  /\ caller[c].pc \in {"reap", "retry"}
  /\ \/ \E r \in Runs :
          /\ ToReap(c, r)
          /\ caller' = [caller EXCEPT ![c] =
               [@ EXCEPT !.pc = IF caller[c].pc = "reap" THEN "mark" ELSE "markRetry",
                         !.run = r, !.results = rows[r].results]]
     \/ /\ ~ \E r \in Runs : ToReap(c, r)
        /\ caller' = [caller EXCEPT ![c] = Reaped(c)]
  /\ UNCHANGED <<rows, scores, broker, worker, lost>>

(* fail_stale_pending_for_manual_retry looks for a pending run, then calls the    *)
(* reaper, which reads again and applies the short budget to what it finds.       *)
Manual(c) ==
  /\ caller[c].pc = "manual"
  /\ LET pending == \E r \in Runs : IsNewestActive(r) /\ rows[r].status = "pending"
     IN caller' = [caller EXCEPT ![c] =
          [@ EXCEPT !.pc = IF pending THEN "retry" ELSE "check"]]
  /\ UNCHANGED <<rows, scores, broker, worker, lost>>

(* ... and _mark_dcs_runs_failed saves the row from that reading, whatever became *)
(* of the run since.                                                              *)
Mark(c) ==
  /\ caller[c].pc \in {"mark", "markRetry"}
  /\ rows' = [rows EXCEPT ![caller[c].run] =
                [@ EXCEPT !.status = "failed", !.results = caller[c].results]]
  /\ caller' = [caller EXCEPT ![c] = Reaped(c)]
  /\ UNCHANGED <<scores, broker, worker, lost>>

(* DcsQueueUnavailableError when no worker answers the ping, DcsAlreadyRunning-   *)
(* Error when a run is active.                                                    *)
Refuse(c) ==
  /\ caller[c].pc = "check"
  /\ Answer(c)
  /\ UNCHANGED <<rows, scores, broker, worker, lost>>

Check(c) ==
  /\ caller[c].pc = "check"
  /\ NoneActive
  /\ rows[MaxRuns].status = "absent"
  /\ caller' = [caller EXCEPT ![c] = [@ EXCEPT !.pc = "create"]]
  /\ UNCHANGED <<rows, scores, broker, worker, lost>>

Create(c, r) ==
  /\ caller[c].pc = "create"
  /\ rows[r].status = "absent"
  /\ \A q \in Runs : q < r => rows[q].status # "absent"
  /\ rows' = [rows EXCEPT ![r] =
       [status |-> "pending", daily |-> caller[c].trigger = "daily_beat",
        age |-> 0, results |-> FALSE]]
  /\ caller' = [caller EXCEPT ![c] = [@ EXCEPT !.pc = "send", !.run = r]]
  /\ UNCHANGED <<scores, broker, worker, lost>>

(* run_dcs_score.delay, which may raise although the broker has the message.      *)
Send(c, raised, sent) ==
  LET r == caller[c].run IN
  /\ caller[c].pc = "send"
  /\ ~raised => sent
  /\ broker' = IF sent THEN [broker EXCEPT ![r] = [state |-> "queued", age |-> 0]]
                       ELSE broker
  /\ rows' = IF raised
               THEN [rows EXCEPT ![r] = [@ EXCEPT !.status = "failed", !.results = FALSE]]
               ELSE rows
  /\ Answer(c)
  /\ UNCHANGED <<scores, worker, lost>>

(* The calling process dies.                                                      *)
CallerDies(c) ==
  /\ caller[c].pc # "idle"
  /\ Answer(c)
  /\ UNCHANGED <<rows, scores, broker, worker, lost>>

---------------------------------------------------------------------------------
(* tasks.run_dcs_score and orchestrate.run_dcs_pipeline                           *)

Busy(w) == worker[w].pc # "idle"

Executes(w, r) == Busy(w) /\ worker[w].run = r

Ack(r) == broker' = [broker EXCEPT ![r] = NoMessage]

Release(w) == worker' = [worker EXCEPT ![w] = Free]

(* The task reads the row.  Only a succeeded run is left alone.                   *)
Receive(w, r) ==
  /\ ~Busy(w)
  /\ broker[r].state = "queued"
  /\ IF rows[r].status = "succeeded"
       THEN Ack(r) /\ UNCHANGED worker
       ELSE /\ broker' = [broker EXCEPT ![r] = [state |-> "delivered", age |-> 0]]
            /\ worker' = [worker EXCEPT ![w] =
                 [pc |-> "loaded", run |-> r, results |-> rows[r].results, age |-> 0]]
  /\ UNCHANGED <<rows, scores, caller, lost>>

(* ensure_manago_primary_owner raised, before anything was saved.                 *)
StartFails(w) ==
  /\ worker[w].pc = "loaded"
  /\ Ack(worker[w].run)
  /\ Release(w)
  /\ UNCHANGED <<rows, scores, caller, lost>>

(* The status is saved whatever it was, failed included.                          *)
Start(w) ==
  /\ worker[w].pc = "loaded"
  /\ rows' = [rows EXCEPT ![worker[w].run].status = "running"]
  /\ worker' = [worker EXCEPT ![w] = [@ EXCEPT !.pc = "running"]]
  /\ UNCHANGED <<scores, broker, caller, lost>>

(* Imports and evaluation save the metadata of the worker's copy, stage by stage. *)
Progress(w) ==
  /\ worker[w].pc = "running"
  /\ rows' = [rows EXCEPT ![worker[w].run].results = worker[w].results]
  /\ UNCHANGED <<scores, broker, caller, worker, lost>>

(* One transaction: score, issues, domain run, status and metadata.               *)
Commit(w) ==
  LET r == worker[w].run IN
  /\ worker[w].pc = "running"
  /\ rows' = [rows EXCEPT ![r] = [@ EXCEPT !.status = "succeeded", !.results = TRUE]]
  /\ scores' = [scores EXCEPT ![r] = @ + 1]
  /\ worker' = [worker EXCEPT ![w] = [@ EXCEPT !.pc = "committed", !.results = TRUE]]
  /\ UNCHANGED <<broker, caller, lost>>

(* An exception, the soft time limit included, from the first import to the last   *)
(* step after the commit.                                                         *)
Fail(w) ==
  /\ worker[w].pc \in {"running", "committed"}
  /\ rows' = [rows EXCEPT ![worker[w].run] =
                [@ EXCEPT !.status = "failed", !.results = worker[w].results]]
  /\ worker' = [worker EXCEPT ![w] = [@ EXCEPT !.pc = "reporting"]]
  /\ UNCHANGED <<scores, broker, caller, lost>>

(* After the commit: stage progress and run diff go into the metadata; mails and   *)
(* audit go out, and the task is acknowledged.                                    *)
Finish(w) ==
  /\ worker[w].pc = "committed"
  /\ rows' = [rows EXCEPT ![worker[w].run].results = TRUE]
  /\ Ack(worker[w].run)
  /\ Release(w)
  /\ UNCHANGED <<scores, caller, lost>>

(* Mail and audit of a failure, and the acknowledgement.                          *)
Report(w) ==
  /\ worker[w].pc = "reporting"
  /\ Ack(worker[w].run)
  /\ Release(w)
  /\ UNCHANGED <<rows, scores, caller, lost>>

---------------------------------------------------------------------------------
(* Celery, the broker and the clock                                               *)

(* The child is killed, at the hard time limit or out of memory; the message is   *)
(* acknowledged all the same (task_reject_on_worker_lost is off).                 *)
Kill(w) ==
  /\ Busy(w)
  /\ Ack(worker[w].run)
  /\ Release(w)
  /\ UNCHANGED <<rows, scores, caller, lost>>

(* The whole worker process goes, handing its message back or not.                *)
LoseProcess(w) ==
  /\ Busy(w)
  /\ lost < MaxLost
  /\ lost' = lost + 1
  /\ \/ UNCHANGED broker
     \/ broker' = [broker EXCEPT ![worker[w].run] = [state |-> "queued", age |-> 0]]
  /\ Release(w)
  /\ UNCHANGED <<rows, scores, caller>>

Redeliver(r) ==
  /\ broker[r].state = "delivered"
  /\ broker[r].age >= Visibility
  /\ broker' = [broker EXCEPT ![r] = [state |-> "queued", age |-> 0]]
  /\ UNCHANGED <<rows, scores, caller, worker, lost>>

(* mutant: no hard time limit *)
PastHardLimitMut(age) == FALSE

PastHardLimit(age) == age >= TaskLimit

Older(age, limit) == IF age < limit THEN age + 1 ELSE age

Tick ==
  /\ \A w \in Workers : Busy(w) => ~PastHardLimit(worker[w].age)
  /\ rows' = [r \in Runs |->
       IF IsActive(r) THEN [rows[r] EXCEPT !.age = Older(@, RunningStale)] ELSE rows[r]]
  /\ broker' = [r \in Runs |->
       IF broker[r].state = "delivered"
         THEN [broker[r] EXCEPT !.age = Older(@, Visibility)] ELSE broker[r]]
  /\ worker' = [w \in Workers |->
       IF Busy(w) THEN [worker[w] EXCEPT !.age = Older(@, Visibility)] ELSE worker[w]]
  /\ UNCHANGED <<scores, caller, lost>>

NewDay ==
  /\ rows' = [r \in Runs |-> [rows[r] EXCEPT !.daily = FALSE]]
  /\ UNCHANGED <<scores, broker, caller, worker, lost>>

---------------------------------------------------------------------------------
Enqueue(c) ==
  \/ Reap(c) \/ Manual(c) \/ Mark(c) \/ Refuse(c) \/ Check(c)
  \/ \E r \in Runs : Create(c, r)
  \/ \E raised, sent \in BOOLEAN : Send(c, raised, sent)

Execute(w) ==
  \/ Start(w) \/ StartFails(w) \/ Commit(w) \/ Fail(w) \/ Finish(w) \/ Report(w)

Next ==
  \/ \E c \in Callers :
       \/ \E trigger \in Trigger : Call(c, trigger)
       \/ Enqueue(c)
       \/ CallerDies(c)
  \/ \E w \in Workers :
       \/ \E r \in Runs : Receive(w, r)
       \/ Execute(w) \/ Progress(w) \/ Kill(w) \/ LoseProcess(w)
  \/ \E r \in Runs : Redeliver(r)
  \/ Tick
  \/ NewDay

Spec == Init /\ [][Next]_vars

(* The clock runs, the broker delivers, a live worker goes on, and the daily task  *)
(* gets through now and then: one that is restarted forever at the same point is   *)
(* not considered.  Nothing is assumed of clients.                                *)
Fairness ==
  /\ WF_vars(Tick) /\ WF_vars(NewDay)
  /\ \A r \in Runs : WF_vars(Redeliver(r))
  /\ \A w \in Workers : WF_vars(Execute(w)) /\ WF_vars(\E r \in Runs : Receive(w, r))
  /\ \A c \in Callers :
       SF_vars(Call(c, "daily_beat")) /\ SF_vars(Reap(c)) /\ SF_vars(Mark(c))
         /\ WF_vars(Enqueue(c))

LiveSpec == Spec /\ Fairness

---------------------------------------------------------------------------------
(* Safety                                                                         *)

(* At-least-once delivery never has two workers in the same run: the hard time    *)
(* limit ends a task before the broker hands its message out again.  What the     *)
(* pipeline's unconditional saves rely on.                                        *)
OneWorkerPerRun ==
  \A v, w \in Workers : \A r \in Runs : Executes(v, r) /\ Executes(w, r) => v = w

(* A run that says succeeded shows its score: the metadata that status, worklist  *)
(* and run diff read is that of the committed score, although stage progress, the *)
(* reaper and the enqueue save the same column from copies of their own.          *)
SucceededShowsScore ==
  \A r \in Runs : rows[r].status = "succeeded" => rows[r].results /\ scores[r] > 0

(* No run blocks its company for ever ("Unlock soft-lock loops", dcs/status.py):  *)
(* pending or running, with its task killed, lost or never sent, a run leaves the *)
(* active states.                                                                 *)
RunsSettle == \A r \in Runs : IsActive(r) ~> ~IsActive(r)

---------------------------------------------------------------------------------
(* The inductive invariant behind OneWorkerPerRun and SucceededShowsScore         *)

(* The locals a caller and a task have set by the time they reach each pc         *)
LocalsBound ==
  /\ \A c \in Callers :
       caller[c].pc \in {"mark", "markRetry", "send"} => caller[c].run \in Runs
  /\ \A w \in Workers : Busy(w) => worker[w].run \in Runs

(* A task in progress holds its message unacknowledged, for no longer than the    *)
(* task itself has run, and is within the hard limit.                             *)
HoldsMessage ==
  \A w \in Workers : Busy(w) =>
    /\ broker[worker[w].run].state = "delivered"
    /\ broker[worker[w].run].age <= worker[w].age
    /\ worker[w].age <= TaskLimit

(* A message belongs to a run that was created, and a run about to be sent has    *)
(* none yet and a single sender.                                                  *)
SentOnce ==
  /\ \A r \in Runs : broker[r].state # "none" => rows[r].status # "absent"
  /\ \A c \in Callers : caller[c].pc = "send" =>
       /\ rows[caller[c].run].status # "absent"
       /\ broker[caller[c].run].state = "none"
       /\ \A d \in Callers :
            caller[d].pc = "send" /\ caller[d].run = caller[c].run => d = c

(* A run that a worker has not committed yet is not succeeded.                    *)
NotYetScored ==
  \A w \in Workers :
    worker[w].pc \in {"loaded", "running"} => rows[worker[w].run].status # "succeeded"

IInv ==
  /\ TypeOK
  /\ LocalsBound
  /\ HoldsMessage
  /\ SentOnce
  /\ OneWorkerPerRun
  /\ NotYetScored
  /\ SucceededShowsScore
=================================================================================
