------------------------------- MODULE Writeback -------------------------------
(* The write-back pipeline: preview, approval, execute behind the once-per-run    *)
(* gate, and rollback (dataruns/writebacks/pipeline.py, run_gate.py, rollback.py, *)
(* views.py), for one company.                                                    *)
(*                                                                                *)
(* Every HTTP request that takes more than one transaction runs in a web worker   *)
(* and advances through its own pc, so that other requests, the clock and the     *)
(* kill of the worker fall between its steps.  A database transaction is one      *)
(* step: the claim runs under the company row lock (acquire_company_execute_lock).*)
(* Time is discrete: tokens, claims and requests have ages.  gunicorn kills a     *)
(* worker whose request is WorkerTimeout old.                                     *)
EXTENDS WritebackApprovals, FiniteSets

CONSTANTS
  Jobs,            \* ids of execute jobs
  Workers,         \* web workers
  Batch,           \* effective batch cap of _execute_intents
  Irreversible,    \* checks whose intents have no supported rollback strategy
  MaxRun,          \* bound on the number of terminal DCS runs
  WorkerTimeout,   \* gunicorn --timeout
  StaleAfter       \* WRITEBACK_EXECUTING_STALE_MINUTES

ASSUME WritebackAssumption ==
  /\ Batch \in Nat \ {0}
  /\ WorkerTimeout \in Nat
  /\ StaleAfter \in Nat
  /\ MaxRun \in Nat
  /\ Irreversible \subseteq Checks
  /\ None \notin Jobs

(* The deployment kills a request (120 s) before its claim can be called stale    *)
(* (15 min).                                                                      *)
ASSUME TimeoutAssumption == WorkerTimeout < StaleAfter

VARIABLES
  run,      \* id of the latest terminal DCS data run, None before the first
  jobs,     \* WritebackJob rows with mode "execute"
  live,     \* the connected platform: whose write stands at each intent's target
  worker    \* request each web worker is serving

vars == <<previews, tokens, run, jobs, live, worker>>

Intents == 1 .. MaxReady

NoJob == [status |-> "absent", check |-> None, run |-> None, hash |-> None,
          token |-> None, executed |-> {}, standing |-> {},
          rolledBack |-> FALSE, age |-> 0]

Idle == [pc |-> "idle", check |-> None, token |-> None, hash |-> None,
         run |-> None, job |-> None, preview |-> None,
         todo |-> {}, done |-> {}, errors |-> FALSE, age |-> 0]

JobStatus == {"executing", "executed", "partial", "failed",
              "rolled_back", "rollback_partial"}

(* `executed' is what summary.executed counts, `standing' the intents stored with *)
(* status "executed"; a rollback shrinks the second and leaves the first.         *)
JobType ==
  [status : JobStatus, check : Checks, run : Nat, hash : Hashes, token : Tokens,
   executed : SUBSET Intents, standing : SUBSET Intents,
   rolledBack : BOOLEAN, age : 0 .. StaleAfter]

PC == {"idle", "revoke", "mismatch", "validate", "claim", "write", "crashed", "rollback"}

WorkerType ==
  [pc : PC, check : Checks \cup {None}, token : Tokens \cup {None},
   hash : Hashes \cup {None}, run : Nat \cup {None}, job : Jobs \cup {None},
   preview : Previews \cup {None}, todo : SUBSET Intents, done : SUBSET Intents,
   errors : BOOLEAN, age : 0 .. WorkerTimeout]

TypeOK ==
  /\ ApprovalsTypeOK
  /\ run \in Nat \cup {None}
  /\ jobs \in [Jobs -> JobType \cup {NoJob}]
  /\ live \in [Checks \X Intents -> Jobs \cup {None}]
  /\ worker \in [Workers -> WorkerType]

Init ==
  /\ ApprovalsInit
  /\ run = None
  /\ jobs = [j \in Jobs |-> NoJob]
  /\ live = [e \in Checks \X Intents |-> None]
  /\ worker = [w \in Workers |-> Idle]

---------------------------------------------------------------------------------
(* run_gate.py                                                                    *)

InFlight(job) == job.status = "executing" /\ ~job.rolledBack

(* is_successful_execute_job: the recorded count, whatever happened to it since   *)
Successful(job) == job.status \notin {"absent", "executing"} /\ job.executed # {}

(* mutant: an executing claim does not block *)
BlockingMut(job) == ~job.rolledBack /\ Successful(job)

(* find_blocking_execute_job: rows of this check and run that lock its gate       *)
Blocking(job) == ~job.rolledBack /\ (InFlight(job) \/ Successful(job))

Gate(job, c, r) == job.check = c /\ job.run = r

(* mutant: created_at is not compared with the cutoff *)
StaleMut(job) == InFlight(job)

Stale(job) == InFlight(job) /\ job.age >= StaleAfter

(* reclaim_stale_executing_jobs *)
Reclaim(c, r) ==
  [j \in Jobs |-> IF Gate(jobs[j], c, r) /\ Stale(jobs[j])
                    THEN [jobs[j] EXCEPT !.status = "failed", !.executed = {}]
                    ELSE jobs[j]]

---------------------------------------------------------------------------------
(* pipeline.py, dry run                                                           *)

(* run_writeback_pipeline in mode dry_run; the revocation of older grants is a    *)
(* transaction of its own after the preview is visible.                           *)
PreviewStart(w, p, c, h) ==
  /\ worker[w].pc = "idle"
  /\ CreatePreview(p, c, h, run)
  /\ worker' = [worker EXCEPT ![w] = [Idle EXCEPT !.pc = "revoke", !.preview = p]]
  /\ UNCHANGED <<tokens, run, jobs, live>>

PreviewRevoke(w) ==
  /\ worker[w].pc = "revoke"
  /\ RevokeSuperseded(worker[w].preview)
  /\ worker' = [worker EXCEPT ![w] = Idle]
  /\ UNCHANGED <<previews, run, jobs, live>>

---------------------------------------------------------------------------------
(* pipeline.py, execute                                                           *)

(* Intents are rebuilt from the current evidence, giving the diff h; the client   *)
(* sends the hash of the preview it saw.  The latest DCS run is read here, long   *)
(* before the lock.                                                               *)
ExecuteStart(w, c, t, h, expected) ==
  /\ worker[w].pc = "idle"
  /\ tokens[t].status # "absent"
  /\ worker' = [worker EXCEPT ![w] =
       [Idle EXCEPT !.pc = IF h = expected THEN "validate" ELSE "mismatch",
                    !.check = c, !.token = t, !.hash = h, !.run = run]]
  /\ UNCHANGED <<previews, tokens, run, jobs, live>>

(* _handle_execute on DiffHashMismatchError *)
ExecuteMismatch(w) ==
  /\ worker[w].pc = "mismatch"
  /\ RevokeMismatched(worker[w].token)
  /\ worker' = [worker EXCEPT ![w] = Idle]
  /\ UNCHANGED <<previews, run, jobs, live>>

(* The tier check and execute_allowed.  The token is read without a lock; an      *)
(* expired one is saved as EXPIRED.  Without a terminal DCS run the request ends  *)
(* with dcs_run_required after that.                                              *)
ExecuteValidate(w) ==
  LET rq == worker[w]
      tier == TierAllows(rq.check, rq.hash)
      ok == tier /\ ValidForExecute(tokens[rq.token], rq.check, rq.hash) IN
  /\ rq.pc = "validate"
  /\ tokens' = IF tier THEN [tokens EXCEPT ![rq.token] = Expire(@)] ELSE tokens
  /\ worker' = [worker EXCEPT ![w] =
                  IF ok /\ rq.run # None THEN [rq EXCEPT !.pc = "claim"] ELSE Idle]
  /\ UNCHANGED <<previews, run, jobs, live>>

(* The claim transaction, under the company lock: reclaim stale claims, look for  *)
(* a blocking job, insert the executing row, consume the token.                   *)
ExecuteClaim(w, j) ==
  LET rq == worker[w]
      fresh == Reclaim(rq.check, rq.run) IN
  /\ rq.pc = "claim"
  /\ jobs[j].status = "absent"
  /\ ~ \E k \in Jobs : Gate(fresh[k], rq.check, rq.run) /\ Blocking(fresh[k])
  /\ jobs' = [fresh EXCEPT ![j] =
       [status |-> "executing", check |-> rq.check, run |-> rq.run,
        hash |-> rq.hash, token |-> rq.token, executed |-> {}, standing |-> {},
        rolledBack |-> FALSE, age |-> 0]]
  /\ Consume(rq.token)
  /\ worker' = [worker EXCEPT ![w] =
       [rq EXCEPT !.pc = "write", !.job = j, !.todo = 1 .. Ready[rq.hash]]]
  /\ UNCHANGED <<previews, run, live>>

(* WritebackAlreadyExecutedForRunError leaves the transaction, and with it every  *)
(* reclaim, rolled back.                                                          *)
ExecuteBlocked(w) ==
  LET rq == worker[w]
      fresh == Reclaim(rq.check, rq.run) IN
  /\ rq.pc = "claim"
  /\ \E k \in Jobs : Gate(fresh[k], rq.check, rq.run) /\ Blocking(fresh[k])
  /\ worker' = [worker EXCEPT ![w] = Idle]
  /\ UNCHANGED <<previews, tokens, run, jobs, live>>

---------------------------------------------------------------------------------
(* _execute_intents and the adapters: intents go out in order, in chunks of Batch; *)
(* a chunk with an error in it is finished and then ends the loop.                *)

IsNext(i, todo) == i \in todo /\ \A k \in todo : i <= k

ChunkDone(i, h) == i % Batch = 0 \/ i = Ready[h]

(* What one adapter call can do: write and record it; report an upstream error,   *)
(* with the write lost or (a late answer) applied; raise, again with or without   *)
(* the write applied.                                                             *)
AdapterOutcome ==
  [result : {"executed", "error", "raise"}, applied : BOOLEAN] \
    {[result |-> "executed", applied |-> FALSE]}

ExecuteWrite(w, i, o) ==
  LET rq == worker[w]
      failed == rq.errors \/ o.result = "error"
      stop == failed /\ ChunkDone(i, rq.hash) IN
  /\ rq.pc = "write"
  /\ IsNext(i, rq.todo)
  /\ live' = IF o.applied THEN [live EXCEPT ![<<rq.check, i>>] = rq.job] ELSE live
  /\ worker' = [worker EXCEPT ![w] =
       IF o.result = "raise" THEN [rq EXCEPT !.pc = "crashed"]
       ELSE [rq EXCEPT !.todo = IF stop THEN {} ELSE @ \ {i},
                       !.done = IF o.result = "executed" THEN @ \cup {i} ELSE @,
                       !.errors = failed]]
  /\ UNCHANGED <<previews, tokens, run, jobs>>

(* The job row is saved from the object of the claim, without reading it again.   *)
ExecuteFinish(w) ==
  LET rq == worker[w] IN
  /\ rq.pc = "write"
  /\ rq.todo = {}
  /\ jobs' = [jobs EXCEPT ![rq.job] =
       [@ EXCEPT !.status = IF Ready[rq.hash] = 0 THEN "failed"
                            ELSE IF rq.errors THEN "partial" ELSE "executed",
                 !.executed = rq.done,
                 !.standing = rq.done]]
  /\ worker' = [worker EXCEPT ![w] = Idle]
  /\ UNCHANGED <<previews, tokens, run, live>>

(* An exception out of the adapter: failed, executed 0, whatever earlier intents  *)
(* wrote.                                                                         *)
ExecuteCrashed(w) ==
  LET rq == worker[w] IN
  /\ rq.pc = "crashed"
  /\ jobs' = [jobs EXCEPT ![rq.job] =
                 [@ EXCEPT !.status = "failed", !.executed = {}]]
  /\ worker' = [worker EXCEPT ![w] = Idle]
  /\ UNCHANGED <<previews, tokens, run, live>>

---------------------------------------------------------------------------------
(* rollback.py: no lock, no conditional update.                                   *)

Rollbackable == {"executed", "partial", "rollback_partial"}

RollbackStart(w, j) ==
  /\ worker[w].pc = "idle"
  /\ jobs[j].status \in Rollbackable
  /\ worker' = [worker EXCEPT ![w] =
       [Idle EXCEPT !.pc = "rollback", !.check = jobs[j].check, !.job = j,
                    !.todo = jobs[j].standing, !.done = jobs[j].standing]]
  /\ UNCHANGED <<previews, tokens, run, jobs, live>>

(* One executed intent: refused by its strategy, undone, or failed upstream with  *)
(* or without effect.  `done' keeps the intents still recorded as executed.       *)
RollbackIntent(w, i, undone, applied) ==
  LET rq == worker[w]
      refused == rq.check \in Irreversible IN
  /\ rq.pc = "rollback"
  /\ IsNext(i, rq.todo)
  /\ undone => applied
  /\ refused => ~undone /\ ~applied
  /\ live' = IF applied THEN [live EXCEPT ![<<rq.check, i>>] = None] ELSE live
  /\ worker' = [worker EXCEPT ![w] =
       [rq EXCEPT !.todo = @ \ {i},
                  !.done = IF undone THEN @ \ {i} ELSE @,
                  !.errors = @ \/ ~undone]]
  /\ UNCHANGED <<previews, tokens, run, jobs>>

(* mutant: rolled_back_at is set although an intent could not be undone *)
RollbackFinishMut(w) ==
  LET rq == worker[w] IN
  /\ rq.pc = "rollback"
  /\ rq.todo = {}
  /\ jobs' = [jobs EXCEPT ![rq.job] =
       [@ EXCEPT !.status = "rolled_back", !.standing = rq.done, !.rolledBack = TRUE]]
  /\ worker' = [worker EXCEPT ![w] = Idle]
  /\ UNCHANGED <<previews, tokens, run, live>>

RollbackFinish(w) ==
  LET rq == worker[w] IN
  /\ rq.pc = "rollback"
  /\ rq.todo = {}
  /\ jobs' = [jobs EXCEPT ![rq.job] =
       [@ EXCEPT !.status = IF rq.errors THEN "rollback_partial" ELSE "rolled_back",
                 !.standing = rq.done,
                 !.rolledBack = jobs[rq.job].rolledBack \/ ~rq.errors]]
  /\ worker' = [worker EXCEPT ![w] = Idle]
  /\ UNCHANGED <<previews, tokens, run, live>>

---------------------------------------------------------------------------------
(* The environment                                                                *)

(* A worker dies with its request: redeploy, out of memory, gunicorn timeout.     *)
Kill(w) ==
  /\ worker[w].pc # "idle"
  /\ worker' = [worker EXCEPT ![w] = Idle]
  /\ UNCHANGED <<previews, tokens, run, jobs, live>>

(* The latest terminal DCS run changes: a run ended, or one the reaper had failed  *)
(* was picked up by a worker after all and left the terminal states (DcsRuns).    *)
LatestRun ==
  /\ run' \in (1 .. MaxRun) \cup {None}
  /\ UNCHANGED <<previews, tokens, jobs, live, worker>>

(* Time passes, but a request that reached WorkerTimeout is killed first.         *)
Tick ==
  /\ \A w \in Workers : worker[w].pc # "idle" => worker[w].age < WorkerTimeout
  /\ AgeTokens
  /\ jobs' = [j \in Jobs |->
       IF jobs[j].status = "executing" /\ jobs[j].age < StaleAfter
         THEN [jobs[j] EXCEPT !.age = @ + 1] ELSE jobs[j]]
  /\ worker' = [w \in Workers |->
       IF worker[w].pc = "idle" THEN worker[w] ELSE [worker[w] EXCEPT !.age = @ + 1]]
  /\ UNCHANGED <<previews, run, live>>

Approvals ==
  /\ \/ \E t \in Tokens, p \in Previews : RequestApproval(t, p)
     \/ \E t \in Tokens : Approve(t)
     \/ \E t \in Tokens : Reject(t)
  /\ UNCHANGED <<run, jobs, live, worker>>

Request(w) ==
  \/ \E p \in Previews, c \in Checks, h \in Hashes : PreviewStart(w, p, c, h)
  \/ \E c \in Checks, t \in Tokens, h, e \in Hashes : ExecuteStart(w, c, t, h, e)
  \/ \E j \in Jobs : RollbackStart(w, j)

Step(w) ==
  \/ PreviewRevoke(w)
  \/ ExecuteMismatch(w)
  \/ ExecuteValidate(w)
  \/ \E j \in Jobs : ExecuteClaim(w, j)
  \/ ExecuteBlocked(w)
  \/ \E i \in Intents, o \in AdapterOutcome : ExecuteWrite(w, i, o)
  \/ ExecuteFinish(w)
  \/ ExecuteCrashed(w)
  \/ \E i \in Intents, undone, applied \in BOOLEAN : RollbackIntent(w, i, undone, applied)
  \/ RollbackFinish(w)

Next ==
  \/ Approvals
  \/ \E w \in Workers : Request(w) \/ Step(w) \/ Kill(w)
  \/ LatestRun
  \/ Tick

Spec == Init /\ [][Next]_vars

---------------------------------------------------------------------------------
(* Safety                                                                         *)

Writing(w) == worker[w].pc \in {"write", "crashed"}

Holds(job) ==
  ~job.rolledBack /\ (job.status = "executing" \/ job.executed # {})

(* At most one in-flight or successful execute per check and DCS run, until a     *)
(* rollback or a newer run (PRD_WB_07 product rule 1; find_blocking_execute_job   *)
(* under acquire_company_execute_lock).                                           *)
OncePerRun ==
  \A j, k \in Jobs :
    /\ Holds(jobs[j]) /\ Holds(jobs[k])
    /\ jobs[j].check = jobs[k].check /\ jobs[j].run = jobs[k].run
    => j = k

(* Whoever writes to the platform still holds the claim it took: no other request *)
(* has reclaimed its job as stale, and no one else writes under it.  The final    *)
(* save in pipeline.py, which does not read the row again, relies on this.        *)
WriterHoldsClaim ==
  \A w \in Workers : Writing(w) =>
    /\ InFlight(jobs[worker[w].job])
    /\ \A v \in Workers : Writing(v) /\ worker[v].job = worker[w].job => v = w

(* Every execute job carries a token that an admin approved for exactly this      *)
(* check and this diff and that is now spent; a pending or rejected token never   *)
(* writes (execute_allowed, evaluated before the lock and not again under it).    *)
NoUnapprovedExecute ==
  \A j \in Jobs : jobs[j].status # "absent" =>
    LET tok == tokens[jobs[j].token] IN
    /\ tok.status \in {"APPROVED", "REVOKED", "EXPIRED"}
    /\ tok.consumed
    /\ tok.check = jobs[j].check
    /\ tok.hash = jobs[j].hash

(* A job whose rollback opened the gate again has none of its recorded writes     *)
(* standing on the platform, however many rollbacks of it ran at once.            *)
RolledBackIsUndone ==
  \A j \in Jobs : jobs[j].rolledBack =>
    \A i \in jobs[j].executed : live[<<jobs[j].check, i>>] # j

---------------------------------------------------------------------------------
(* The inductive invariant behind OncePerRun, WriterHoldsClaim and                *)
(* NoUnapprovedExecute                                                            *)

(* The locals a request has set by the time it reaches each pc                    *)
RequestBound ==
  \A w \in Workers : LET rq == worker[w] IN
    /\ rq.pc = "revoke" => rq.preview \in Previews
    /\ rq.pc \in {"mismatch", "validate", "claim", "write", "crashed"} =>
         /\ rq.check \in Checks /\ rq.hash \in Hashes /\ rq.token \in Tokens
         /\ tokens[rq.token].status # "absent"
    /\ rq.pc = "claim" => rq.run \in Nat
    /\ rq.pc \in {"write", "crashed", "rollback"} => rq.job \in Jobs
    /\ rq.pc = "rollback" => rq.check \in Checks

(* A claim is never older than the request that made it, hence never stale while  *)
(* that request lives.                                                            *)
ClaimAge ==
  \A w \in Workers : Writing(w) => jobs[worker[w].job].age <= worker[w].age

(* A job picked for rollback is settled, and a settled job stays so.              *)
Settled == Rollbackable \cup {"rolled_back"}

RollbackTarget ==
  \A w \in Workers :
    worker[w].pc = "rollback" => jobs[worker[w].job].status \in Settled

(* What a token keeps once validate_approval_for_execute has accepted it          *)
Granted(tok, c, h) ==
  tok.status \in {"APPROVED", "REVOKED", "EXPIRED"} /\ tok.check = c /\ tok.hash = h

GrantKept ==
  \A w \in Workers : LET rq == worker[w] IN
    rq.pc = "claim" => Granted(tokens[rq.token], rq.check, rq.hash)

(* All of it: what every reachable state satisfies, strong enough to be preserved *)
(* by each step on its own.                                                       *)
IInv ==
  /\ TypeOK
  /\ RequestBound
  /\ OncePerRun
  /\ WriterHoldsClaim
  /\ ClaimAge
  /\ RollbackTarget
  /\ GrantKept
  /\ NoUnapprovedExecute

(* The strengthening behind RolledBackIsUndone: what a settled row, or a rollback *)
(* still at work, no longer counts as executed is off the platform.               *)
UndoneInv ==
  /\ \A j \in Jobs : jobs[j].status \in Settled =>
       \A i \in jobs[j].executed \ jobs[j].standing : live[<<jobs[j].check, i>>] # j
  /\ \A w \in Workers : LET rq == worker[w] IN rq.pc = "rollback" =>
       /\ rq.check = jobs[rq.job].check
       /\ \A i \in jobs[rq.job].executed \ rq.done : live[<<rq.check, i>>] # rq.job
       /\ ~rq.errors => rq.done \subseteq rq.todo
  /\ \A j \in Jobs : jobs[j].rolledBack => jobs[j].status \in Settled
  /\ RolledBackIsUndone

---------------------------------------------------------------------------------
(* The gate this pipeline implements                                              *)

Gates == Checks \X (1 .. MaxRun)

HolderOf(g) == {j \in Jobs : Blocking(jobs[j]) /\ Gate(jobs[j], g[1], g[2])}

GateOf(g) ==
  LET holders == HolderOf(g) IN
  IF holders = {} THEN [phase |-> "open", job |-> None]
  ELSE LET j == CHOOSE k \in holders : TRUE IN
       [phase |-> IF InFlight(jobs[j]) THEN "claimed" ELSE "written", job |-> j]

Abstract == INSTANCE OncePerRunGate WITH
  gate <- [g \in Gates |-> GateOf(g)],
  writers <- {worker[w].job : w \in {v \in Workers : Writing(v)}}

(* The pipeline implements the abstract gate.                                     *)
ImplementsGate == Abstract!Spec
=================================================================================
