----------------------------- MODULE WritebackProofs -----------------------------
(* Proofs about the write-back pipeline, for every number of workers, jobs,       *)
(* tokens, checks and intents and for every TTL, provided a request is killed     *)
(* before its claim can be called stale (TimeoutAssumption).                      *)
EXTENDS Writeback, TLAPS

(* What the provers need to know of the constants                                 *)
LEMMA ConstantTypes ==
  /\ TTL \in Nat /\ TTL # 0 /\ MaxReady \in Nat
  /\ \A h \in Hashes : Ready[h] \in 0 .. MaxReady
  /\ WorkerTimeout \in Nat /\ StaleAfter \in Nat /\ WorkerTimeout < StaleAfter
  /\ None \notin Jobs /\ None \notin Tokens /\ None \notin Previews
BY ApprovalsAssumption, WritebackAssumption, TimeoutAssumption

(* The empty tables satisfy the invariant. *)
LEMMA InitIInv == Init => IInv
<1> SUFFICES ASSUME Init PROVE IInv
  OBVIOUS
<1> USE ConstantTypes DEF Init, ApprovalsInit, NoPreview, NoToken, NoJob, Idle
<1>1. TypeOK
  BY DEF TypeOK, ApprovalsTypeOK, WorkerType, PC
<1>2. RequestBound /\ ClaimAge /\ RollbackTarget /\ GrantKept /\ WriterHoldsClaim
  BY DEF RequestBound, ClaimAge, RollbackTarget, GrantKept, WriterHoldsClaim, Writing
<1>3. OncePerRun /\ NoUnapprovedExecute
  BY DEF OncePerRun, NoUnapprovedExecute, Holds
<1> QED
  BY <1>1, <1>2, <1>3 DEF IInv

(* Approval requests, grants and refusals touch only token rows: none is removed, *)
(* none leaves the statuses in which it may back an execute.                      *)
LEMMA ApprovalsStep == IInv /\ Approvals => IInv'
<1> SUFFICES ASSUME IInv, Approvals PROVE IInv'
  OBVIOUS
<1> USE ConstantTypes DEF IInv
<1>1. \A t \in Tokens :
        /\ tokens'[t] \in TokenType \cup {NoToken}
        /\ tokens[t].status # "absent" => tokens'[t].status # "absent"
        /\ tokens[t].status \in {"APPROVED", "REVOKED", "EXPIRED"} => tokens'[t] = tokens[t]
  <2> USE DEF TypeOK, ApprovalsTypeOK, TokenType, TokenStatus, NoToken
  <2>1. CASE \E t \in Tokens, p \in Previews : RequestApproval(t, p)
    BY <2>1 DEF RequestApproval, PreviewType, NoPreview
  <2>2. CASE \E t \in Tokens : Approve(t)
    BY <2>2 DEF Approve, Expire, PastTTL
  <2>3. CASE \E t \in Tokens : Reject(t)
    BY <2>3 DEF Reject, Expire, PastTTL
  <2> QED
    BY <2>1, <2>2, <2>3 DEF Approvals
<1>2. UNCHANGED <<previews, run, jobs, live, worker>> /\ tokens' \in [Tokens -> TokenType \cup {NoToken}]
  BY <1>1 DEF Approvals, RequestApproval, Approve, Reject, TypeOK, ApprovalsTypeOK
<1>3. TypeOK'
  BY <1>2 DEF TypeOK, ApprovalsTypeOK
<1>4. RequestBound'
  BY <1>1, <1>2 DEF RequestBound
<1>5. (OncePerRun /\ WriterHoldsClaim /\ ClaimAge /\ RollbackTarget)'
  BY <1>2 DEF OncePerRun, WriterHoldsClaim, ClaimAge, RollbackTarget, Writing, Holds, InFlight
<1>6. (GrantKept /\ NoUnapprovedExecute)'
  BY <1>1, <1>2 DEF GrantKept, Granted, NoUnapprovedExecute, RequestBound, TypeOK, JobType, NoJob
<1> QED
  BY <1>3, <1>4, <1>5, <1>6

(* Steps of a worker that write no job row: only its own request changes, and at  *)
(* most token rows, none of which loses what it is needed for.                    *)
LEMMA QuietStep ==
  ASSUME IInv,
         NEW w \in Workers, NEW rq \in WorkerType,
         worker' = [worker EXCEPT ![w] = rq],
         UNCHANGED <<run, jobs>>,
         previews' \in [Previews -> PreviewType \cup {NoPreview}],
         tokens' \in [Tokens -> TokenType \cup {NoToken}],
         live' \in [Checks \X Intents -> Jobs \cup {None}],
         \A t \in Tokens :
           /\ tokens[t].status # "absent" => tokens'[t].status # "absent"
           /\ \A c \in Checks, h \in Hashes :
                Granted(tokens[t], c, h) => Granted(tokens'[t], c, h)
           /\ tokens[t].consumed => tokens'[t].consumed,
         (* the request's new locals are bound, and it writes under its old job   *)
         rq.pc = "revoke" => rq.preview \in Previews,
         rq.pc \in {"mismatch", "validate", "claim", "write", "crashed"} =>
           /\ rq.check \in Checks /\ rq.hash \in Hashes /\ rq.token \in Tokens
           /\ tokens'[rq.token].status # "absent",
         rq.pc = "claim" => rq.run \in Nat /\ Granted(tokens'[rq.token], rq.check, rq.hash),
         rq.pc \in {"write", "crashed"} =>
           Writing(w) /\ rq.job = worker[w].job /\ rq.age = worker[w].age,
         rq.pc = "rollback" =>
           rq.job \in Jobs /\ rq.check \in Checks /\ jobs[rq.job].status \in Settled
  PROVE  IInv'
<1> USE ConstantTypes DEF IInv
<1>1. TypeOK'
  BY DEF TypeOK, ApprovalsTypeOK
<1>2. worker' \in [Workers -> WorkerType] /\ \A v \in Workers : worker'[v] = IF v = w THEN rq ELSE worker[v]
  BY DEF TypeOK
<1>3. RequestBound'
  BY <1>2 DEF RequestBound, Writing
<1>4. (OncePerRun /\ WriterHoldsClaim)'
  BY <1>2 DEF OncePerRun, WriterHoldsClaim, Writing, Holds, InFlight
<1>5. (ClaimAge /\ RollbackTarget)'
  BY <1>2 DEF ClaimAge, RollbackTarget, Writing
<1>6. GrantKept'
  BY <1>2 DEF GrantKept, RequestBound
<1>7. NoUnapprovedExecute'
  <2> SUFFICES ASSUME NEW j \in Jobs, jobs[j].status # "absent"
               PROVE  /\ Granted(tokens'[jobs[j].token], jobs[j].check, jobs[j].hash)
                      /\ tokens'[jobs[j].token].consumed
    BY DEF NoUnapprovedExecute, Granted
  <2>1. jobs[j].token \in Tokens /\ jobs[j].check \in Checks /\ jobs[j].hash \in Hashes
    BY DEF TypeOK, JobType, NoJob
  <2> QED
    BY <2>1 DEF NoUnapprovedExecute, Granted
<1> QED
  BY <1>1, <1>3, <1>4, <1>5, <1>6, <1>7

(* An idle worker's locals are all null. *)
LEMMA IdleType == Idle \in WorkerType
BY ConstantTypes DEF Idle, WorkerType, PC

(* The requests that only move their own pc: the start of each request, the kill, *)
(* the refusal at the gate and the steps of a rollback on the platform.           *)
LEMMA RequestStep ==
  ASSUME IInv, NEW w \in Workers, Request(w)
  PROVE  IInv'
<1> USE ConstantTypes, IdleType DEF IInv
<1>1. ASSUME NEW p \in Previews, NEW c \in Checks, NEW h \in Hashes, PreviewStart(w, p, c, h)
      PROVE  IInv'
  <2> DEFINE rq == [Idle EXCEPT !.pc = "revoke", !.preview = p]
  <2>1. rq \in WorkerType
    BY DEF Idle, WorkerType, PC
  <2>2. previews' \in [Previews -> PreviewType \cup {NoPreview}]
    BY <1>1 DEF PreviewStart, CreatePreview, PreviewType, TypeOK, ApprovalsTypeOK
  <2>3. rq.pc = "revoke" /\ rq.preview = p
    BY DEF Idle
  <2> QED
    BY <1>1, <2>1, <2>2, <2>3, QuietStep DEF PreviewStart, TypeOK, ApprovalsTypeOK
<1>2. ASSUME NEW c \in Checks, NEW t \in Tokens, NEW h \in Hashes, NEW e \in Hashes,
             ExecuteStart(w, c, t, h, e)
      PROVE  IInv'
  <2> DEFINE rq == [Idle EXCEPT !.pc = IF h = e THEN "validate" ELSE "mismatch",
                      !.check = c, !.token = t, !.hash = h, !.run = run]
  <2>1. rq \in WorkerType
    BY DEF Idle, WorkerType, PC, TypeOK
  <2>2. rq.pc \in {"validate", "mismatch"} /\ rq.check = c /\ rq.token = t /\ rq.hash = h
    BY DEF Idle
  <2>3. worker' = [worker EXCEPT ![w] = rq] /\ UNCHANGED <<previews, tokens, run, jobs, live>>
          /\ tokens[t].status # "absent"
    BY <1>2 DEF ExecuteStart
  <2> HIDE DEF rq
  <2> QED
    BY <2>1, <2>2, <2>3, QuietStep DEF TypeOK, ApprovalsTypeOK
<1>3. ASSUME NEW j \in Jobs, RollbackStart(w, j)
      PROVE  IInv'
  <2> DEFINE rq == [Idle EXCEPT !.pc = "rollback", !.check = jobs[j].check, !.job = j,
                      !.todo = jobs[j].standing, !.done = jobs[j].standing]
  <2>1. jobs[j] \in JobType /\ jobs[j].status \in Settled
    BY <1>3 DEF RollbackStart, TypeOK, NoJob, Rollbackable, Settled
  <2>2. rq \in WorkerType
    BY <2>1 DEF Idle, WorkerType, PC, JobType
  <2>3. rq.pc = "rollback" /\ rq.check = jobs[j].check /\ rq.job = j
    BY DEF Idle
  <2>4. worker' = [worker EXCEPT ![w] = rq] /\ UNCHANGED <<previews, tokens, run, jobs, live>>
          /\ jobs[j].check \in Checks
    BY <1>3, <2>1 DEF RollbackStart, JobType
  <2> HIDE DEF rq
  <2> QED
    BY <2>1, <2>2, <2>3, <2>4, QuietStep DEF TypeOK, ApprovalsTypeOK
<1> QED
  BY <1>1, <1>2, <1>3 DEF Request

(* A request that ends, with tokens that lose nothing an execute rests on         *)
LEMMA EndStep ==
  ASSUME IInv, NEW w \in Workers,
         worker' = [worker EXCEPT ![w] = Idle],
         UNCHANGED <<previews, run, jobs, live>>,
         tokens' \in [Tokens -> TokenType \cup {NoToken}],
         \A t \in Tokens :
           /\ tokens[t].status # "absent" => tokens'[t].status # "absent"
           /\ \A c \in Checks, h \in Hashes :
                Granted(tokens[t], c, h) => Granted(tokens'[t], c, h)
           /\ tokens[t].consumed => tokens'[t].consumed
  PROVE  IInv'
<1>1. Idle.pc = "idle"
  BY DEF Idle
<1> QED
  BY <1>1, IdleType, QuietStep DEF IInv, TypeOK, ApprovalsTypeOK

(* Revoking APPROVED tokens takes nothing from an execute that was granted before. *)
LEMMA RevokeKeeps ==
  ASSUME IInv,
         tokens' = [t \in Tokens |-> tokens'[t]],
         \A t \in Tokens : tokens'[t] = tokens[t] \/
           /\ tokens[t].status = "APPROVED"
           /\ tokens'[t] = [tokens[t] EXCEPT !.status = "REVOKED"]
  PROVE  /\ tokens' \in [Tokens -> TokenType \cup {NoToken}]
         /\ \A t \in Tokens :
              /\ tokens[t].status # "absent" => tokens'[t].status # "absent"
              /\ \A c \in Checks, h \in Hashes :
                   Granted(tokens[t], c, h) => Granted(tokens'[t], c, h)
              /\ tokens[t].consumed => tokens'[t].consumed
<1>1. \A t \in Tokens : tokens[t].status = "APPROVED" => tokens[t] \in TokenType
  BY DEF IInv, TypeOK, ApprovalsTypeOK, NoToken
<1>2. \A t \in Tokens : tokens[t].status = "APPROVED" =>
        LET new == [tokens[t] EXCEPT !.status = "REVOKED"] IN
        /\ new \in TokenType /\ new.status = "REVOKED" /\ new.check = tokens[t].check
        /\ new.hash = tokens[t].hash /\ new.consumed = tokens[t].consumed
  BY <1>1 DEF TokenType, TokenStatus
<1>3. \A t \in Tokens : tokens'[t] \in TokenType \cup {NoToken}
  BY <1>2 DEF IInv, TypeOK, ApprovalsTypeOK
<1>4. \A t \in Tokens :
        /\ tokens[t].status # "absent" => tokens'[t].status # "absent"
        /\ \A c \in Checks, h \in Hashes :
             Granted(tokens[t], c, h) => Granted(tokens'[t], c, h)
        /\ tokens[t].consumed => tokens'[t].consumed
  BY <1>2 DEF Granted
<1>5. tokens' \in [Tokens -> TokenType \cup {NoToken}]
  BY <1>3
<1> QED
  BY <1>4, <1>5

(* Steps that only revoke tokens, and end their request *)
LEMMA TokenSteps ==
  ASSUME IInv, NEW w \in Workers, PreviewRevoke(w) \/ ExecuteMismatch(w)
  PROVE  IInv'
<1>1. tokens' = [t \in Tokens |-> tokens'[t]] /\
      \A t \in Tokens : tokens'[t] = tokens[t] \/
        /\ tokens[t].status = "APPROVED"
        /\ tokens'[t] = [tokens[t] EXCEPT !.status = "REVOKED"]
  <2>1. CASE PreviewRevoke(w)
    BY <2>1 DEF PreviewRevoke, RevokeSuperseded, Superseded
  <2>2. CASE ExecuteMismatch(w)
    BY <2>2 DEF ExecuteMismatch, RevokeMismatched, IInv, TypeOK, ApprovalsTypeOK
  <2> QED
    BY <2>1, <2>2
<1>2. worker' = [worker EXCEPT ![w] = Idle] /\ UNCHANGED <<previews, run, jobs, live>>
  BY DEF PreviewRevoke, ExecuteMismatch
<1> QED
  BY <1>1, <1>2, RevokeKeeps, EndStep

(* The tier check and the validation of the grant *)
LEMMA ValidateStep ==
  ASSUME IInv, NEW w \in Workers, ExecuteValidate(w)
  PROVE  IInv'
<1> USE ConstantTypes DEF IInv
<1> DEFINE rq == worker[w]
           tok == tokens[rq.token]
           next == [rq EXCEPT !.pc = "claim"]
<1>1. /\ rq.check \in Checks /\ rq.hash \in Hashes /\ rq.token \in Tokens
      /\ tok \in TokenType /\ rq \in WorkerType
  BY DEF ExecuteValidate, RequestBound, TypeOK, ApprovalsTypeOK, NoToken
<1>2. Expire(tok) \in TokenType /\ Expire(tok).check = tok.check
        /\ Expire(tok).hash = tok.hash /\ Expire(tok).consumed = tok.consumed
        /\ (Expire(tok).status = tok.status \/ Expire(tok).status = "EXPIRED")
  BY <1>1 DEF Expire, TokenType, TokenStatus
<1>3. \A t \in Tokens : tokens'[t] = tokens[t] \/ (t = rq.token /\ tokens'[t] = Expire(tok))
  BY DEF ExecuteValidate, TypeOK, ApprovalsTypeOK
<1>4. tokens' \in [Tokens -> TokenType \cup {NoToken}]
  BY <1>2, <1>3 DEF ExecuteValidate, TypeOK, ApprovalsTypeOK
<1>5. \A t \in Tokens :
        /\ tokens[t].status # "absent" => tokens'[t].status # "absent"
        /\ \A c \in Checks, h \in Hashes :
             Granted(tokens[t], c, h) => Granted(tokens'[t], c, h)
        /\ tokens[t].consumed => tokens'[t].consumed
  BY <1>1, <1>2, <1>3 DEF Granted
<1>6. CASE worker' = [worker EXCEPT ![w] = Idle]
  BY <1>4, <1>5, <1>6, EndStep DEF ExecuteValidate
<1>7. CASE /\ worker' = [worker EXCEPT ![w] = next]
           /\ ValidForExecute(tok, rq.check, rq.hash) /\ rq.run # None
  <2>1. next \in WorkerType /\ next.pc = "claim" /\ next.check = rq.check
          /\ next.hash = rq.hash /\ next.token = rq.token /\ next.run = rq.run
    BY <1>1 DEF WorkerType, PC
  <2>2. next.run \in Nat
    BY <1>1, <1>7, <2>1 DEF WorkerType
  <2>3. tokens'[rq.token].status # "absent"
    BY <1>1, <1>5 DEF TokenType, TokenStatus
  <2>4. Granted(tokens'[rq.token], rq.check, rq.hash)
    <3>1. Granted(tok, rq.check, rq.hash)
      BY <1>1, <1>7 DEF Granted, ValidForExecute, Expire, TokenType
    <3> QED
      BY <3>1, <1>1, <1>5
  <2>5. worker' = [worker EXCEPT ![w] = next] /\ UNCHANGED <<previews, run, jobs, live>>
    BY <1>7 DEF ExecuteValidate
  <2> HIDE DEF next, rq, tok
  <2> QED
    BY <1>1, <1>4, <1>5, <2>1, <2>2, <2>3, <2>4, <2>5, QuietStep DEF TypeOK, ApprovalsTypeOK
<1> QED
  BY <1>6, <1>7 DEF ExecuteValidate

(* Reclaiming never touches the job of a live writer, and frees gates only. *)
LEMMA ReclaimRows ==
  ASSUME IInv, NEW c, NEW r
  PROVE  /\ Reclaim(c, r) \in [Jobs -> JobType \cup {NoJob}]
         /\ \A k \in Jobs :
              LET new == Reclaim(c, r)[k] IN
              /\ new = jobs[k] \/ (new.status = "failed" /\ new.executed = {})
              /\ new.status = "absent" <=> jobs[k].status = "absent"
              /\ new.check = jobs[k].check /\ new.run = jobs[k].run
              /\ new.hash = jobs[k].hash /\ new.token = jobs[k].token
              /\ Holds(new) => Holds(jobs[k])
              /\ new.status \in Settled <=> jobs[k].status \in Settled
         /\ \A v \in Workers : Writing(v) =>
              Reclaim(c, r)[worker[v].job] = jobs[worker[v].job]
<1> USE ConstantTypes DEF IInv
<1>1. \A k \in Jobs : jobs[k] \in JobType \cup {NoJob}
  BY DEF TypeOK
<1>2. ASSUME NEW k \in Jobs, Stale(jobs[k])
      PROVE  LET new == [jobs[k] EXCEPT !.status = "failed", !.executed = {}] IN
             /\ new \in JobType /\ new.status = "failed" /\ new.executed = {}
             /\ new.check = jobs[k].check /\ new.run = jobs[k].run
             /\ new.hash = jobs[k].hash /\ new.token = jobs[k].token
             /\ jobs[k].status = "executing"
  <2>1. jobs[k].status = "executing"
    BY <1>2 DEF Stale, InFlight
  <2>2. jobs[k] \in JobType
    BY <1>1, <2>1 DEF NoJob
  <2> QED
    BY <2>1, <2>2 DEF JobType, JobStatus
<1>3. \A k \in Jobs : Reclaim(c, r)[k] = jobs[k] \/
        (Stale(jobs[k]) /\ Reclaim(c, r)[k] = [jobs[k] EXCEPT !.status = "failed", !.executed = {}])
  BY DEF Reclaim
<1>4. Reclaim(c, r) \in [Jobs -> JobType \cup {NoJob}]
  BY <1>1, <1>2 DEF Reclaim
<1>5. ASSUME NEW v \in Workers, Writing(v)
      PROVE  ~Stale(jobs[worker[v].job])
  <2>1. worker[v].job \in Jobs /\ worker[v] \in WorkerType
    BY <1>5 DEF Writing, RequestBound, TypeOK
  <2>2. jobs[worker[v].job].age <= worker[v].age /\ InFlight(jobs[worker[v].job])
    BY <1>5 DEF ClaimAge, WriterHoldsClaim
  <2>3. jobs[worker[v].job] \in JobType
    BY <1>1, <2>1, <2>2 DEF InFlight, NoJob
  <2> QED
    BY <2>1, <2>2, <2>3 DEF Stale, WorkerType, JobType
<1>6. \A v \in Workers : Writing(v) =>
        worker[v].job \in Jobs /\ Reclaim(c, r)[worker[v].job] = jobs[worker[v].job]
  BY <1>3, <1>5 DEF Writing, RequestBound
<1>7. ASSUME NEW k \in Jobs
      PROVE  LET new == Reclaim(c, r)[k] IN
             /\ new = jobs[k] \/ (new.status = "failed" /\ new.executed = {})
             /\ new.status = "absent" <=> jobs[k].status = "absent"
             /\ new.check = jobs[k].check /\ new.run = jobs[k].run
             /\ new.hash = jobs[k].hash /\ new.token = jobs[k].token
             /\ Holds(new) => Holds(jobs[k])
             /\ new.status \in Settled <=> jobs[k].status \in Settled
  <2>1. CASE Reclaim(c, r)[k] = jobs[k]
    BY <2>1
  <2>2. CASE Stale(jobs[k]) /\ Reclaim(c, r)[k] = [jobs[k] EXCEPT !.status = "failed", !.executed = {}]
    BY <1>2, <2>2 DEF Holds, Settled, Rollbackable
  <2> QED
    BY <1>3, <2>1, <2>2
<1> QED
  BY <1>4, <1>6, <1>7

(* The claim: no other row holds this gate under the lock, and every live writer  *)
(* keeps the row it claimed.                                                      *)
LEMMA ClaimStep ==
  ASSUME IInv, NEW w \in Workers, NEW j \in Jobs, ExecuteClaim(w, j)
  PROVE  IInv'
<1> DEFINE rq == worker[w]
           fresh == Reclaim(rq.check, rq.run)
           row == [status |-> "executing", check |-> rq.check, run |-> rq.run,
                   hash |-> rq.hash, token |-> rq.token, executed |-> {},
                   standing |-> {}, rolledBack |-> FALSE, age |-> 0]
           next == [rq EXCEPT !.pc = "write", !.job = j, !.todo = 1 .. Ready[rq.hash]]
<1> USE ConstantTypes DEF IInv
<1>1. /\ rq \in WorkerType /\ rq.check \in Checks /\ rq.hash \in Hashes
      /\ rq.token \in Tokens /\ rq.run \in Nat /\ jobs[j].status = "absent"
      /\ tokens[rq.token] \in TokenType /\ Granted(tokens[rq.token], rq.check, rq.hash)
      /\ rq.pc = "claim"
  BY DEF ExecuteClaim, RequestBound, TypeOK, ApprovalsTypeOK, GrantKept, NoToken
<1>2. row \in JobType
  BY <1>1 DEF JobType, JobStatus
<1>3. /\ next \in WorkerType /\ next.pc = "write" /\ next.job = j /\ next.age = rq.age
      /\ next.check = rq.check /\ next.hash = rq.hash /\ next.token = rq.token
  <2>1. 1 .. Ready[rq.hash] \in SUBSET Intents
    BY <1>1 DEF Intents
  <2> QED
    BY <1>1, <2>1 DEF WorkerType, PC
<1>4. /\ worker' \in [Workers -> WorkerType]
      /\ worker'[w] = next /\ \A v \in Workers : v # w => worker'[v] = worker[v]
  BY <1>3 DEF ExecuteClaim, TypeOK
<1>5. /\ jobs' \in [Jobs -> JobType \cup {NoJob}]
      /\ jobs'[j] = row /\ \A k \in Jobs : k # j => jobs'[k] = fresh[k]
  BY <1>2, ReclaimRows DEF ExecuteClaim
<1>6. /\ tokens' \in [Tokens -> TokenType \cup {NoToken}]
      /\ tokens'[rq.token].consumed
      /\ \A t \in Tokens :
           /\ tokens'[t].status = tokens[t].status /\ tokens'[t].check = tokens[t].check
           /\ tokens'[t].hash = tokens[t].hash
           /\ tokens[t].consumed => tokens'[t].consumed
  <2>1. tokens' = [tokens EXCEPT ![rq.token] = [tokens[rq.token] EXCEPT !.consumed = TRUE]]
    BY DEF ExecuteClaim, Consume
  <2>2. [tokens[rq.token] EXCEPT !.consumed = TRUE] \in TokenType
    BY <1>1 DEF TokenType
  <2> QED
    BY <1>1, <2>1, <2>2 DEF TypeOK, ApprovalsTypeOK, TokenType
<1>7. UNCHANGED <<previews, run, live>>
  BY DEF ExecuteClaim
<1>8. \A v \in Workers : v # w /\ Writing(v) =>
        /\ worker[v].job \in Jobs /\ worker[v].job # j
        /\ jobs'[worker[v].job] = jobs[worker[v].job]
  <2> SUFFICES ASSUME NEW v \in Workers, v # w, Writing(v)
               PROVE  /\ worker[v].job \in Jobs /\ worker[v].job # j
                      /\ fresh[worker[v].job] = jobs[worker[v].job]
    BY <1>5
  <2>1. worker[v].job \in Jobs /\ jobs[worker[v].job].status = "executing"
    BY DEF Writing, RequestBound, WriterHoldsClaim, InFlight
  <2> QED
    BY <1>1, <2>1, ReclaimRows
<1>9. ASSUME NEW k \in Jobs, k # j, Holds(fresh[k])
      PROVE  ~(fresh[k].check = rq.check /\ fresh[k].run = rq.run)
  <2>1. fresh[k] \in JobType \cup {NoJob}
    BY ReclaimRows
  <2>2. Blocking(fresh[k])
    BY <1>9, <2>1 DEF Blocking, Holds, InFlight, Successful, JobType, JobStatus, NoJob
  <2> QED
    BY <2>2 DEF ExecuteClaim, Gate
<1> HIDE DEF row, next, fresh
<1>10. TypeOK'
  BY <1>4, <1>5, <1>6, <1>7 DEF TypeOK, ApprovalsTypeOK
<1>11. RequestBound'
  BY <1>1, <1>3, <1>4, <1>6 DEF RequestBound
<1>12. OncePerRun'
  <2> SUFFICES ASSUME NEW k \in Jobs, NEW l \in Jobs, k # l,
                      Holds(jobs'[k]), Holds(jobs'[l]),
                      jobs'[k].check = jobs'[l].check, jobs'[k].run = jobs'[l].run
               PROVE  FALSE
    BY DEF OncePerRun
  <2>1. CASE k # j /\ l # j
    <3>1. \A x \in Jobs : x # j => /\ Holds(jobs'[x]) => Holds(jobs[x])
                                   /\ jobs'[x].check = jobs[x].check /\ jobs'[x].run = jobs[x].run
      BY <1>5, ReclaimRows DEF fresh
    <3> QED
      BY <2>1, <3>1 DEF OncePerRun
  <2>2. row.check = rq.check /\ row.run = rq.run
    BY DEF row
  <2> QED
    BY <1>5, <1>9, <2>1, <2>2
<1>13. WriterHoldsClaim'
  <2>1. InFlight(row)
    BY DEF row, InFlight
  <2> QED
    BY <1>3, <1>4, <1>5, <1>8, <2>1 DEF WriterHoldsClaim, Writing, InFlight
<1>14. ClaimAge'
  <2>1. row.age = 0 /\ next.age \in Nat
    BY <1>3 DEF row, WorkerType
  <2> QED
    BY <1>3, <1>4, <1>5, <1>8, <2>1 DEF ClaimAge, Writing
<1>15. RollbackTarget'
  <2> SUFFICES ASSUME NEW v \in Workers, worker'[v].pc = "rollback"
               PROVE  jobs'[worker'[v].job].status \in Settled
    BY DEF RollbackTarget
  <2>1. v # w /\ worker'[v] = worker[v]
    BY <1>3, <1>4
  <2>2. worker[v].job \in Jobs /\ jobs[worker[v].job].status \in Settled
    BY <2>1 DEF RequestBound, RollbackTarget
  <2>3. worker[v].job # j
    BY <1>1, <2>2 DEF Settled, Rollbackable
  <2> QED
    BY <1>5, <2>1, <2>2, <2>3, ReclaimRows DEF fresh
<1>16. GrantKept'
  BY <1>3, <1>4, <1>6 DEF GrantKept, Granted, RequestBound
<1>17. NoUnapprovedExecute'
  <2> SUFFICES ASSUME NEW k \in Jobs, jobs'[k].status # "absent"
               PROVE  /\ Granted(tokens'[jobs'[k].token], jobs'[k].check, jobs'[k].hash)
                      /\ tokens'[jobs'[k].token].consumed
    BY DEF NoUnapprovedExecute, Granted
  <2>1. CASE k = j
    BY <1>1, <1>5, <1>6, <2>1 DEF row, Granted
  <2>2. CASE k # j
    <3>1. /\ jobs[k].status # "absent" /\ jobs'[k].token = jobs[k].token
          /\ jobs'[k].check = jobs[k].check /\ jobs'[k].hash = jobs[k].hash
      BY <1>5, <2>2, ReclaimRows DEF fresh
    <3>2. jobs[k].token \in Tokens
      BY <3>1 DEF TypeOK, JobType, NoJob
    <3> QED
      BY <1>6, <3>1, <3>2 DEF NoUnapprovedExecute, Granted
  <2> QED
    BY <2>1, <2>2
<1> QED
  BY <1>10, <1>11, <1>12, <1>13, <1>14, <1>15, <1>16, <1>17

(* One adapter call: the claim of the writer stays what it was. *)
LEMMA WriteStep ==
  ASSUME IInv, NEW w \in Workers, NEW i \in Intents, NEW o \in AdapterOutcome,
         ExecuteWrite(w, i, o)
  PROVE  IInv'
<1> USE ConstantTypes DEF IInv
<1> DEFINE rq == worker[w]
           failed == rq.errors \/ o.result = "error"
           stop == failed /\ ChunkDone(i, rq.hash)
           next == IF o.result = "raise" THEN [rq EXCEPT !.pc = "crashed"]
                   ELSE [rq EXCEPT !.todo = IF stop THEN {} ELSE @ \ {i},
                                   !.done = IF o.result = "executed" THEN @ \cup {i} ELSE @,
                                   !.errors = failed]
<1>1. /\ rq \in WorkerType /\ rq.pc = "write" /\ rq.check \in Checks /\ rq.job \in Jobs
      /\ rq.hash \in Hashes /\ rq.token \in Tokens /\ tokens[rq.token].status # "absent"
  BY DEF ExecuteWrite, TypeOK, RequestBound
<1>2. o.result \in {"executed", "error", "raise"} /\ failed \in BOOLEAN
  BY <1>1 DEF AdapterOutcome, WorkerType
<1>3. next \in WorkerType
  <2>1. CASE o.result = "raise"
    BY <1>1, <2>1 DEF WorkerType, PC
  <2>2. CASE o.result # "raise"
    <3> DEFINE todo == IF stop THEN {} ELSE rq.todo \ {i}
               done == IF o.result = "executed" THEN rq.done \cup {i} ELSE rq.done
    <3>1. todo \in SUBSET Intents /\ done \in SUBSET Intents
      BY <1>1 DEF WorkerType
    <3>2. next = [rq EXCEPT !.todo = todo, !.done = done, !.errors = failed]
      BY <2>2
    <3> HIDE DEF todo, done, failed, next
    <3> QED
      BY <1>1, <1>2, <3>1, <3>2 DEF WorkerType
  <2> QED
    BY <2>1, <2>2
<1>4. /\ next.pc \in {"write", "crashed"} /\ next.check = rq.check /\ next.hash = rq.hash
      /\ next.token = rq.token /\ next.job = rq.job /\ next.age = rq.age
  BY <1>1 DEF WorkerType
<1>5. live' \in [Checks \X Intents -> Jobs \cup {None}]
  BY <1>1 DEF ExecuteWrite, TypeOK
<1>6. worker' = [worker EXCEPT ![w] = next] /\ UNCHANGED <<previews, tokens, run, jobs>>
  BY DEF ExecuteWrite
<1> HIDE DEF next
<1> QED
  BY <1>1, <1>3, <1>4, <1>5, <1>6, QuietStep DEF TypeOK, ApprovalsTypeOK, Writing

(* A rollback touches the platform and its own locals only. *)
LEMMA RollbackIntentStep ==
  ASSUME IInv, NEW w \in Workers, NEW i \in Intents, NEW undone \in BOOLEAN,
         NEW applied \in BOOLEAN, RollbackIntent(w, i, undone, applied)
  PROVE  IInv'
<1> USE ConstantTypes DEF IInv
<1> DEFINE rq == worker[w]
           next == [rq EXCEPT !.todo = @ \ {i},
                              !.done = IF undone THEN @ \ {i} ELSE @,
                              !.errors = @ \/ ~undone]
<1>1. /\ rq \in WorkerType /\ rq.pc = "rollback" /\ rq.check \in Checks /\ rq.job \in Jobs
      /\ jobs[rq.job].status \in Settled
  BY DEF RollbackIntent, TypeOK, RequestBound, RollbackTarget
<1>2. next \in WorkerType
  BY <1>1 DEF WorkerType
<1>3. next.pc = "rollback" /\ next.check = rq.check /\ next.job = rq.job
  BY <1>1 DEF WorkerType
<1>4. live' \in [Checks \X Intents -> Jobs \cup {None}]
  BY <1>1 DEF RollbackIntent, TypeOK
<1>5. worker' = [worker EXCEPT ![w] = next] /\ UNCHANGED <<previews, tokens, run, jobs>>
  BY DEF RollbackIntent
<1> HIDE DEF next
<1> QED
  BY <1>1, <1>2, <1>3, <1>4, <1>5, QuietStep DEF TypeOK, ApprovalsTypeOK

(* The request w ends by saving the row of job j, to a row that is no longer      *)
(* in flight and that holds its gate only if it did before.                       *)
LEMMA SaveStep ==
  ASSUME IInv, NEW w \in Workers, NEW j \in Jobs, NEW row \in JobType,
         worker' = [worker EXCEPT ![w] = Idle],
         jobs' = [jobs EXCEPT ![j] = row],
         UNCHANGED <<previews, tokens, run, live>>,
         jobs[j] \in JobType,
         row.check = jobs[j].check, row.run = jobs[j].run,
         row.hash = jobs[j].hash, row.token = jobs[j].token,
         Holds(row) => Holds(jobs[j]),
         \A v \in Workers : v # w /\ Writing(v) => worker[v].job # j,
         jobs[j].status \in Settled => row.status \in Settled
  PROVE  IInv'
<1> USE ConstantTypes DEF IInv
<1>1. /\ worker' \in [Workers -> WorkerType] /\ worker'[w].pc = "idle"
      /\ \A v \in Workers : v # w => worker'[v] = worker[v]
  BY IdleType DEF TypeOK, Idle
<1>2. /\ jobs' \in [Jobs -> JobType \cup {NoJob}] /\ jobs'[j] = row
      /\ \A k \in Jobs : k # j => jobs'[k] = jobs[k]
  BY DEF TypeOK
<1>3. TypeOK'
  BY <1>1, <1>2 DEF TypeOK, ApprovalsTypeOK
<1>4. RequestBound'
  BY <1>1 DEF RequestBound
<1>5. OncePerRun'
  BY <1>2 DEF OncePerRun
<1>6. WriterHoldsClaim' /\ ClaimAge'
  BY <1>1, <1>2 DEF WriterHoldsClaim, ClaimAge, Writing, InFlight, RequestBound
<1>7. RollbackTarget'
  BY <1>1, <1>2 DEF RollbackTarget, RequestBound
<1>8. GrantKept'
  BY <1>1 DEF GrantKept
<1>9. NoUnapprovedExecute'
  <2>1. jobs[j].status # "absent"
    BY DEF JobType, JobStatus
  <2>2. \A k \in Jobs : jobs'[k].status # "absent" =>
          /\ jobs[k].status # "absent" /\ jobs'[k].token = jobs[k].token
          /\ jobs'[k].check = jobs[k].check /\ jobs'[k].hash = jobs[k].hash
    BY <1>2, <2>1
  <2> QED
    BY <2>2 DEF NoUnapprovedExecute
<1> QED
  BY <1>3, <1>4, <1>5, <1>6, <1>7, <1>8, <1>9

(* The three saves that end a request *)
LEMMA FinishStep ==
  ASSUME IInv, NEW w \in Workers,
         ExecuteFinish(w) \/ ExecuteCrashed(w) \/ RollbackFinish(w)
  PROVE  IInv'
<1> USE ConstantTypes DEF IInv
<1> DEFINE rq == worker[w]
           j == rq.job
<1>1. rq \in WorkerType /\ j \in Jobs
  BY DEF ExecuteFinish, ExecuteCrashed, RollbackFinish, RequestBound, TypeOK
<1>2. ASSUME Writing(w)
      PROVE  /\ jobs[j].status = "executing" /\ ~jobs[j].rolledBack /\ jobs[j] \in JobType
             /\ \A v \in Workers : v # w /\ Writing(v) => worker[v].job # j
  BY <1>1, <1>2 DEF WriterHoldsClaim, InFlight, TypeOK, NoJob
<1>3. CASE ExecuteFinish(w)
  <2> DEFINE row == [jobs[j] EXCEPT
                !.status = IF Ready[rq.hash] = 0 THEN "failed"
                           ELSE IF rq.errors THEN "partial" ELSE "executed",
                !.executed = rq.done, !.standing = rq.done]
  <2>1. Writing(w)
    BY <1>3 DEF ExecuteFinish, Writing
  <2>2. row \in JobType
    BY <1>1, <1>2, <2>1 DEF JobType, JobStatus, WorkerType
  <2>3. /\ row.check = jobs[j].check /\ row.run = jobs[j].run
        /\ row.hash = jobs[j].hash /\ row.token = jobs[j].token
    BY <1>2, <2>1 DEF JobType
  <2>4. Holds(jobs[j]) /\ jobs[j].status \notin Settled
    BY <1>2, <2>1 DEF Holds, Settled, Rollbackable
  <2>5. worker' = [worker EXCEPT ![w] = Idle] /\ jobs' = [jobs EXCEPT ![j] = row]
          /\ UNCHANGED <<previews, tokens, run, live>>
    BY <1>3 DEF ExecuteFinish
  <2> HIDE DEF row, j
  <2> QED
    BY <1>1, <1>2, <2>1, <2>2, <2>3, <2>4, <2>5, SaveStep
<1>4. CASE ExecuteCrashed(w)
  <2> DEFINE row == [jobs[j] EXCEPT !.status = "failed", !.executed = {}]
  <2>1. Writing(w)
    BY <1>4 DEF ExecuteCrashed, Writing
  <2>2. row \in JobType
    BY <1>1, <1>2, <2>1 DEF JobType, JobStatus
  <2>3. /\ row.check = jobs[j].check /\ row.run = jobs[j].run
        /\ row.hash = jobs[j].hash /\ row.token = jobs[j].token
    BY <1>2, <2>1 DEF JobType
  <2>4. Holds(jobs[j]) /\ jobs[j].status \notin Settled
    BY <1>2, <2>1 DEF Holds, Settled, Rollbackable
  <2>5. worker' = [worker EXCEPT ![w] = Idle] /\ jobs' = [jobs EXCEPT ![j] = row]
          /\ UNCHANGED <<previews, tokens, run, live>>
    BY <1>4 DEF ExecuteCrashed
  <2> HIDE DEF row, j
  <2> QED
    BY <1>1, <1>2, <2>1, <2>2, <2>3, <2>4, <2>5, SaveStep
<1>5. CASE RollbackFinish(w)
  <2> DEFINE row == [jobs[j] EXCEPT
                !.status = IF rq.errors THEN "rollback_partial" ELSE "rolled_back",
                !.standing = rq.done, !.rolledBack = jobs[j].rolledBack \/ ~rq.errors]
  <2>1. jobs[j].status \in Settled /\ jobs[j] \in JobType
    BY <1>1, <1>5 DEF RollbackFinish, RollbackTarget, TypeOK, NoJob, Settled, Rollbackable
  <2>2. row \in JobType
    BY <1>1, <2>1 DEF JobType, JobStatus, WorkerType
  <2>3. /\ row.check = jobs[j].check /\ row.run = jobs[j].run
        /\ row.hash = jobs[j].hash /\ row.token = jobs[j].token
        /\ row.executed = jobs[j].executed /\ row.status \in {"rollback_partial", "rolled_back"}
        /\ (jobs[j].rolledBack => row.rolledBack)
    BY <1>1, <2>1 DEF JobType, WorkerType
  <2>4. (Holds(row) => Holds(jobs[j])) /\ row.status \in Settled
    BY <2>3 DEF Holds, Settled, Rollbackable
  <2>5. worker' = [worker EXCEPT ![w] = Idle] /\ jobs' = [jobs EXCEPT ![j] = row]
          /\ UNCHANGED <<previews, tokens, run, live>>
    BY <1>5 DEF RollbackFinish
  <2>6. \A v \in Workers : Writing(v) => worker[v].job # j
    BY <2>1 DEF WriterHoldsClaim, InFlight, Settled, Rollbackable
  <2> HIDE DEF row, j
  <2> QED
    BY <1>1, <2>1, <2>2, <2>3, <2>4, <2>5, <2>6, SaveStep
<1> QED
  BY <1>3, <1>4, <1>5

(* Ages advance together: a claim stays no older than its request. *)
LEMMA TickStep == IInv /\ Tick => IInv'
<1> SUFFICES ASSUME IInv, Tick PROVE IInv'
  OBVIOUS
<1> USE ConstantTypes DEF IInv
<1>1. \A w \in Workers :
        /\ worker'[w] \in WorkerType /\ worker'[w].pc = worker[w].pc
        /\ worker'[w].job = worker[w].job /\ worker'[w].check = worker[w].check
        /\ worker'[w].hash = worker[w].hash /\ worker'[w].token = worker[w].token
        /\ worker'[w].run = worker[w].run /\ worker'[w].preview = worker[w].preview
        /\ worker[w].pc # "idle" => worker'[w].age = worker[w].age + 1
  <2> SUFFICES ASSUME NEW w \in Workers, worker[w].pc # "idle"
               PROVE  LET new == [worker[w] EXCEPT !.age = @ + 1] IN
                 /\ new \in WorkerType /\ new.pc = worker[w].pc
                 /\ new.job = worker[w].job /\ new.check = worker[w].check
                 /\ new.hash = worker[w].hash /\ new.token = worker[w].token
                 /\ new.run = worker[w].run /\ new.preview = worker[w].preview
                 /\ new.age = worker[w].age + 1
    BY DEF Tick, TypeOK
  <2>1. worker[w] \in WorkerType /\ worker[w].age < WorkerTimeout
    BY DEF Tick, TypeOK
  <2> QED
    BY <2>1 DEF WorkerType
<1>2. \A j \in Jobs :
        /\ jobs'[j] \in JobType \cup {NoJob} /\ jobs'[j].status = jobs[j].status
        /\ jobs'[j].check = jobs[j].check /\ jobs'[j].run = jobs[j].run
        /\ jobs'[j].hash = jobs[j].hash /\ jobs'[j].token = jobs[j].token
        /\ jobs'[j].executed = jobs[j].executed /\ jobs'[j].rolledBack = jobs[j].rolledBack
        /\ jobs'[j].age = jobs[j].age \/ jobs'[j].age = jobs[j].age + 1
  <2> SUFFICES ASSUME NEW j \in Jobs, jobs[j].status = "executing", jobs[j].age < StaleAfter
               PROVE  LET new == [jobs[j] EXCEPT !.age = @ + 1] IN
                 /\ new \in JobType /\ new.status = jobs[j].status
                 /\ new.check = jobs[j].check /\ new.run = jobs[j].run
                 /\ new.hash = jobs[j].hash /\ new.token = jobs[j].token
                 /\ new.executed = jobs[j].executed /\ new.rolledBack = jobs[j].rolledBack
                 /\ new.age = jobs[j].age + 1
    BY DEF Tick, TypeOK
  <2>1. jobs[j] \in JobType
    BY DEF TypeOK, NoJob
  <2> QED
    BY <2>1 DEF JobType
<1>3. \A t \in Tokens :
        /\ tokens'[t] \in TokenType \cup {NoToken} /\ tokens'[t].status = tokens[t].status
        /\ tokens'[t].check = tokens[t].check /\ tokens'[t].hash = tokens[t].hash
        /\ tokens'[t].consumed = tokens[t].consumed
  <2> SUFFICES ASSUME NEW t \in Tokens, tokens[t].ttl > 0
               PROVE  LET new == [tokens[t] EXCEPT !.ttl = @ - 1] IN
                 /\ new \in TokenType /\ new.status = tokens[t].status
                 /\ new.check = tokens[t].check /\ new.hash = tokens[t].hash
                 /\ new.consumed = tokens[t].consumed
    BY DEF Tick, AgeTokens, TypeOK, ApprovalsTypeOK
  <2>1. tokens[t] \in TokenType
    BY DEF TypeOK, ApprovalsTypeOK, NoToken
  <2> QED
    BY <2>1 DEF TokenType
<1>4. TypeOK'
  <2>1. tokens' \in [Tokens -> TokenType \cup {NoToken}]
    BY <1>3 DEF Tick, AgeTokens
  <2>2. jobs' \in [Jobs -> JobType \cup {NoJob}] /\ worker' \in [Workers -> WorkerType]
    BY <1>1, <1>2 DEF Tick
  <2> QED
    BY <2>1, <2>2 DEF Tick, TypeOK, ApprovalsTypeOK
<1>5. RequestBound'
  BY <1>1, <1>3 DEF RequestBound
<1>6. (OncePerRun /\ WriterHoldsClaim /\ RollbackTarget)'
  <2>1. OncePerRun'
    BY <1>2 DEF OncePerRun, Holds
  <2>2. WriterHoldsClaim'
    BY <1>1, <1>2 DEF WriterHoldsClaim, Writing, InFlight, RequestBound
  <2>3. RollbackTarget'
    BY <1>1, <1>2 DEF RollbackTarget, RequestBound
  <2> QED
    BY <2>1, <2>2, <2>3
<1>7. ClaimAge'
  <2> SUFFICES ASSUME NEW w \in Workers, Writing(w)
               PROVE  jobs'[worker[w].job].age <= worker[w].age + 1
    BY <1>1 DEF ClaimAge, Writing
  <2>1. worker[w].job \in Jobs /\ jobs[worker[w].job] \in JobType /\ worker[w] \in WorkerType
    BY DEF Writing, RequestBound, WriterHoldsClaim, InFlight, TypeOK, NoJob
  <2> QED
    BY <1>2, <2>1 DEF ClaimAge, JobType, WorkerType
<1>8. GrantKept'
  BY <1>1, <1>3 DEF GrantKept, Granted, RequestBound
<1>9. NoUnapprovedExecute'
  <2> SUFFICES ASSUME NEW j \in Jobs, jobs[j].status # "absent"
               PROVE  /\ Granted(tokens'[jobs[j].token], jobs[j].check, jobs[j].hash)
                      /\ tokens'[jobs[j].token].consumed
    BY <1>2 DEF NoUnapprovedExecute, Granted
  <2>1. jobs[j].token \in Tokens
    BY DEF TypeOK, JobType, NoJob
  <2> QED
    BY <1>3, <2>1 DEF NoUnapprovedExecute, Granted
<1> QED
  BY <1>4, <1>5, <1>6, <1>7, <1>8, <1>9

(* Every step preserves the invariant. *)
LEMMA NextIInv == IInv /\ [Next]_vars => IInv'
<1> SUFFICES ASSUME IInv, [Next]_vars PROVE IInv'
  OBVIOUS
<1>1. CASE Approvals
  BY <1>1, ApprovalsStep
<1>2. ASSUME NEW w \in Workers, Request(w) PROVE IInv'
  BY <1>2, RequestStep
<1>3. ASSUME NEW w \in Workers, Step(w) PROVE IInv'
  <2>1. CASE PreviewRevoke(w) \/ ExecuteMismatch(w)
    BY <2>1, TokenSteps
  <2>2. CASE ExecuteValidate(w)
    BY <2>2, ValidateStep
  <2>3. CASE \E j \in Jobs : ExecuteClaim(w, j)
    BY <2>3, ClaimStep
  <2>4. CASE ExecuteBlocked(w)
    BY <2>4, EndStep DEF ExecuteBlocked, IInv, TypeOK, ApprovalsTypeOK
  <2>5. CASE \E i \in Intents, o \in AdapterOutcome : ExecuteWrite(w, i, o)
    BY <2>5, WriteStep
  <2>6. CASE ExecuteFinish(w) \/ ExecuteCrashed(w) \/ RollbackFinish(w)
    BY <2>6, FinishStep
  <2>7. CASE \E i \in Intents, undone, applied \in BOOLEAN : RollbackIntent(w, i, undone, applied)
    BY <2>7, RollbackIntentStep
  <2> QED
    BY <1>3, <2>1, <2>2, <2>3, <2>4, <2>5, <2>6, <2>7 DEF Step
<1>4. ASSUME NEW w \in Workers, Kill(w) PROVE IInv'
  BY <1>4, EndStep DEF Kill, IInv, TypeOK, ApprovalsTypeOK
<1>5. CASE LatestRun
  <2>1. run' \in Nat \cup {None} /\ UNCHANGED <<previews, tokens, jobs, live, worker>>
    BY <1>5 DEF LatestRun, IInv, TypeOK
  <2> QED
    BY <2>1 DEF IInv, TypeOK, ApprovalsTypeOK, RequestBound, OncePerRun, WriterHoldsClaim,
                ClaimAge, RollbackTarget, GrantKept, NoUnapprovedExecute, Writing
<1>6. CASE Tick
  BY <1>6, TickStep
<1>7. CASE UNCHANGED vars
  BY <1>7 DEF vars, IInv, TypeOK, ApprovalsTypeOK, RequestBound, OncePerRun, WriterHoldsClaim,
              ClaimAge, RollbackTarget, GrantKept, NoUnapprovedExecute, Writing
<1> QED
  BY <1>1, <1>2, <1>3, <1>4, <1>5, <1>6, <1>7 DEF Next

(* The inductive invariant holds in every reachable state. *)
THEOREM Invariance == Spec => []IInv
<1> QED
  BY InitIInv, NextIInv, PTL DEF Spec

(* Every reachable state is well typed. *)
THEOREM TypeCorrect == Spec => []TypeOK
<1>1. IInv => TypeOK
  BY DEF IInv
<1> QED
  BY <1>1, Invariance, PTL

(* The once-per-run gate (PRD_WB_07 product rule 1), for any number of concurrent *)
(* requests: at most one in-flight or successful execute per check and DCS run.   *)
THEOREM OncePerRunHolds == Spec => []OncePerRun
<1>1. IInv => OncePerRun
  BY DEF IInv
<1> QED
  BY <1>1, Invariance, PTL

(* No request writes to the platform after another has reclaimed its claim, so    *)
(* the unconditional save at the end of an execute overwrites nothing.            *)
THEOREM WriterHoldsClaimHolds == Spec => []WriterHoldsClaim
<1>1. IInv => WriterHoldsClaim
  BY DEF IInv
<1> QED
  BY <1>1, Invariance, PTL

(* Every execute job rests on a token that was approved for its check and diff.   *)
THEOREM NoUnapprovedExecuteHolds == Spec => []NoUnapprovedExecute
<1>1. IInv => NoUnapprovedExecute
  BY DEF IInv
<1> QED
  BY <1>1, Invariance, PTL

(* Steps that leave the job rows alone and, on the platform, write only under     *)
(* executing jobs or clear: nothing undone comes back.                            *)
LEMMA UndonePlatform ==
  ASSUME IInv, UndoneInv, UNCHANGED jobs,
         \A j \in Jobs, c \in Checks, i \in Intents :
           live'[<<c, i>>] = j => live[<<c, i>>] = j \/ jobs[j].status = "executing",
         \A v \in Workers : worker'[v].pc = "rollback" =>
           /\ worker'[v].job \in Jobs /\ worker'[v].check = jobs[worker'[v].job].check
           /\ \A i \in jobs[worker'[v].job].executed \ worker'[v].done :
                live'[<<worker'[v].check, i>>] # worker'[v].job
           /\ ~worker'[v].errors => worker'[v].done \subseteq worker'[v].todo
  PROVE  UndoneInv'
<1>1. \A j \in Jobs : jobs[j].status \in Settled =>
        /\ jobs[j].check \in Checks /\ jobs[j].executed \subseteq Intents
        /\ jobs[j].status # "executing"
  BY DEF IInv, TypeOK, JobType, NoJob, Settled, Rollbackable
<1>2. \A j \in Jobs : jobs[j].status \in Settled =>
        \A i \in jobs[j].executed \ jobs[j].standing : live'[<<jobs[j].check, i>>] # j
  BY <1>1 DEF UndoneInv
<1>3. RolledBackIsUndone'
  BY <1>1 DEF UndoneInv, RolledBackIsUndone
<1> QED
  BY <1>2, <1>3 DEF UndoneInv

(* Saving a row that is settled before and after, or after an execute             *)
LEMMA UndoneSave ==
  ASSUME IInv, UndoneInv, NEW w \in Workers, NEW j \in Jobs, NEW row,
         worker' = [worker EXCEPT ![w] = Idle],
         jobs' = [jobs EXCEPT ![j] = row],
         UNCHANGED live,
         row.check = jobs[j].check,
         row.executed = jobs[j].executed \/ jobs[j].status = "executing",
         row.status \in Settled =>
           \A i \in row.executed \ row.standing : live[<<row.check, i>>] # j,
         row.rolledBack =>
           row.status \in Settled /\ \A i \in row.executed : live[<<row.check, i>>] # j
  PROVE  UndoneInv'
<1>1. /\ jobs'[j] = row /\ \A k \in Jobs : k # j => jobs'[k] = jobs[k]
      /\ worker'[w].pc = "idle" /\ \A v \in Workers : v # w => worker'[v] = worker[v]
  BY DEF IInv, TypeOK, Idle
<1>2. \A v \in Workers : worker[v].pc = "rollback" =>
        worker[v].job \in Jobs /\ jobs[worker[v].job].status # "executing"
  BY DEF IInv, RollbackTarget, RequestBound, Settled, Rollbackable
<1>3. \A v \in Workers : worker'[v].pc = "rollback" =>
        /\ worker'[v].check = jobs'[worker'[v].job].check
        /\ \A i \in jobs'[worker'[v].job].executed \ worker'[v].done :
             live'[<<worker'[v].check, i>>] # worker'[v].job
        /\ ~worker'[v].errors => worker'[v].done \subseteq worker'[v].todo
  BY <1>1, <1>2 DEF UndoneInv
<1>4. \A k \in Jobs :
        /\ jobs'[k].status \in Settled =>
             \A i \in jobs'[k].executed \ jobs'[k].standing : live'[<<jobs'[k].check, i>>] # k
        /\ jobs'[k].rolledBack => jobs'[k].status \in Settled
        /\ jobs'[k].rolledBack => \A i \in jobs'[k].executed : live'[<<jobs'[k].check, i>>] # k
  BY <1>1 DEF UndoneInv, RolledBackIsUndone
<1> QED
  BY <1>3, <1>4 DEF UndoneInv, RolledBackIsUndone

(* Every step preserves the strengthening behind RolledBackIsUndone. *)
LEMMA UndoneStep == IInv /\ UndoneInv /\ [Next]_vars => UndoneInv'
<1> SUFFICES ASSUME IInv, UndoneInv, [Next]_vars PROVE UndoneInv'
  OBVIOUS
<1> USE ConstantTypes
<1>0. /\ worker \in [Workers -> WorkerType] /\ Idle.pc = "idle"
      /\ \A v \in Workers : worker[v].pc = "rollback" => worker[v].job \in Jobs
  BY DEF IInv, TypeOK, Idle, RequestBound
(* The steps that change neither rows nor platform and start no rollback          *)
<1>1. ASSUME UNCHANGED <<jobs, live>>,
             \A v \in Workers : worker'[v].pc = "rollback" => worker'[v] = worker[v]
      PROVE  UndoneInv'
  BY <1>0, <1>1, UndonePlatform DEF UndoneInv
<1>2. CASE Approvals \/ LatestRun \/ UNCHANGED vars
  BY <1>1, <1>2 DEF Approvals, LatestRun, vars
<1>3. ASSUME NEW w \in Workers,
             \/ \E p \in Previews, c \in Checks, h \in Hashes : PreviewStart(w, p, c, h)
             \/ \E c \in Checks, t \in Tokens, h, e \in Hashes : ExecuteStart(w, c, t, h, e)
             \/ PreviewRevoke(w) \/ ExecuteMismatch(w) \/ ExecuteValidate(w)
             \/ ExecuteBlocked(w) \/ Kill(w)
      PROVE  UndoneInv'
  <2>1. UNCHANGED <<jobs, live>>
    BY <1>3 DEF PreviewStart, ExecuteStart, PreviewRevoke, ExecuteMismatch, ExecuteValidate,
                ExecuteBlocked, Kill
  <2>2. \E rq : rq.pc # "rollback" /\ worker' = [worker EXCEPT ![w] = rq]
    <3>1. CASE \/ PreviewRevoke(w) \/ ExecuteMismatch(w) \/ ExecuteBlocked(w) \/ Kill(w)
      BY <1>0, <3>1 DEF PreviewRevoke, ExecuteMismatch, ExecuteBlocked, Kill
    <3>2. CASE ExecuteValidate(w)
      <4>1. [worker[w] EXCEPT !.pc = "claim"].pc = "claim"
        BY <1>0 DEF WorkerType
      <4> QED
        BY <1>0, <3>2, <4>1 DEF ExecuteValidate
    <3>3. CASE \E p \in Previews, c \in Checks, h \in Hashes : PreviewStart(w, p, c, h)
      BY <3>3 DEF PreviewStart, Idle
    <3>4. CASE \E c \in Checks, t \in Tokens, h, e \in Hashes : ExecuteStart(w, c, t, h, e)
      BY <3>4 DEF ExecuteStart, Idle
    <3> QED
      BY <1>3, <3>1, <3>2, <3>3, <3>4
  <2> QED
    BY <1>0, <1>1, <2>1, <2>2
<1>4. CASE Tick
  <2>1. \A v \in Workers : worker[v].pc # "idle" =>
          LET new == [worker[v] EXCEPT !.age = @ + 1] IN
          /\ new.pc = worker[v].pc /\ new.job = worker[v].job /\ new.check = worker[v].check
          /\ new.done = worker[v].done /\ new.todo = worker[v].todo /\ new.errors = worker[v].errors
    BY <1>0 DEF WorkerType
  <2>2. \A v \in Workers :
          /\ worker'[v].pc = worker[v].pc /\ worker'[v].job = worker[v].job
          /\ worker'[v].check = worker[v].check /\ worker'[v].done = worker[v].done
          /\ worker'[v].todo = worker[v].todo /\ worker'[v].errors = worker[v].errors
    BY <1>4, <2>1 DEF Tick
  <2>3. \A j \in Jobs : jobs[j].status = "executing" =>
          LET new == [jobs[j] EXCEPT !.age = @ + 1] IN
          /\ new.status = jobs[j].status /\ new.check = jobs[j].check
          /\ new.executed = jobs[j].executed /\ new.standing = jobs[j].standing
          /\ new.rolledBack = jobs[j].rolledBack
    BY DEF IInv, TypeOK, JobType, NoJob
  <2>4. \A j \in Jobs :
          /\ jobs'[j].status = jobs[j].status /\ jobs'[j].check = jobs[j].check
          /\ jobs'[j].executed = jobs[j].executed /\ jobs'[j].standing = jobs[j].standing
          /\ jobs'[j].rolledBack = jobs[j].rolledBack
    BY <1>4, <2>3 DEF Tick
  <2> QED
    BY <1>0, <1>4, <2>2, <2>4 DEF Tick, UndoneInv, RolledBackIsUndone
<1>5. ASSUME NEW w \in Workers, NEW j \in Jobs, RollbackStart(w, j)
      PROVE  UndoneInv'
  <2> DEFINE rq == [Idle EXCEPT !.pc = "rollback", !.check = jobs[j].check, !.job = j,
                      !.todo = jobs[j].standing, !.done = jobs[j].standing]
  <2>1. rq.check = jobs[j].check /\ rq.job = j /\ rq.todo = jobs[j].standing /\ rq.done = jobs[j].standing
    BY DEF Idle
  <2>2. worker'[w] = rq /\ (\A v \in Workers : v # w => worker'[v] = worker[v]) /\ UNCHANGED <<jobs, live>>
    BY <1>0, <1>5 DEF RollbackStart
  <2>3. jobs[j].status \in Settled
    BY <1>5 DEF RollbackStart, Settled
  <2> HIDE DEF rq
  <2> QED
    BY <1>0, <2>1, <2>2, <2>3, UndonePlatform DEF UndoneInv
<1>6. ASSUME NEW w \in Workers, NEW j \in Jobs, ExecuteClaim(w, j)
      PROVE  UndoneInv'
  <2> DEFINE fresh == Reclaim(worker[w].check, worker[w].run)
  <2>1. /\ jobs'[j].status = "executing" /\ ~jobs'[j].rolledBack
        /\ \A k \in Jobs : k # j => jobs'[k] = fresh[k]
        /\ jobs[j].status = "absent" /\ UNCHANGED live
    BY <1>6, ReclaimRows DEF ExecuteClaim, Settled, Rollbackable
  <2>2. \A k \in Jobs : k # j => jobs'[k] = jobs[k] \/ (~jobs'[k].rolledBack /\ jobs'[k].status = "failed")
    <3>1. \A k \in Jobs : Stale(jobs[k]) =>
            /\ [jobs[k] EXCEPT !.status = "failed", !.executed = {}].status = "failed"
            /\ ~[jobs[k] EXCEPT !.status = "failed", !.executed = {}].rolledBack
      BY DEF IInv, TypeOK, JobType, NoJob, Stale, InFlight
    <3> QED
      BY <2>1, <3>1 DEF Reclaim
  <2>3. \A v \in Workers : worker'[v].pc = "rollback" => worker'[v] = worker[v]
    <3>1. [worker[w] EXCEPT !.pc = "write", !.job = j, !.todo = 1 .. Ready[worker[w].hash]].pc = "write"
      BY <1>0 DEF WorkerType
    <3> QED
      BY <1>0, <1>6, <3>1 DEF ExecuteClaim
  <2>4. \A v \in Workers : worker[v].pc = "rollback" =>
          /\ worker[v].job \in Jobs /\ jobs[worker[v].job].status \in Settled
          /\ worker[v].job # j /\ jobs'[worker[v].job] = jobs[worker[v].job]
    <3>1. \A v \in Workers : worker[v].pc = "rollback" =>
            worker[v].job \in Jobs /\ jobs[worker[v].job].status \in Settled
      BY <1>0 DEF IInv, RollbackTarget
    <3>2. \A k \in Jobs : jobs[k].status \in Settled => fresh[k].status \in Settled
      BY ReclaimRows
    <3> QED
      BY <2>1, <2>2, <3>1, <3>2 DEF Settled, Rollbackable
  <2> HIDE DEF fresh
  <2>5. \A k \in Jobs : jobs'[k] = jobs[k] \/ (~jobs'[k].rolledBack /\ jobs'[k].status \notin Settled)
    BY <2>1, <2>2 DEF Settled, Rollbackable
  <2> QED
    BY <2>1, <2>3, <2>4, <2>5 DEF UndoneInv, RolledBackIsUndone
<1>7. ASSUME NEW w \in Workers, NEW i \in Intents, NEW o \in AdapterOutcome, ExecuteWrite(w, i, o)
      PROVE  UndoneInv'
  <2>1. /\ worker[w].job \in Jobs /\ jobs[worker[w].job].status = "executing"
        /\ worker[w].pc = "write"
    BY <1>7 DEF ExecuteWrite, IInv, WriterHoldsClaim, Writing, InFlight, RequestBound
  <2>2. \A k \in Jobs, c \in Checks, n \in Intents :
          live'[<<c, n>>] = k => live[<<c, n>>] = k \/ jobs[k].status = "executing"
    BY <1>7, <2>1 DEF ExecuteWrite, IInv, TypeOK
  <2>3. \A v \in Workers : worker'[v].pc = "rollback" => v # w /\ worker'[v] = worker[v]
    <3>1. \E rq : rq.pc # "rollback" /\ worker' = [worker EXCEPT ![w] = rq]
      <4>1. [worker[w] EXCEPT !.pc = "crashed"].pc = "crashed"
        BY <1>0 DEF WorkerType
      <4>2. \A x, y, z : [worker[w] EXCEPT !.todo = x, !.done = y, !.errors = z].pc = "write"
        BY <1>0, <2>1 DEF WorkerType
      <4> QED
        BY <1>7, <4>1, <4>2 DEF ExecuteWrite
    <3> QED
      BY <1>0, <3>1
  <2>4. \A v \in Workers : worker[v].pc = "rollback" =>
          /\ worker[v].job \in Jobs /\ worker[v].job # worker[w].job
          /\ worker[v].check \in Checks /\ jobs[worker[v].job].executed \subseteq Intents
          /\ jobs[worker[v].job].status # "executing"
    BY <2>1 DEF IInv, RollbackTarget, RequestBound, TypeOK, JobType, NoJob, Settled, Rollbackable
  <2>5. UNCHANGED jobs
    BY <1>7 DEF ExecuteWrite
  <2>6. \A v \in Workers : worker'[v].pc = "rollback" =>
           /\ worker'[v].job \in Jobs /\ worker'[v].check = jobs[worker'[v].job].check
           /\ \A n \in jobs[worker'[v].job].executed \ worker'[v].done :
                live'[<<worker'[v].check, n>>] # worker'[v].job
           /\ ~worker'[v].errors => worker'[v].done \subseteq worker'[v].todo
    BY <2>2, <2>3, <2>4 DEF UndoneInv
  <2> QED
    BY <2>2, <2>5, <2>6, UndonePlatform
<1>8. ASSUME NEW w \in Workers, NEW i \in Intents, NEW undone \in BOOLEAN,
             NEW applied \in BOOLEAN, RollbackIntent(w, i, undone, applied)
      PROVE  UndoneInv'
  <2> DEFINE old == worker[w]
             rq == [old EXCEPT !.todo = @ \ {i},
                               !.done = IF undone THEN @ \ {i} ELSE @,
                               !.errors = @ \/ ~undone]
  <2>1. /\ old \in WorkerType /\ old.pc = "rollback" /\ old.job \in Jobs /\ old.check \in Checks
        /\ jobs[old.job].status \in Settled
    BY <1>8 DEF RollbackIntent, IInv, TypeOK, RequestBound, RollbackTarget
  <2>2. /\ rq.job = old.job /\ rq.check = old.check /\ rq.todo = old.todo \ {i}
        /\ rq.done = IF undone THEN old.done \ {i} ELSE old.done
    BY <2>1 DEF WorkerType
  <2>3. ~rq.errors => ~old.errors /\ undone
    BY <2>1 DEF WorkerType
  <2>4. worker'[w] = rq /\ (\A v \in Workers : v # w => worker'[v] = worker[v]) /\ UNCHANGED jobs
    BY <1>0, <1>8 DEF RollbackIntent
  <2>5. /\ live' \in [Checks \X Intents -> Jobs \cup {None}]
        /\ \A c \in Checks, n \in Intents :
             live'[<<c, n>>] = live[<<c, n>>] \/ live'[<<c, n>>] = None
        /\ undone => live'[<<old.check, i>>] = None
    BY <1>8, <2>1 DEF RollbackIntent, IInv, TypeOK
  <2>6. \A v \in Workers : worker[v].pc = "rollback" =>
          /\ worker[v].job \in Jobs /\ worker[v].check \in Checks
          /\ jobs[worker[v].job].executed \subseteq Intents
    BY DEF IInv, RollbackTarget, RequestBound, TypeOK, JobType, NoJob, Settled, Rollbackable
  <2> HIDE DEF rq
  <2>7. /\ rq.check = jobs[rq.job].check
        /\ ~rq.errors => rq.done \subseteq rq.todo
        /\ \A n \in jobs[rq.job].executed \ rq.done : live'[<<rq.check, n>>] # rq.job
    BY <2>1, <2>2, <2>3, <2>5, <2>6 DEF UndoneInv
  <2>8. \A v \in Workers : worker'[v].pc = "rollback" =>
           /\ worker'[v].job \in Jobs /\ worker'[v].check = jobs[worker'[v].job].check
           /\ \A n \in jobs[worker'[v].job].executed \ worker'[v].done :
                live'[<<worker'[v].check, n>>] # worker'[v].job
           /\ ~worker'[v].errors => worker'[v].done \subseteq worker'[v].todo
    <3> SUFFICES ASSUME NEW v \in Workers, worker'[v].pc = "rollback"
                 PROVE  /\ worker'[v].job \in Jobs /\ worker'[v].check = jobs[worker'[v].job].check
                        /\ \A n \in jobs[worker'[v].job].executed \ worker'[v].done :
                             live'[<<worker'[v].check, n>>] # worker'[v].job
                        /\ ~worker'[v].errors => worker'[v].done \subseteq worker'[v].todo
      OBVIOUS
    <3>1. CASE v = w
      BY <2>1, <2>2, <2>4, <2>7, <3>1
    <3>2. CASE v # w
      BY <2>4, <2>5, <2>6, <3>2 DEF UndoneInv
    <3> QED
      BY <3>1, <3>2
  <2> QED
    BY <2>4, <2>5, <2>8, UndonePlatform
<1>9. ASSUME NEW w \in Workers, ExecuteFinish(w) \/ ExecuteCrashed(w)
      PROVE  UndoneInv'
  <2> DEFINE rq == worker[w]
  <2>1. rq.job \in Jobs /\ jobs[rq.job].status = "executing" /\ ~jobs[rq.job].rolledBack
          /\ jobs[rq.job] \in JobType
    BY <1>9 DEF ExecuteFinish, ExecuteCrashed, IInv, WriterHoldsClaim, Writing, InFlight,
                RequestBound, TypeOK, NoJob
  <2>2. CASE ExecuteFinish(w)
    <3> DEFINE row == [jobs[rq.job] EXCEPT
                  !.status = IF Ready[rq.hash] = 0 THEN "failed"
                             ELSE IF rq.errors THEN "partial" ELSE "executed",
                  !.executed = rq.done, !.standing = rq.done]
    <3>1. row.executed = row.standing /\ ~row.rolledBack /\ row.check = jobs[rq.job].check
      BY <2>1 DEF JobType
    <3>2. worker' = [worker EXCEPT ![w] = Idle] /\ jobs' = [jobs EXCEPT ![rq.job] = row] /\ UNCHANGED live
      BY <2>2 DEF ExecuteFinish
    <3> HIDE DEF row, rq
    <3> QED
      BY <2>1, <3>1, <3>2, UndoneSave
  <2>3. CASE ExecuteCrashed(w)
    <3> DEFINE row == [jobs[rq.job] EXCEPT !.status = "failed", !.executed = {}]
    <3>1. row.executed = {} /\ ~row.rolledBack /\ row.check = jobs[rq.job].check
      BY <2>1 DEF JobType
    <3>2. worker' = [worker EXCEPT ![w] = Idle] /\ jobs' = [jobs EXCEPT ![rq.job] = row] /\ UNCHANGED live
      BY <2>3 DEF ExecuteCrashed
    <3> HIDE DEF row, rq
    <3> QED
      BY <2>1, <3>1, <3>2, UndoneSave
  <2> QED
    BY <1>9, <2>2, <2>3
<1>10. ASSUME NEW w \in Workers, RollbackFinish(w)
       PROVE  UndoneInv'
  <2> DEFINE rq == worker[w]
             row == [jobs[rq.job] EXCEPT
                !.status = IF rq.errors THEN "rollback_partial" ELSE "rolled_back",
                !.standing = rq.done, !.rolledBack = jobs[rq.job].rolledBack \/ ~rq.errors]
  <2>1. rq.pc = "rollback" /\ rq.todo = {} /\ rq.job \in Jobs /\ jobs[rq.job] \in JobType /\ rq \in WorkerType
    BY <1>10 DEF RollbackFinish, IInv, RollbackTarget, RequestBound, TypeOK, NoJob, Settled, Rollbackable
  <2>2. /\ row.check = jobs[rq.job].check /\ row.executed = jobs[rq.job].executed
        /\ row.standing = rq.done /\ row.status \in Settled
    BY <2>1 DEF JobType, Settled, Rollbackable
  <2>3. row.rolledBack => jobs[rq.job].rolledBack \/ ~rq.errors
    BY <2>1 DEF JobType, WorkerType
  <2>4. worker' = [worker EXCEPT ![w] = Idle] /\ jobs' = [jobs EXCEPT ![rq.job] = row] /\ UNCHANGED live
    BY <1>10 DEF RollbackFinish
  <2>5. /\ rq.check = jobs[rq.job].check
        /\ \A n \in jobs[rq.job].executed \ rq.done : live[<<rq.check, n>>] # rq.job
        /\ ~rq.errors => rq.done = {}
    BY <2>1 DEF UndoneInv
  <2> HIDE DEF row, rq
  <2>6. row.rolledBack => \A n \in row.executed : live[<<row.check, n>>] # rq.job
    BY <2>1, <2>2, <2>3, <2>5 DEF UndoneInv, RolledBackIsUndone
  <2> QED
    BY ZenonT(60), <2>1, <2>2, <2>4, <2>5, <2>6, UndoneSave
<1>11. ASSUME NEW w \in Workers, Request(w) \/ Step(w) \/ Kill(w)
       PROVE  UndoneInv'
  BY <1>3, <1>5, <1>6, <1>7, <1>8, <1>9, <1>10, <1>11 DEF Request, Step
<1> QED
  BY <1>2, <1>4, <1>11 DEF Next

(* A rollback that opens the gate leaves none of the job's recorded writes on the *)
(* platform, for any number of concurrent rollbacks of the same job.              *)
THEOREM RolledBackIsUndoneHolds == Spec => []RolledBackIsUndone
<1>1. Init => UndoneInv
  BY DEF Init, NoJob, Idle, UndoneInv, RolledBackIsUndone, Settled, Rollbackable
<1>2. UndoneInv => RolledBackIsUndone
  BY DEF UndoneInv
<1> QED
  BY <1>1, <1>2, UndoneStep, Invariance, PTL DEF Spec

---------------------------------------------------------------------------------
(* The pipeline implements the abstract gate.                                     *)

(* Runs are named by numbers within the bound, also in what a request has read.    *)
RunsBounded ==
  /\ run \in (1 .. MaxRun) \cup {None}
  /\ \A w \in Workers :
       /\ worker[w].pc = "validate" => worker[w].run \in (1 .. MaxRun) \cup {None}
       /\ worker[w].pc = "claim" => worker[w].run \in 1 .. MaxRun
  /\ \A j \in Jobs : jobs[j].status # "absent" => jobs[j].run \in 1 .. MaxRun

(* A request that moves its own pc, and reads the run at its start only.            *)
LEMMA RunsQuiet ==
  ASSUME IInv, RunsBounded, UNCHANGED <<run, jobs>>, NEW w \in Workers, NEW rq,
         worker' = [worker EXCEPT ![w] = rq],
         rq.pc = "validate" => rq.run = run,
         rq.pc = "claim" => rq.run = worker[w].run /\ worker[w].pc = "validate" /\ rq.run # None
  PROVE  RunsBounded'
<1>1. worker \in [Workers -> WorkerType]
  BY DEF IInv, TypeOK
<1>2. worker'[w] = rq /\ \A v \in Workers \ {w} : worker'[v] = worker[v]
  BY <1>1
<1> QED
  BY <1>2 DEF RunsBounded

LEMMA RunsStep == IInv /\ RunsBounded /\ [Next]_vars => RunsBounded'
<1> SUFFICES ASSUME IInv, RunsBounded, [Next]_vars PROVE RunsBounded'
  OBVIOUS
<1> USE ConstantTypes DEF RunsBounded
<1>0. worker \in [Workers -> WorkerType] /\ jobs \in [Jobs -> JobType \cup {NoJob}] /\ Idle.pc = "idle"
  BY DEF IInv, TypeOK, Idle
<1>1. CASE Approvals
  BY <1>1 DEF Approvals
<1>2. ASSUME NEW w \in Workers, Request(w) PROVE RunsBounded'
  <2>1. ASSUME NEW p \in Previews, NEW c \in Checks, NEW h \in Hashes, PreviewStart(w, p, c, h)
        PROVE  RunsBounded'
    <3> DEFINE rq == [Idle EXCEPT !.pc = "revoke", !.preview = p]
    <3>1. rq.pc = "revoke"
      BY DEF Idle
    <3>2. worker' = [worker EXCEPT ![w] = rq] /\ UNCHANGED <<run, jobs>>
      BY <2>1 DEF PreviewStart
    <3> HIDE DEF rq
    <3> QED
      BY <3>1, <3>2, RunsQuiet
  <2>2. ASSUME NEW c \in Checks, NEW t \in Tokens, NEW h \in Hashes, NEW e \in Hashes,
               ExecuteStart(w, c, t, h, e)
        PROVE  RunsBounded'
    <3> DEFINE rq == [Idle EXCEPT !.pc = IF h = e THEN "validate" ELSE "mismatch",
                                  !.check = c, !.token = t, !.hash = h, !.run = run]
    <3>1. rq.pc \in {"validate", "mismatch"} /\ rq.run = run
      BY DEF Idle
    <3>2. worker' = [worker EXCEPT ![w] = rq] /\ UNCHANGED <<run, jobs>>
      BY <2>2 DEF ExecuteStart
    <3> HIDE DEF rq
    <3> QED
      BY <3>1, <3>2, RunsQuiet
  <2>3. ASSUME NEW j \in Jobs, RollbackStart(w, j) PROVE RunsBounded'
    <3> DEFINE rq == [Idle EXCEPT !.pc = "rollback", !.check = jobs[j].check, !.job = j,
                                  !.todo = jobs[j].standing, !.done = jobs[j].standing]
    <3>1. rq.pc = "rollback"
      BY DEF Idle
    <3>2. worker' = [worker EXCEPT ![w] = rq] /\ UNCHANGED <<run, jobs>>
      BY <2>3 DEF RollbackStart
    <3> HIDE DEF rq
    <3> QED
      BY <3>1, <3>2, RunsQuiet
  <2> QED
    BY <1>2, <2>1, <2>2, <2>3 DEF Request
<1>3. ASSUME NEW w \in Workers, Step(w) PROVE RunsBounded'
  <2>1. CASE PreviewRevoke(w) \/ ExecuteMismatch(w) \/ ExecuteBlocked(w)
    BY <1>0, <2>1 DEF PreviewRevoke, ExecuteMismatch, ExecuteBlocked
  <2>2. CASE ExecuteValidate(w)
    <3> DEFINE rq == worker[w]
               next == [rq EXCEPT !.pc = "claim"]
    <3>1. next.pc = "claim" /\ next.run = rq.run
      BY <1>0 DEF WorkerType
    <3>2. /\ UNCHANGED <<run, jobs>> /\ rq.pc = "validate"
          /\ \/ worker' = [worker EXCEPT ![w] = Idle]
             \/ worker' = [worker EXCEPT ![w] = next] /\ rq.run # None
      BY <2>2 DEF ExecuteValidate
    <3> HIDE DEF next
    <3> QED
      BY <1>0, <3>1, <3>2, RunsQuiet
  <2>3. ASSUME NEW j \in Jobs, ExecuteClaim(w, j) PROVE RunsBounded'
    <3>1. \A k \in Jobs \ {j} :
            jobs'[k].status # "absent" => jobs[k].status # "absent" /\ jobs'[k].run = jobs[k].run
      <4> DEFINE fresh == Reclaim(worker[w].check, worker[w].run)
      <4>1. \A k \in Jobs : fresh[k].run = jobs[k].run /\ (fresh[k].status = "absent" <=> jobs[k].status = "absent")
        BY ReclaimRows
      <4>2. \A k \in Jobs \ {j} : jobs'[k] = fresh[k]
        BY <2>3, ReclaimRows DEF ExecuteClaim
      <4> HIDE DEF fresh
      <4> QED
        BY <4>1, <4>2
    <3>2. jobs'[j].run \in 1 .. MaxRun
      BY <1>0, <2>3 DEF ExecuteClaim, Reclaim
    <3>3. run' = run /\ \A v \in Workers : worker'[v] = worker[v] \/ worker'[v].pc = "write"
      <4> DEFINE next == [worker[w] EXCEPT !.pc = "write", !.job = j, !.todo = 1 .. Ready[worker[w].hash]]
      <4>1. run' = run /\ worker' = [worker EXCEPT ![w] = next]
        BY <2>3 DEF ExecuteClaim
      <4>2. next.pc = "write"
        BY <1>0 DEF WorkerType
      <4> HIDE DEF next
      <4> QED
        BY <1>0, <4>1, <4>2
    <3> QED
      BY <3>1, <3>2, <3>3
  <2>4. ASSUME NEW i \in Intents, NEW o \in AdapterOutcome, ExecuteWrite(w, i, o) PROVE RunsBounded'
    <3>1. worker[w].pc = "write" /\ worker'[w].pc \in {"write", "crashed"}
      BY <1>0, <2>4 DEF ExecuteWrite, WorkerType
    <3> QED
      BY <1>0, <2>4, <3>1 DEF ExecuteWrite
  <2>5. CASE ExecuteFinish(w) \/ ExecuteCrashed(w) \/ RollbackFinish(w)
    <3> DEFINE j == worker[w].job
    <3>1. j \in Jobs /\ jobs[j].status # "absent"
      BY <1>0, <2>5 DEF ExecuteFinish, ExecuteCrashed, RollbackFinish, IInv, WriterHoldsClaim, Writing,
                        RequestBound, RollbackTarget, InFlight, Settled, Rollbackable
    <3>2. jobs[j] \in JobType
      BY <1>0, <3>1 DEF NoJob
    <3>3. PICK row : jobs' = [jobs EXCEPT ![j] = row] /\ row.run = jobs[j].run
      <4>1. ASSUME ExecuteFinish(w)
            PROVE  \E row : jobs' = [jobs EXCEPT ![j] = row] /\ row.run = jobs[j].run
        <5> DEFINE rq == worker[w]
                   row == [jobs[j] EXCEPT !.status = IF Ready[rq.hash] = 0 THEN "failed"
                                                ELSE IF rq.errors THEN "partial" ELSE "executed",
                                     !.executed = rq.done, !.standing = rq.done]
        <5>1. jobs' = [jobs EXCEPT ![j] = row]
          BY <4>1 DEF ExecuteFinish
        <5>2. row.run = jobs[j].run
          BY <3>2 DEF JobType
        <5> HIDE DEF row
        <5> QED
          BY <5>1, <5>2
      <4>2. ASSUME ExecuteCrashed(w)
            PROVE  \E row : jobs' = [jobs EXCEPT ![j] = row] /\ row.run = jobs[j].run
        <5> DEFINE rq == worker[w]
                   row == [jobs[j] EXCEPT !.status = "failed", !.executed = {}]
        <5>1. jobs' = [jobs EXCEPT ![j] = row]
          BY <4>2 DEF ExecuteCrashed
        <5>2. row.run = jobs[j].run
          BY <3>2 DEF JobType
        <5> HIDE DEF row
        <5> QED
          BY <5>1, <5>2
      <4>3. ASSUME RollbackFinish(w)
            PROVE  \E row : jobs' = [jobs EXCEPT ![j] = row] /\ row.run = jobs[j].run
        <5> DEFINE rq == worker[w]
                   row == [jobs[j] EXCEPT !.status = IF rq.errors THEN "rollback_partial" ELSE "rolled_back",
                                     !.standing = rq.done,
                                     !.rolledBack = jobs[rq.job].rolledBack \/ ~rq.errors]
        <5>1. jobs' = [jobs EXCEPT ![j] = row]
          BY <4>3 DEF RollbackFinish
        <5>2. row.run = jobs[j].run
          BY <3>2 DEF JobType
        <5> HIDE DEF row
        <5> QED
          BY <5>1, <5>2
      <4> QED
        BY <2>5, <4>1, <4>2, <4>3
    <3>4. \A k \in Jobs : jobs'[k].status # "absent" => jobs[k].status # "absent" /\ jobs'[k].run = jobs[k].run
      BY <1>0, <3>1, <3>3
    <3> QED
      BY <1>0, <2>5, <3>4 DEF ExecuteFinish, ExecuteCrashed, RollbackFinish
  <2>6. ASSUME NEW i \in Intents, NEW undone \in BOOLEAN, NEW applied \in BOOLEAN,
               RollbackIntent(w, i, undone, applied)
        PROVE  RunsBounded'
    <3>1. worker[w].pc = "rollback" /\ worker'[w].pc = "rollback"
      BY <1>0, <2>6 DEF RollbackIntent, WorkerType
    <3> QED
      BY <1>0, <2>6, <3>1 DEF RollbackIntent
  <2> QED
    BY <1>3, <2>1, <2>2, <2>3, <2>4, <2>5, <2>6 DEF Step
<1>4. ASSUME NEW w \in Workers, Kill(w) PROVE RunsBounded'
  BY <1>0, <1>4 DEF Kill
<1>5. CASE LatestRun
  BY <1>5 DEF LatestRun
<1>6. CASE Tick
  <2>1. \A j \in Jobs : jobs'[j].status = jobs[j].status /\ jobs'[j].run = jobs[j].run
    BY <1>0, <1>6 DEF Tick, JobType, NoJob
  <2>2. \A w \in Workers : worker'[w].pc = worker[w].pc /\ worker'[w].run = worker[w].run
    BY <1>0, <1>6 DEF Tick, WorkerType
  <2> QED
    BY <1>6, <2>1, <2>2 DEF Tick
<1>7. CASE UNCHANGED vars
  BY <1>7 DEF vars
<1> QED
  BY <1>1, <1>2, <1>3, <1>4, <1>5, <1>6, <1>7 DEF Next

(* A gate has at most one holder, and GateOf tells who it is.                      *)
GateTells ==
  \A g \in Gates :
    /\ \A j, k \in HolderOf(g) : j = k
    /\ HolderOf(g) = {} => GateOf(g) = [phase |-> "open", job |-> None]
    /\ \A j \in HolderOf(g) :
         GateOf(g) = [phase |-> IF InFlight(jobs[j]) THEN "claimed" ELSE "written", job |-> j]

LEMMA GateRead == IInv => GateTells
<1> SUFFICES ASSUME IInv, NEW g \in Gates
             PROVE  /\ \A j, k \in HolderOf(g) : j = k
                    /\ HolderOf(g) = {} => GateOf(g) = [phase |-> "open", job |-> None]
                    /\ \A j \in HolderOf(g) :
                         GateOf(g) = [phase |-> IF InFlight(jobs[j]) THEN "claimed" ELSE "written", job |-> j]
  BY DEF GateTells
<1>1. HolderOf(g) = {} => GateOf(g) = [phase |-> "open", job |-> None]
  BY DEF GateOf
<1>2. \A j, k \in HolderOf(g) : j = k
  BY DEF IInv, OncePerRun, HolderOf, Blocking, InFlight, Successful, Holds, Gate
<1>3. ASSUME NEW j \in HolderOf(g)
      PROVE  GateOf(g) = [phase |-> IF InFlight(jobs[j]) THEN "claimed" ELSE "written", job |-> j]
  <2>1. (CHOOSE k \in HolderOf(g) : TRUE) \in HolderOf(g)
    BY <1>3
  <2>2. (CHOOSE k \in HolderOf(g) : TRUE) = j
    BY <1>2, <1>3, <2>1
  <2> QED
    BY <1>3, <2>2 DEF GateOf
<1> QED
  BY <1>1, <1>2, <1>3

Writers == {worker[w].job : w \in {v \in Workers : Writing(v)}}

(* A step that leaves the holders of a gate as they are leaves the gate.            *)
LEMMA GateSame ==
  ASSUME GateTells, GateTells', NEW g \in Gates,
         \A j \in Jobs :
           LET now == Blocking(jobs[j]) /\ Gate(jobs[j], g[1], g[2])
           IN /\ (Blocking(jobs'[j]) /\ Gate(jobs'[j], g[1], g[2])) <=> now
              /\ now => (InFlight(jobs'[j]) <=> InFlight(jobs[j]))
  PROVE  GateOf(g)' = GateOf(g)
<1>1. HolderOf(g)' = HolderOf(g) /\ HolderOf(g) \subseteq Jobs
  BY DEF HolderOf
<1>2. \A j \in HolderOf(g) : InFlight(jobs'[j]) <=> InFlight(jobs[j])
  BY DEF HolderOf
<1>3. CASE HolderOf(g) = {}
  BY <1>1, <1>3 DEF GateTells
<1>4. ASSUME NEW j \in HolderOf(g) PROVE GateOf(g)' = GateOf(g)
  <2>1. GateOf(g) = [phase |-> IF InFlight(jobs[j]) THEN "claimed" ELSE "written", job |-> j]
    BY <1>4 DEF GateTells
  <2>2. GateOf(g)' = [phase |-> IF InFlight(jobs'[j]) THEN "claimed" ELSE "written", job |-> j]
    BY <1>1, <1>4 DEF GateTells
  <2> QED
    BY <1>2, <2>1, <2>2
<1> QED
  BY <1>3, <1>4

LEMMA GateStutters ==
  ASSUME \A g \in Gates : GateOf(g)' = GateOf(g), Writers' = Writers
  PROVE  UNCHANGED Abstract!vars
BY DEF Abstract!vars, Writers

(* What each step does to the rows, seen from a gate.                               *)
LEMMA JobsUntouched ==
  ASSUME GateTells, GateTells', UNCHANGED jobs
  PROVE  \A g \in Gates : GateOf(g)' = GateOf(g)
BY GateSame

LEMMA WritersKept ==
  ASSUME IInv, NEW w \in Workers, NEW rq, worker' = [worker EXCEPT ![w] = rq],
         (rq.pc \in {"write", "crashed"}) <=> Writing(w),
         Writing(w) => rq.job = worker[w].job
  PROVE  Writers' = Writers
<1>1. worker \in [Workers -> WorkerType]
  BY DEF IInv, TypeOK
<1>2. worker'[w] = rq /\ \A v \in Workers \ {w} : worker'[v] = worker[v]
  BY <1>1
<1>3. \A v \in Workers : Writing(v)' = Writing(v) /\ (Writing(v) => worker'[v].job = worker[v].job)
  BY <1>2 DEF Writing
<1> QED
  BY <1>3 DEF Writers

LEMMA WriterLeaves ==
  ASSUME IInv, NEW w \in Workers, worker' = [worker EXCEPT ![w] = Idle], Writing(w)
  PROVE  Writers' = Writers \ {worker[w].job} /\ worker[w].job \in Writers
<1>1. worker \in [Workers -> WorkerType] /\ Idle.pc = "idle"
  BY DEF IInv, TypeOK, Idle
<1>2. worker'[w] = Idle /\ \A v \in Workers \ {w} : worker'[v] = worker[v]
  BY <1>1
<1>3. ~Writing(w)' /\ \A v \in Workers \ {w} : Writing(v)' = Writing(v) /\ worker'[v].job = worker[v].job
  BY <1>1, <1>2 DEF Writing
<1>4. \A v \in Workers \ {w} : Writing(v) => worker[v].job # worker[w].job
  BY DEF IInv, WriterHoldsClaim
<1> QED
  BY <1>3, <1>4 DEF Writers

(* The steps of the abstract gate, told by their effect.                            *)
LEMMA Died ==
  ASSUME NEW j \in Jobs, j \in Writers, Writers' = Writers \ {j},
         \A g \in Gates : GateOf(g)' = GateOf(g)
  PROVE  Abstract!Next
<1>1. Abstract!Die(j)
  BY DEF Abstract!Die, Writers
<1> QED
  BY <1>1 DEF Abstract!Next

LEMMA Claimed ==
  ASSUME NEW g \in Gates, NEW j \in Jobs,
         \/ GateOf(g) = [phase |-> "open", job |-> None]
         \/ GateOf(g).phase = "claimed" /\ GateOf(g).job \notin Writers,
         \A h \in Gates : GateOf(h).job # j,
         GateOf(g)' = [phase |-> "claimed", job |-> j],
         \A h \in Gates \ {g} : GateOf(h)' = GateOf(h),
         Writers' = Writers \cup {j}
  PROVE  Abstract!Next
<1>1. Abstract!Claim(g, j)
  BY DEF Abstract!Claim, Abstract!Open, Writers
<1> QED
  BY <1>1 DEF Abstract!Next

LEMMA SettledGate ==
  ASSUME NEW g \in Gates, NEW wrote \in BOOLEAN, NEW j,
         GateOf(g) = [phase |-> "claimed", job |-> j], j \in Writers,
         GateOf(g)' = IF wrote THEN [phase |-> "written", job |-> j] ELSE [phase |-> "open", job |-> None],
         \A h \in Gates \ {g} : GateOf(h)' = GateOf(h),
         Writers' = Writers \ {j}
  PROVE  Abstract!Next
<1> DEFINE held == [h \in Gates |-> GateOf(h)]
           next == IF wrote THEN [held[g] EXCEPT !.phase = "written"] ELSE [phase |-> "open", job |-> None]
<1>1. held[g] = [phase |-> "claimed", job |-> j]
  OBVIOUS
<1>2. next = GateOf(g)'
  BY <1>1
<1>3. [h \in Gates |-> GateOf(h)]' = [held EXCEPT ![g] = next]
  BY <1>2
<1>4. Abstract!Settle(g, wrote)
  BY <1>1, <1>3 DEF Abstract!Settle, Abstract!Open, Writers
<1> QED
  BY <1>4 DEF Abstract!Next

LEMMA RolledBackGate ==
  ASSUME NEW g \in Gates, GateOf(g).phase = "written",
         GateOf(g)' = [phase |-> "open", job |-> None],
         \A h \in Gates \ {g} : GateOf(h)' = GateOf(h),
         Writers' = Writers
  PROVE  Abstract!Next
<1>1. Abstract!RollBack(g)
  BY DEF Abstract!RollBack, Abstract!Open, Writers
<1> QED
  BY <1>1 DEF Abstract!Next

(* The steps that leave the rows alone.                                             *)
LEMMA QuietGate ==
  ASSUME GateTells, GateTells', UNCHANGED jobs, Writers' = Writers
  PROVE  UNCHANGED Abstract!vars
BY JobsUntouched, GateStutters

LEMMA RequestGate ==
  ASSUME IInv, GateTells, GateTells', NEW w \in Workers, Request(w)
  PROVE  UNCHANGED Abstract!vars
<1>1. worker[w].pc = "idle" /\ UNCHANGED jobs
  BY DEF Request, PreviewStart, ExecuteStart, RollbackStart
<1>2. \E rq : worker' = [worker EXCEPT ![w] = rq] /\ rq.pc \notin {"write", "crashed"}
  <2>1. ASSUME NEW p \in Previews, NEW c \in Checks, NEW h \in Hashes, PreviewStart(w, p, c, h)
        PROVE  \E rq : worker' = [worker EXCEPT ![w] = rq] /\ rq.pc \notin {"write", "crashed"}
    <3> DEFINE rq == [Idle EXCEPT !.pc = "revoke", !.preview = p]
    <3>1. rq.pc = "revoke"
      BY DEF Idle
    <3>2. worker' = [worker EXCEPT ![w] = rq]
      BY <2>1 DEF PreviewStart
    <3> HIDE DEF rq
    <3> QED
      BY <3>1, <3>2
  <2>2. ASSUME NEW c \in Checks, NEW t \in Tokens, NEW h \in Hashes, NEW e \in Hashes,
               ExecuteStart(w, c, t, h, e)
        PROVE  \E rq : worker' = [worker EXCEPT ![w] = rq] /\ rq.pc \notin {"write", "crashed"}
    <3> DEFINE rq == [Idle EXCEPT !.pc = IF h = e THEN "validate" ELSE "mismatch",
                                  !.check = c, !.token = t, !.hash = h, !.run = run]
    <3>1. rq.pc \in {"validate", "mismatch"}
      BY DEF Idle
    <3>2. worker' = [worker EXCEPT ![w] = rq]
      BY <2>2 DEF ExecuteStart
    <3> HIDE DEF rq
    <3> QED
      BY <3>1, <3>2
  <2>3. ASSUME NEW j \in Jobs, RollbackStart(w, j)
        PROVE  \E rq : worker' = [worker EXCEPT ![w] = rq] /\ rq.pc \notin {"write", "crashed"}
    <3> DEFINE rq == [Idle EXCEPT !.pc = "rollback", !.check = jobs[j].check, !.job = j,
                                  !.todo = jobs[j].standing, !.done = jobs[j].standing]
    <3>1. rq.pc = "rollback"
      BY DEF Idle
    <3>2. worker' = [worker EXCEPT ![w] = rq]
      BY <2>3 DEF RollbackStart
    <3> HIDE DEF rq
    <3> QED
      BY <3>1, <3>2
  <2> QED
    BY <2>1, <2>2, <2>3 DEF Request
<1>3. Writers' = Writers
  BY <1>1, <1>2, WritersKept DEF Writing
<1> QED
  BY <1>1, <1>3, QuietGate

LEMMA LocalGate ==
  ASSUME IInv, GateTells, GateTells', NEW w \in Workers,
         \/ PreviewRevoke(w) \/ ExecuteMismatch(w) \/ ExecuteValidate(w) \/ ExecuteBlocked(w)
         \/ \E i \in Intents, o \in AdapterOutcome : ExecuteWrite(w, i, o)
         \/ \E i \in Intents, undone, applied \in BOOLEAN : RollbackIntent(w, i, undone, applied)
  PROVE  UNCHANGED Abstract!vars
<1> DEFINE rq == worker[w]
<1>0. rq \in WorkerType /\ Idle.pc = "idle"
  BY DEF IInv, TypeOK, Idle
<1>1. UNCHANGED jobs
  BY DEF PreviewRevoke, ExecuteMismatch, ExecuteValidate, ExecuteBlocked, ExecuteWrite, RollbackIntent
<1>2. CASE PreviewRevoke(w) \/ ExecuteMismatch(w) \/ ExecuteBlocked(w)
  <2>1. worker' = [worker EXCEPT ![w] = Idle] /\ rq.pc \in {"revoke", "mismatch", "claim"}
    BY <1>2 DEF PreviewRevoke, ExecuteMismatch, ExecuteBlocked
  <2>2. Writers' = Writers
    BY <1>0, <2>1, WritersKept DEF Writing
  <2> QED
    BY <1>1, <2>2, QuietGate
<1>3. CASE ExecuteValidate(w)
  <2> DEFINE next == [rq EXCEPT !.pc = "claim"]
  <2>1. next.pc = "claim"
    BY <1>0 DEF WorkerType
  <2>2. rq.pc = "validate" /\ (worker' = [worker EXCEPT ![w] = Idle] \/ worker' = [worker EXCEPT ![w] = next])
    BY <1>3 DEF ExecuteValidate
  <2> HIDE DEF next
  <2>3. Writers' = Writers
    BY <1>0, <2>1, <2>2, WritersKept DEF Writing
  <2> QED
    BY <1>1, <2>3, QuietGate
<1>4. ASSUME NEW i \in Intents, NEW o \in AdapterOutcome, ExecuteWrite(w, i, o)
      PROVE  UNCHANGED Abstract!vars
  <2> DEFINE failed == rq.errors \/ o.result = "error"
             stop == failed /\ ChunkDone(i, rq.hash)
             raised == [rq EXCEPT !.pc = "crashed"]
             went == [rq EXCEPT !.todo = IF stop THEN {} ELSE rq.todo \ {i},
                                !.done = IF o.result = "executed" THEN rq.done \cup {i} ELSE rq.done,
                                !.errors = failed]
  <2>1. raised.pc = "crashed" /\ raised.job = rq.job /\ went.pc = rq.pc /\ went.job = rq.job
    BY <1>0 DEF WorkerType
  <2>2. rq.pc = "write" /\ worker' = [worker EXCEPT ![w] = IF o.result = "raise" THEN raised ELSE went]
    BY <1>4 DEF ExecuteWrite
  <2> HIDE DEF raised, went, failed, stop
  <2>3. Writers' = Writers
    BY <2>1, <2>2, WritersKept DEF Writing
  <2> QED
    BY <1>1, <2>3, QuietGate
<1>5. ASSUME NEW i \in Intents, NEW undone \in BOOLEAN, NEW applied \in BOOLEAN,
             RollbackIntent(w, i, undone, applied)
      PROVE  UNCHANGED Abstract!vars
  <2> DEFINE next == [rq EXCEPT !.todo = rq.todo \ {i},
                                !.done = IF undone THEN rq.done \ {i} ELSE rq.done,
                                !.errors = rq.errors \/ ~undone]
  <2>1. next.pc = rq.pc
    BY <1>0 DEF WorkerType
  <2>2. rq.pc = "rollback" /\ worker' = [worker EXCEPT ![w] = next]
    BY <1>5 DEF RollbackIntent
  <2> HIDE DEF next
  <2>3. Writers' = Writers
    BY <2>1, <2>2, WritersKept DEF Writing
  <2> QED
    BY <1>1, <2>3, QuietGate
<1> QED
  BY <1>2, <1>3, <1>4, <1>5

LEMMA KillGate ==
  ASSUME IInv, GateTells, GateTells', NEW w \in Workers, Kill(w)
  PROVE  [Abstract!Next]_Abstract!vars
<1>1. worker' = [worker EXCEPT ![w] = Idle] /\ UNCHANGED jobs /\ Idle.pc = "idle"
  BY DEF Kill, Idle
<1>2. CASE Writing(w)
  <2>1. worker[w].job \in Jobs
    BY <1>2 DEF IInv, RequestBound, Writing
  <2>2. Writers' = Writers \ {worker[w].job} /\ worker[w].job \in Writers
    BY <1>1, <1>2, WriterLeaves
  <2> QED
    BY <1>1, <2>1, <2>2, Died, JobsUntouched
<1>3. CASE ~Writing(w)
  <2>1. Writers' = Writers
    BY <1>1, <1>3, WritersKept
  <2> QED
    BY <1>1, <2>1, QuietGate
<1> QED
  BY <1>2, <1>3

LEMMA TickGate ==
  ASSUME IInv, GateTells, GateTells', Tick
  PROVE  UNCHANGED Abstract!vars
<1>0. worker \in [Workers -> WorkerType] /\ jobs \in [Jobs -> JobType \cup {NoJob}]
  BY DEF IInv, TypeOK
<1>1. \A j \in Jobs : LET n == jobs'[j]
                          o == jobs[j]
                      IN /\ n.status = o.status /\ n.check = o.check /\ n.run = o.run
                         /\ n.executed = o.executed /\ n.rolledBack = o.rolledBack
  BY <1>0 DEF Tick, JobType, NoJob
<1>2. \A g \in Gates : GateOf(g)' = GateOf(g)
  BY <1>1, GateSame DEF Blocking, InFlight, Successful, Gate
<1>3. \A v \in Workers : worker'[v].pc = worker[v].pc /\ worker'[v].job = worker[v].job
  BY <1>0 DEF Tick, WorkerType
<1>4. Writers' = Writers
  BY <1>3 DEF Writers, Writing
<1> QED
  BY <1>2, <1>4, GateStutters

(* A save of one row concerns its gate only.                                        *)
LEMMA OtherGates ==
  ASSUME IInv, GateTells, GateTells', NEW j \in Jobs, NEW row, jobs' = [jobs EXCEPT ![j] = row],
         row.check = jobs[j].check, row.run = jobs[j].run,
         NEW g \in Gates, g # <<jobs[j].check, jobs[j].run>>
  PROVE  GateOf(g)' = GateOf(g)
<1>0. jobs \in [Jobs -> JobType \cup {NoJob}]
  BY DEF IInv, TypeOK
<1>1. ~Gate(jobs[j], g[1], g[2]) /\ ~Gate(row, g[1], g[2])
  BY DEF Gates, Gate
<1>2. jobs'[j] = row /\ \A k \in Jobs \ {j} : jobs'[k] = jobs[k]
  BY <1>0
<1> QED
  BY <1>1, <1>2, GateSame

LEMMA FinishGate ==
  ASSUME IInv, RunsBounded, GateTells, GateTells', NEW w \in Workers,
         ExecuteFinish(w) \/ ExecuteCrashed(w),
         NEW j, j = worker[w].job, NEW g, g = <<jobs[j].check, jobs[j].run>>
  PROVE  Abstract!Next
<1> DEFINE rq == worker[w]
<1>0. jobs \in [Jobs -> JobType \cup {NoJob}] /\ j \in Jobs /\ Writing(w) /\ InFlight(jobs[j])
  BY DEF IInv, TypeOK, RequestBound, WriterHoldsClaim, ExecuteFinish, ExecuteCrashed, Writing
<1>1. jobs[j] \in JobType
  BY <1>0 DEF NoJob, InFlight
<1>2. g \in Gates /\ j \in HolderOf(g)
  BY <1>0, <1>1 DEF RunsBounded, JobType, Gates, HolderOf, Gate, Blocking, InFlight
<1>3. PICK row : /\ jobs' = [jobs EXCEPT ![j] = row]
                 /\ row.check = jobs[j].check /\ row.run = jobs[j].run
                 /\ row.rolledBack = jobs[j].rolledBack
                 /\ row.status \in {"failed", "partial", "executed"}
  <2>1. ASSUME ExecuteFinish(w)
        PROVE  \E row : /\ jobs' = [jobs EXCEPT ![j] = row]
                        /\ row.check = jobs[j].check /\ row.run = jobs[j].run
                        /\ row.rolledBack = jobs[j].rolledBack
                        /\ row.status \in {"failed", "partial", "executed"}
    <3> DEFINE row == [jobs[j] EXCEPT !.status = IF Ready[rq.hash] = 0 THEN "failed"
                                                 ELSE IF rq.errors THEN "partial" ELSE "executed",
                                      !.executed = rq.done, !.standing = rq.done]
    <3>1. jobs' = [jobs EXCEPT ![j] = row]
      BY <2>1 DEF ExecuteFinish
    <3>2. /\ row.check = jobs[j].check /\ row.run = jobs[j].run /\ row.rolledBack = jobs[j].rolledBack
          /\ row.status \in {"failed", "partial", "executed"}
      BY <1>1 DEF JobType
    <3> HIDE DEF row
    <3> QED
      BY <3>1, <3>2
  <2>2. ASSUME ExecuteCrashed(w)
        PROVE  \E row : /\ jobs' = [jobs EXCEPT ![j] = row]
                        /\ row.check = jobs[j].check /\ row.run = jobs[j].run
                        /\ row.rolledBack = jobs[j].rolledBack
                        /\ row.status \in {"failed", "partial", "executed"}
    <3> DEFINE row == [jobs[j] EXCEPT !.status = "failed", !.executed = {}]
    <3>1. jobs' = [jobs EXCEPT ![j] = row]
      BY <2>2 DEF ExecuteCrashed
    <3>2. /\ row.check = jobs[j].check /\ row.run = jobs[j].run /\ row.rolledBack = jobs[j].rolledBack
          /\ row.status \in {"failed", "partial", "executed"}
      BY <1>1 DEF JobType
    <3> HIDE DEF row
    <3> QED
      BY <3>1, <3>2
  <2> QED
    BY <2>1, <2>2
<1>4. jobs'[j] = row /\ (\A k \in Jobs \ {j} : jobs'[k] = jobs[k]) /\ ~InFlight(jobs'[j])
  BY <1>0, <1>3 DEF InFlight
<1>5. GateOf(g) = [phase |-> "claimed", job |-> j]
  BY <1>0, <1>2 DEF GateTells
<1>6. \A h \in Gates \ {g} : GateOf(h)' = GateOf(h)
  BY <1>0, <1>3, OtherGates
<1>7. Writers' = Writers \ {j} /\ j \in Writers
  BY <1>0, WriterLeaves DEF ExecuteFinish, ExecuteCrashed
<1>8. CASE row.executed # {}
  <2>1. Blocking(jobs'[j]) /\ Gate(jobs'[j], g[1], g[2])
    BY <1>0, <1>3, <1>4, <1>8 DEF Blocking, Successful, InFlight, Gate
  <2>2. GateOf(g)' = [phase |-> "written", job |-> j]
    <3>1. j \in HolderOf(g)'
      BY <1>0, <2>1 DEF HolderOf
    <3> QED
      BY <1>2, <1>4, <3>1 DEF GateTells
  <2> QED
    BY <1>2, <1>5, <1>6, <1>7, <2>2, SettledGate
<1>9. CASE row.executed = {}
  <2>1. ~Blocking(jobs'[j])
    BY <1>4, <1>9 DEF Blocking, Successful
  <2>2. HolderOf(g)' = {}
    BY <1>2, <1>4, <2>1 DEF HolderOf, GateTells
  <2>3. GateOf(g)' = [phase |-> "open", job |-> None]
    BY <1>2, <2>2 DEF GateTells
  <2> QED
    BY <1>2, <1>5, <1>6, <1>7, <2>3, SettledGate
<1> QED
  BY <1>8, <1>9

LEMMA RollbackGate ==
  ASSUME IInv, RunsBounded, GateTells, GateTells', NEW w \in Workers, RollbackFinish(w),
         NEW j, j = worker[w].job, NEW g, g = <<jobs[j].check, jobs[j].run>>
  PROVE  [Abstract!Next]_Abstract!vars
<1> DEFINE rq == worker[w]
           row == [jobs[j] EXCEPT !.status = IF rq.errors THEN "rollback_partial" ELSE "rolled_back",
                                  !.standing = rq.done,
                                  !.rolledBack = jobs[j].rolledBack \/ ~rq.errors]
<1>0. /\ jobs \in [Jobs -> JobType \cup {NoJob}] /\ worker \in [Workers -> WorkerType]
      /\ j \in Jobs /\ rq.pc = "rollback" /\ jobs[j].status \in Settled
  BY DEF IInv, TypeOK, RequestBound, RollbackTarget, RollbackFinish
<1>1. jobs[j] \in JobType
  BY <1>0 DEF NoJob, Settled, Rollbackable
<1>2. g \in Gates
  BY <1>0, <1>1 DEF RunsBounded, JobType, Gates, Settled, Rollbackable
<1>3. /\ row.check = jobs[j].check /\ row.run = jobs[j].run /\ row.executed = jobs[j].executed
      /\ row.status \in {"rollback_partial", "rolled_back"}
      /\ row.rolledBack = (jobs[j].rolledBack \/ ~rq.errors)
  BY <1>1 DEF JobType
<1>4. jobs' = [jobs EXCEPT ![j] = row] /\ worker' = [worker EXCEPT ![w] = Idle]
  BY DEF RollbackFinish
<1> HIDE DEF row
<1>5. jobs'[j] = row /\ \A k \in Jobs \ {j} : jobs'[k] = jobs[k]
  BY <1>0, <1>4
<1>6. Writers' = Writers
  BY <1>0, <1>4, WritersKept DEF Writing, Idle
<1>7. \A h \in Gates \ {g} : GateOf(h)' = GateOf(h)
  BY <1>0, <1>3, <1>4, OtherGates
<1>8. ~InFlight(jobs[j]) /\ ~InFlight(row)
  BY <1>0, <1>3 DEF InFlight, Settled, Rollbackable
<1>9. CASE Blocking(jobs[j]) /\ row.rolledBack
  <2>1. GateOf(g).phase = "written"
    BY <1>0, <1>2, <1>8, <1>9 DEF GateTells, HolderOf, Gate
  <2>2. HolderOf(g)' = {}
    BY <1>0, <1>2, <1>5, <1>9 DEF HolderOf, GateTells, Blocking, Gate
  <2>3. GateOf(g)' = [phase |-> "open", job |-> None]
    BY <1>2, <2>2 DEF GateTells
  <2> QED
    BY <1>2, <1>6, <1>7, <2>1, <2>3, RolledBackGate
<1>10. CASE ~(Blocking(jobs[j]) /\ row.rolledBack)
  <2>1. Blocking(row) <=> Blocking(jobs[j])
    BY <1>0, <1>1, <1>3, <1>8, <1>10 DEF Blocking, Successful, Settled, Rollbackable, JobType
  <2>2. GateOf(g)' = GateOf(g)
    BY <1>2, <1>3, <1>5, <1>8, <2>1, GateSame DEF Gate
  <2> QED
    BY <1>6, <1>7, <2>2, GateStutters
<1> QED
  BY <1>9, <1>10

LEMMA ClaimGate ==
  ASSUME IInv, RunsBounded, GateTells, GateTells', NEW w \in Workers, NEW j \in Jobs, ExecuteClaim(w, j),
         NEW g, g = <<worker[w].check, worker[w].run>>
  PROVE  Abstract!Next
<1> DEFINE rq == worker[w]
           fresh == Reclaim(rq.check, rq.run)
           row == [status |-> "executing", check |-> rq.check, run |-> rq.run,
                   hash |-> rq.hash, token |-> rq.token, executed |-> {}, standing |-> {},
                   rolledBack |-> FALSE, age |-> 0]
           next == [rq EXCEPT !.pc = "write", !.job = j, !.todo = 1 .. Ready[rq.hash]]
<1>0. /\ jobs \in [Jobs -> JobType \cup {NoJob}] /\ worker \in [Workers -> WorkerType]
      /\ fresh \in [Jobs -> JobType \cup {NoJob}]
      /\ rq.pc = "claim" /\ jobs[j].status = "absent"
  BY ReclaimRows DEF IInv, TypeOK, ExecuteClaim
<1>1. g \in Gates
  BY <1>0 DEF IInv, RequestBound, RunsBounded, Gates
<1>2. /\ row.status = "executing" /\ row.check = rq.check /\ row.run = rq.run /\ row.rolledBack = FALSE
      /\ next.pc = "write" /\ next.job = j
  BY <1>0 DEF WorkerType
<1>3. /\ jobs' = [fresh EXCEPT ![j] = row] /\ worker' = [worker EXCEPT ![w] = next]
      /\ ~ \E k \in Jobs : Gate(fresh[k], rq.check, rq.run) /\ Blocking(fresh[k])
  BY DEF ExecuteClaim
<1>4. \A k \in Jobs : /\ fresh[k] = jobs[k] \/ (Gate(jobs[k], rq.check, rq.run) /\ Stale(jobs[k]))
                      /\ fresh[k].check = jobs[k].check /\ fresh[k].run = jobs[k].run
  BY ReclaimRows DEF Reclaim
<1>5. \A v \in Workers : Writing(v) => ~Stale(jobs[worker[v].job])
  BY ConstantTypes DEF IInv, TypeOK, WorkerType, ClaimAge, Stale, InFlight, Writing, RequestBound, JobType, NoJob, WriterHoldsClaim
<1> HIDE DEF row, next, fresh
<1>6. jobs'[j] = row /\ \A k \in Jobs \ {j} : jobs'[k] = fresh[k]
  BY <1>0, <1>3
<1>7. \/ GateOf(g) = [phase |-> "open", job |-> None]
      \/ GateOf(g).phase = "claimed" /\ GateOf(g).job \notin Writers
  <2>1. CASE HolderOf(g) = {}
    BY <1>1, <2>1 DEF GateTells
  <2>2. ASSUME NEW k \in HolderOf(g)
        PROVE  GateOf(g).phase = "claimed" /\ GateOf(g).job \notin Writers
    <3>1. k \in Jobs /\ Blocking(jobs[k]) /\ Gate(jobs[k], rq.check, rq.run)
      BY <2>2 DEF HolderOf
    <3>2. Stale(jobs[k])
      BY <1>3, <1>4, <3>1
    <3>3. k \notin Writers
      BY <1>5, <3>2 DEF Writers
    <3> QED
      BY <1>1, <2>2, <3>2, <3>3 DEF GateTells, Stale
  <2> QED
    BY <2>1, <2>2
<1>8. \A h \in Gates : GateOf(h).job # j
  <2> SUFFICES ASSUME NEW h \in Gates PROVE GateOf(h).job # j
    OBVIOUS
  <2>1. j \notin HolderOf(h)
    BY <1>0 DEF HolderOf, Blocking, InFlight, Successful
  <2>2. CASE HolderOf(h) = {}
    BY <2>2, ConstantTypes DEF GateTells
  <2>3. ASSUME NEW k \in HolderOf(h) PROVE GateOf(h).job # j
    BY <2>1, <2>3 DEF GateTells
  <2> QED
    BY <2>2, <2>3
<1>9. GateOf(g)' = [phase |-> "claimed", job |-> j]
  <2>1. j \in HolderOf(g)' /\ InFlight(jobs'[j])
    BY <1>2, <1>6 DEF HolderOf, Blocking, InFlight, Gate
  <2> QED
    BY <1>1, <2>1 DEF GateTells
<1>10. \A h \in Gates \ {g} : GateOf(h)' = GateOf(h)
  <2> SUFFICES ASSUME NEW h \in Gates, h # g PROVE GateOf(h)' = GateOf(h)
    OBVIOUS
  <2>1. \A k \in Jobs \ {j} : Gate(jobs[k], h[1], h[2]) => fresh[k] = jobs[k]
    BY <1>4 DEF Gate, Gates
  <2>2. \A k \in Jobs \ {j} : Gate(jobs'[k], h[1], h[2]) <=> Gate(jobs[k], h[1], h[2])
    BY <1>4, <1>6 DEF Gate
  <2>3. ~Blocking(jobs[j]) /\ ~Gate(jobs'[j], h[1], h[2])
    BY <1>0, <1>2, <1>6 DEF Blocking, InFlight, Successful, Gate, Gates
  <2> QED
    BY <1>6, <2>1, <2>2, <2>3, GateSame
<1>11. Writers' = Writers \cup {j}
  <2>1. ~Writing(w) /\ Writing(w)' /\ worker'[w].job = j
    BY <1>0, <1>2, <1>3 DEF Writing
  <2>2. \A v \in Workers \ {w} : worker'[v] = worker[v]
    BY <1>0, <1>3
  <2> QED
    BY <2>1, <2>2 DEF Writers, Writing
<1> QED
  BY <1>1, <1>7, <1>8, <1>9, <1>10, <1>11, Claimed

LEMMA GateStep ==
  IInv /\ RunsBounded /\ GateTells /\ GateTells' /\ [Next]_vars => [Abstract!Next]_Abstract!vars
<1> SUFFICES ASSUME IInv, RunsBounded, GateTells, GateTells', [Next]_vars
             PROVE  [Abstract!Next]_Abstract!vars
  OBVIOUS
<1>1. CASE Approvals
  BY <1>1, QuietGate DEF Approvals, Writers, Writing
<1>2. ASSUME NEW w \in Workers, Request(w) PROVE [Abstract!Next]_Abstract!vars
  BY <1>2, RequestGate
<1>3. ASSUME NEW w \in Workers, Step(w) PROVE [Abstract!Next]_Abstract!vars
  <2>1. PICK j : j = worker[w].job
    OBVIOUS
  <2>2. PICK g : g = <<jobs[j].check, jobs[j].run>>
    OBVIOUS
  <2>3. PICK h : h = <<worker[w].check, worker[w].run>>
    OBVIOUS
  <2>4. CASE ExecuteFinish(w) \/ ExecuteCrashed(w)
    BY <2>1, <2>2, <2>4, FinishGate
  <2>5. CASE RollbackFinish(w)
    BY <2>1, <2>2, <2>5, RollbackGate
  <2>6. ASSUME NEW k \in Jobs, ExecuteClaim(w, k) PROVE Abstract!Next
    BY <2>3, <2>6, ClaimGate
  <2> QED
    BY <1>3, <2>4, <2>5, <2>6, LocalGate DEF Step
<1>4. ASSUME NEW w \in Workers, Kill(w) PROVE [Abstract!Next]_Abstract!vars
  BY <1>4, KillGate
<1>5. CASE LatestRun
  BY <1>5, QuietGate DEF LatestRun, Writers, Writing
<1>6. CASE Tick
  BY <1>6, TickGate
<1>7. CASE UNCHANGED vars
  BY <1>7, QuietGate DEF vars, Writers, Writing
<1> QED
  BY <1>1, <1>2, <1>3, <1>4, <1>5, <1>6, <1>7 DEF Next

(* The tables, locks, clocks and tokens of the pipeline implement the abstract gate: *)
(* each claim, settlement, death of a writer and rollback is one of its steps, and  *)
(* everything else a stutter, for any number of workers, jobs, checks and runs.     *)
THEOREM ImplementsGateHolds == Spec => ImplementsGate
<1>1. Init => RunsBounded
  BY DEF Init, RunsBounded, NoJob, Idle
<1>2. Init => Abstract!Init
  BY DEF Init, Abstract!Init, Abstract!Open, GateOf, HolderOf, Blocking, InFlight, Successful, NoJob, Idle, Writing
<1>3. IInv' => GateTells'
  BY GateRead, PTL
<1> QED
  BY <1>1, <1>2, <1>3, Invariance, RunsStep, GateRead, GateStep, PTL DEF Spec, ImplementsGate, Abstract!Spec
=================================================================================
