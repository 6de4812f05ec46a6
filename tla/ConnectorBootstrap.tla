------------------------------ MODULE ConnectorBootstrap ------------------------------
(* The bootstrap import of one connector of one company: connect, reconnect and        *)
(* disconnect (tenants/connector_views.py), enqueue_connector_bootstrap and             *)
(* supersede_active_bootstrap_data_runs (dataruns/connectors/base.py), and the Celery   *)
(* worker in bootstrap_connector_fetch (dataruns/tasks.py) and run_import               *)
(* (dataruns/connectors/import_data.py).                                                *)
(*                                                                                      *)
(* The one atomic guard is the claim; every other change of a run is a look at its row  *)
(* and then a save, and its metadata is always saved whole, from the copy at hand.      *)
EXTENDS Integers

CONSTANTS
  MaxRuns,      \* bound on the bootstrap runs
  MaxCreds,     \* bound on the credentials that are ever saved
  Callers,      \* web requests
  Workers,      \* Celery worker slots
  MaxFaults,    \* bound on what goes wrong outside the code
  None          \* null

ASSUME BootstrapAssumption ==
  MaxRuns \in Nat \ {0} /\ MaxCreds \in Nat \ {0} /\ MaxFaults \in Nat /\ None \notin Nat

VARIABLES
  runs,        \* bootstrap DataRuns, in order of creation
  connector,   \* the Connector row
  queue,       \* the Celery message of each run
  caller,      \* request each web worker serves
  worker,      \* task that each worker slot executes
  faults       \* faults so far

vars == <<runs, connector, queue, caller, worker, faults>>

Runs == 1 .. MaxRuns

(* Credentials are numbered as they are saved, rows by their first credentials.        *)
Creds == 0 .. MaxCreds

MetaType == [superseded : BOOLEAN, snapshot : BOOLEAN, report : BOOLEAN]

Bare == [superseded |-> FALSE, snapshot |-> FALSE, report |-> FALSE]

(* `used' are the credentials whose import the run has persisted; `owed' those of the   *)
(* newest reconnect that was answered with the run.                                     *)
RunType ==
  [status : {"absent", "pending", "running", "succeeded", "failed"}, meta : MetaType,
   used : Creds, owed : Creds]

NoRun == [status |-> "absent", meta |-> Bare, used |-> 0, owed |-> 0]

(* No row, no connector: `row' is 0 then.  Connected stands for degraded, too.          *)
ConnectorType == [row : Creds, creds : Creds, status : {"connected", "error"}]

Away == [pc |-> "idle", creds |-> 0, copies |-> <<>>, run |-> None]

CallerType ==
  [pc : {"idle", "list", "supersede", "find", "create", "send"}, creds : Creds,
   copies : UNION {[S -> MetaType] : S \in SUBSET Runs}, run : Runs \cup {None}]

Free == [pc |-> "idle", run |-> None, row |-> 0, creds |-> 0, copy |-> Bare]

WorkerType ==
  [pc : {"idle", "claim", "check", "load", "preflight", "fail", "failing", "recheck",
         "import", "fetch", "attach", "persist", "persisted", "mark", "save", "return",
         "report", "status", "broken", "snapshot", "markFailed", "saveFailed", "failed",
         "crash", "crashMark", "crashSave", "done"},
   run : Runs \cup {None}, row : Creds, creds : Creds, copy : MetaType]

TypeOK ==
  /\ runs \in [Runs -> RunType]
  /\ connector \in ConnectorType
  /\ queue \in [Runs -> {"none", "queued", "delivered"}]
  /\ caller \in [Callers -> CallerType]
  /\ worker \in [Workers -> WorkerType]
  /\ faults \in 0 .. MaxFaults

Init ==
  /\ runs = [r \in Runs |-> NoRun]
  /\ connector = [row |-> 0, creds |-> 0, status |-> "connected"]
  /\ queue = [r \in Runs |-> "none"]
  /\ caller = [c \in Callers |-> Away]
  /\ worker = [w \in Workers |-> Free]
  /\ faults = 0

--------------------------------------------------------------------------------------
(* The connector                                                                        *)

(* A row that is updated is a reconnect, and its request goes on to supersede what is   *)
(* active; one that is created, by a first connect or after a disconnect, does not.     *)
Connect(c) ==
  /\ caller[c].pc = "idle"
  /\ connector.creds < MaxCreds
  /\ LET new == connector.creds + 1
     IN IF connector.row = 0
        THEN /\ connector' = [row |-> new, creds |-> new, status |-> "connected"]
             /\ caller' = [caller EXCEPT ![c] = [Away EXCEPT !.pc = "find"]]
        ELSE /\ connector' = [connector EXCEPT !.creds = new, !.status = "connected"]
             /\ caller' = [caller EXCEPT ![c] =
                  [Away EXCEPT !.pc = "list", !.creds = new]]
  /\ UNCHANGED <<runs, queue, worker, faults>>

ManualFetch(c) ==
  /\ caller[c].pc = "idle"
  /\ connector.row # 0
  /\ caller' = [caller EXCEPT ![c] = [Away EXCEPT !.pc = "find"]]
  /\ UNCHANGED <<runs, connector, queue, worker, faults>>

Disconnect ==
  /\ connector.row # 0
  /\ connector' = [connector EXCEPT !.row = 0]
  /\ UNCHANGED <<runs, queue, caller, worker, faults>>

--------------------------------------------------------------------------------------
(* enqueue_connector_bootstrap                                                          *)

IsActive(r) == runs[r].status \in {"pending", "running"}

IsNewestActive(r) == IsActive(r) /\ \A q \in Runs : q > r => ~IsActive(q)

(* mutant: a running bootstrap is left alone *)
ToSupersedeMut == {r \in Runs : runs[r].status = "pending"}

ToSupersede == {r \in Runs : IsActive(r)}

(* supersede_active_bootstrap_data_runs reads the active rows ...                       *)
List(c) ==
  /\ caller[c].pc = "list"
  /\ caller' = [caller EXCEPT
       ![c].pc = IF ToSupersede = {} THEN "find" ELSE "supersede",
       ![c].copies = [r \in ToSupersede |-> runs[r].meta]]
  /\ UNCHANGED <<runs, connector, queue, worker, faults>>

(* ... and saves them one after the other.                                              *)
Supersede(c) ==
  /\ caller[c].pc = "supersede"
  /\ \E r \in DOMAIN caller[c].copies :
       LET rest == DOMAIN caller[c].copies \ {r}
       IN /\ runs' = [runs EXCEPT
               ![r].status = "failed",
               ![r].meta = [caller[c].copies[r] EXCEPT !.superseded = TRUE]]
          /\ caller' = [caller EXCEPT
               ![c].pc = IF rest = {} THEN "find" ELSE "supersede",
               ![c].copies = [q \in rest |-> caller[c].copies[q]]]
  /\ UNCHANGED <<connector, queue, worker, faults>>

Answer(c) == caller' = [caller EXCEPT ![c] = Away]

(* What a reconnect that is answered with the run is owed                               *)
Owed(c, r) == IF caller[c].creds > runs[r].owed THEN caller[c].creds ELSE runs[r].owed

FindActive(c) ==
  /\ caller[c].pc = "find"
  /\ \E r \in Runs : IsNewestActive(r) /\ runs' = [runs EXCEPT ![r].owed = Owed(c, r)]
  /\ Answer(c)
  /\ UNCHANGED <<connector, queue, worker, faults>>

FindNone(c) ==
  /\ caller[c].pc = "find"
  /\ \A r \in Runs : ~IsActive(r)
  /\ caller' = [caller EXCEPT ![c].pc = "create"]
  /\ UNCHANGED <<runs, connector, queue, worker, faults>>

Create(c) ==
  /\ caller[c].pc = "create"
  /\ \E r \in Runs :
       /\ runs[r].status = "absent" /\ \A q \in Runs : q < r => runs[q].status # "absent"
       /\ runs' = [runs EXCEPT ![r] =
            [NoRun EXCEPT !.status = "pending", !.owed = caller[c].creds]]
       /\ caller' = [caller EXCEPT ![c].pc = "send", ![c].run = r]
  /\ UNCHANGED <<connector, queue, worker, faults>>

(* on_commit, outside a transaction: at once                                            *)
Send(c) ==
  /\ caller[c].pc = "send"
  /\ queue' = [queue EXCEPT ![caller[c].run] = "queued"]
  /\ Answer(c)
  /\ UNCHANGED <<runs, connector, worker, faults>>

Fault ==
  /\ faults < MaxFaults
  /\ faults' = faults + 1

(* delay raises, whether or not the broker has taken the message: 500                   *)
SendFails(c) ==
  /\ caller[c].pc = "send"
  /\ Fault
  /\ \/ UNCHANGED queue
     \/ queue' = [queue EXCEPT ![caller[c].run] = "queued"]
  /\ Answer(c)
  /\ UNCHANGED <<runs, connector, worker>>

CallerDies(c) ==
  /\ caller[c].pc # "idle"
  /\ Fault
  /\ Answer(c)
  /\ UNCHANGED <<runs, connector, queue, worker>>

--------------------------------------------------------------------------------------
(* bootstrap_connector_fetch                                                            *)

Row(w) == runs[worker[w].run]

(* The task goes on; what it will read again before it uses it is dropped.              *)
Goto(w, pc) == worker' = [worker EXCEPT ![w].pc = pc, ![w].copy = Bare]

Over(w) == [Free EXCEPT !.pc = "done", !.run = worker[w].run]

End(w) == worker' = [worker EXCEPT ![w] = Over(w)]

(* bootstrap_data_run_may_persist; _skipped_superseded_bootstrap asks for the same.     *)
MayPersist(w) == Row(w).status = "running" /\ ~Row(w).meta.superseded

(* A look refreshes the copy, and the task goes on from `pc' or is over.                *)
Look(w, ok, pc) ==
  /\ worker' = [worker EXCEPT ![w] =
       IF ok THEN [@ EXCEPT !.pc = pc, !.copy = Row(w).meta] ELSE Over(w)]
  /\ UNCHANGED <<runs, connector, queue, caller, faults>>

SaveMeta(w, meta) == runs' = [runs EXCEPT ![worker[w].run].meta = meta]

SaveEnd(w, status, meta) ==
  runs' = [runs EXCEPT ![worker[w].run].status = status, ![worker[w].run].meta = meta]

(* The status guard                                                                     *)
Receive(w, r) ==
  /\ worker[w].pc = "idle"
  /\ queue[r] = "queued"
  /\ queue' = [queue EXCEPT ![r] = "delivered"]
  /\ worker' = [worker EXCEPT ![w] = [Free EXCEPT
       !.pc = IF runs[r].status = "pending" THEN "claim" ELSE "done", !.run = r]]
  /\ UNCHANGED <<runs, connector, caller, faults>>

(* mutant: update(status=RUNNING) on the key alone *)
MayClaimMut(status) == TRUE

MayClaim(status) == status = "pending"

(* The claim: one update, conditional on the status                                     *)
Claim(w) ==
  /\ worker[w].pc = "claim"
  /\ IF MayClaim(Row(w).status)
     THEN /\ runs' = [runs EXCEPT ![worker[w].run].status = "running"]
          /\ Goto(w, "check")
     ELSE UNCHANGED runs /\ End(w)
  /\ UNCHANGED <<connector, queue, caller, faults>>

Check(w) == worker[w].pc = "check" /\ Look(w, MayPersist(w), "load")

LoadConnector(w) ==
  /\ worker[w].pc = "load"
  /\ worker' = [worker EXCEPT
       ![w].pc = IF connector.row = 0 THEN "fail" ELSE "preflight", ![w].row = connector.row]
  /\ UNCHANGED <<runs, connector, queue, caller, faults>>

RowIsThere(w) == worker[w].row # 0 /\ connector.row = worker[w].row

Preflight(w) ==
  /\ worker[w].pc = "preflight"
  /\ Goto(w, "recheck")
  /\ UNCHANGED <<runs, connector, queue, caller, faults>>

(* Blocking issues; a token that is refused for good marks the connector at once.       *)
PreflightFails(w) ==
  /\ worker[w].pc = "preflight"
  /\ Goto(w, "fail")
  /\ \/ UNCHANGED connector
     \/ RowIsThere(w) /\ connector' = [connector EXCEPT !.status = "error"]
  /\ UNCHANGED <<runs, queue, caller, faults>>

(* ensure_fresh_shopify_token finds no row to lock, and nobody catches that.            *)
PreflightRaises(w) ==
  /\ worker[w].pc = "preflight"
  /\ ~RowIsThere(w)
  /\ End(w)
  /\ UNCHANGED <<runs, connector, queue, caller, faults>>

(* _fail_bootstrap                                                                      *)
FailCheck(w) ==
  worker[w].pc = "fail" /\ Look(w, ~Row(w).meta.superseded, "failing")

FailSave(w) ==
  /\ worker[w].pc = "failing"
  /\ SaveEnd(w, "failed", [worker[w].copy EXCEPT !.report = TRUE])
  /\ Goto(w, "status")
  /\ UNCHANGED <<connector, queue, caller, faults>>

(* _apply_connector_status, by what the report says; a row that is gone raises.         *)
ApplyStatus(w) ==
  /\ worker[w].pc = "status"
  /\ IF RowIsThere(w)
     THEN \E status \in {"connected", "error"} :
            connector' = [connector EXCEPT !.status = status]
     ELSE UNCHANGED connector
  /\ End(w)
  /\ UNCHANGED <<runs, queue, caller, faults>>

Recheck(w) == worker[w].pc = "recheck" /\ Look(w, MayPersist(w), "import")

--------------------------------------------------------------------------------------
(* run_import                                                                           *)

(* get_connector, again; without a row it raises before the import has begun.           *)
ImportLoad(w) ==
  /\ worker[w].pc = "import"
  /\ worker' = [worker EXCEPT
       ![w].pc = IF connector.row = 0 THEN "crash" ELSE "fetch",
       ![w].creds = IF connector.row = 0 THEN 0 ELSE connector.creds]
  /\ UNCHANGED <<runs, connector, queue, caller, faults>>

Fetch(w) == worker[w].pc = "fetch" /\ Look(w, MayPersist(w), "attach")

(* attach_run_to_data_run                                                               *)
Attach(w) ==
  /\ worker[w].pc = "attach"
  /\ SaveMeta(w, worker[w].copy)
  /\ Goto(w, "persist")
  /\ UNCHANGED <<connector, queue, caller, faults>>

(* The connector that the credentials were read from is still there.                    *)
SourceIsThere(w) == connector.row # 0 /\ connector.row <= worker[w].creds

(* Records, metrics and the snapshot, in one transaction                                *)
Persist(w) ==
  /\ worker[w].pc = "persist"
  /\ SourceIsThere(w)
  /\ runs' = [runs EXCEPT ![worker[w].run].used = worker[w].creds]
  /\ Goto(w, "persisted")
  /\ UNCHANGED <<connector, queue, caller, faults>>

AssertMayPersist(w) == worker[w].pc = "persisted" /\ Look(w, MayPersist(w), "mark")

(* mark_data_run_succeeded: a look of its own, ...                                      *)
MarkSucceeded(w) ==
  /\ worker[w].pc = "mark"
  /\ Look(w, TRUE, IF MayPersist(w) THEN "save" ELSE "return")

(* ... and then the save.                                                               *)
SaveSucceeded(w) ==
  /\ worker[w].pc = "save"
  /\ SaveEnd(w, "succeeded", [worker[w].copy EXCEPT !.snapshot = TRUE])
  /\ Goto(w, "return")
  /\ UNCHANGED <<connector, queue, caller, faults>>

(* Back in the task                                                                     *)
ImportReturns(w) ==
  worker[w].pc = "return" /\ Look(w, ~Row(w).meta.superseded, "report")

(* persist_health_report                                                                *)
Report(w) ==
  /\ worker[w].pc = "report"
  /\ SaveMeta(w, [worker[w].copy EXCEPT !.report = TRUE])
  /\ Goto(w, "status")
  /\ UNCHANGED <<connector, queue, caller, faults>>

(* An exception of the fetch, the mapping or the transaction, which is undone           *)
BreakOff(w) ==
  /\ worker[w].pc \in {"fetch", "persist"}
  /\ Look(w, MayPersist(w), IF worker[w].pc = "fetch" THEN "broken" ELSE "snapshot")

AttachBroken(w) ==
  /\ worker[w].pc = "broken"
  /\ SaveMeta(w, worker[w].copy)
  /\ Goto(w, "snapshot")
  /\ UNCHANGED <<connector, queue, caller, faults>>

(* The failure snapshot needs the connector, too.                                       *)
FailureSnapshot(w) ==
  /\ worker[w].pc = "snapshot"
  /\ Goto(w, IF SourceIsThere(w) THEN "markFailed" ELSE "crash")
  /\ UNCHANGED <<runs, connector, queue, caller, faults>>

(* mark_data_run_failed                                                                 *)
MarkFailed(w) ==
  /\ worker[w].pc = "markFailed"
  /\ Look(w, TRUE, IF MayPersist(w) THEN "saveFailed" ELSE "failed")

SaveFailed(w) ==
  /\ worker[w].pc = "saveFailed"
  /\ SaveEnd(w, "failed", worker[w].copy)
  /\ Goto(w, "failed")
  /\ UNCHANGED <<connector, queue, caller, faults>>

(* ImportFailedError: a run that is not running any more is answered as skipped.        *)
ImportFailed(w) == worker[w].pc = "failed" /\ Look(w, MayPersist(w), "report")

(* Any other exception                                                                  *)
Crash(w) == worker[w].pc = "crash" /\ Look(w, MayPersist(w), "crashMark")

MarkCrashed(w) ==
  /\ worker[w].pc = "crashMark"
  /\ Look(w, TRUE, IF MayPersist(w) THEN "crashSave" ELSE "report")

SaveCrashed(w) ==
  /\ worker[w].pc = "crashSave"
  /\ SaveEnd(w, "failed", worker[w].copy)
  /\ worker' = [worker EXCEPT ![w].pc = "report"]
  /\ UNCHANGED <<connector, queue, caller, faults>>

--------------------------------------------------------------------------------------
(* Celery                                                                               *)

Acknowledge(w) ==
  /\ queue' = [queue EXCEPT ![worker[w].run] = IF @ = "delivered" THEN "none" ELSE @]
  /\ worker' = [worker EXCEPT ![w] = Free]

Return(w) ==
  /\ worker[w].pc = "done"
  /\ Acknowledge(w)
  /\ UNCHANGED <<runs, connector, caller, faults>>

(* A child killed at the time limit or out of memory is acknowledged all the same.      *)
Kill(w) ==
  /\ worker[w].pc # "idle"
  /\ Fault
  /\ Acknowledge(w)
  /\ UNCHANGED <<runs, connector, caller>>

(* The process goes, and the broker delivers its message again.                         *)
LoseProcess(w) ==
  /\ worker[w].pc # "idle"
  /\ Fault
  /\ queue' = [queue EXCEPT ![worker[w].run] = "queued"]
  /\ worker' = [worker EXCEPT ![w] = Free]
  /\ UNCHANGED <<runs, connector, caller>>

(* The broker delivers a message again although its task goes on.                       *)
Redeliver(r) ==
  /\ queue[r] = "delivered"
  /\ Fault
  /\ queue' = [queue EXCEPT ![r] = "queued"]
  /\ UNCHANGED <<runs, connector, caller, worker>>

Enqueue(c) ==
  \/ List(c) \/ Supersede(c) \/ FindActive(c) \/ FindNone(c) \/ Create(c) \/ Send(c)

Execute(w) ==
  \/ Claim(w) \/ Check(w) \/ LoadConnector(w)
  \/ Preflight(w) \/ PreflightFails(w) \/ PreflightRaises(w)
  \/ FailCheck(w) \/ FailSave(w) \/ ApplyStatus(w) \/ Recheck(w)
  \/ ImportLoad(w) \/ Fetch(w) \/ Attach(w) \/ Persist(w) \/ AssertMayPersist(w)
  \/ MarkSucceeded(w) \/ SaveSucceeded(w) \/ ImportReturns(w) \/ Report(w)
  \/ BreakOff(w) \/ AttachBroken(w) \/ FailureSnapshot(w)
  \/ MarkFailed(w) \/ SaveFailed(w) \/ ImportFailed(w)
  \/ Crash(w) \/ MarkCrashed(w) \/ SaveCrashed(w) \/ Return(w)

Next ==
  \/ Disconnect
  \/ \E c \in Callers :
       Connect(c) \/ ManualFetch(c) \/ Enqueue(c) \/ SendFails(c) \/ CallerDies(c)
  \/ \E w \in Workers :
       \/ Execute(w) \/ Kill(w) \/ LoseProcess(w)
       \/ \E r \in Runs : Receive(w, r)
  \/ \E r \in Runs : Redeliver(r)

Spec == Init /\ [][Next]_vars

--------------------------------------------------------------------------------------
Importing(w) == worker[w].pc \notin {"idle", "claim", "done"}

(* A run is imported by one task only, however often its message is delivered, also to  *)
(* two workers at the same time: the claim alone sees to that, and no time limit.       *)
OneImporter ==
  \A v, w \in Workers : v # w /\ Importing(v) /\ Importing(w) => worker[v].run # worker[w].run

(* "so the new run uses updated credentials": what a reconnect is answered with never   *)
(* imports with credentials that are older, also when the run was created by another    *)
(* request in the meantime.                                                             *)
ReconnectUsesItsCredentials ==
  \A r \in Runs : runs[r].used # 0 => runs[r].used >= runs[r].owed

(* A run that has succeeded has imported, and names its snapshot, whatever a reconnect  *)
(* has saved over it from an older copy.                                                *)
SucceededWhole ==
  \A r \in Runs : runs[r].status = "succeeded" => runs[r].meta.snapshot /\ runs[r].used # 0

(* A run that has ended is never active again, so that no import of old credentials     *)
(* stands in the way of a new one.                                                      *)
EndedStaysEnded ==
  [][\A r \in Runs : runs[r].status \in {"succeeded", "failed"} => ~IsActive(r)']_vars

(* What makes these inductive: whoever has a run in hand has one that exists, ...       *)
RunsInHand ==
  /\ \A c \in Callers : caller[c].pc = "send" =>
       caller[c].run \in Runs /\ runs[caller[c].run].status # "absent"
  /\ \A r \in Runs : queue[r] # "none" => runs[r].status # "absent"
  /\ \A w \in Workers : worker[w].pc # "idle" =>
       worker[w].run \in Runs /\ Row(w).status # "absent"

(* ... and its importer has claimed it and knows how far it is; ...                     *)
Progress ==
  \A w \in Workers :
    /\ Importing(w) => Row(w).status # "pending"
    /\ Importing(w) /\ worker[w].pc \notin {"return", "report", "status"} =>
         Row(w).status # "succeeded"
    /\ worker[w].pc \in {"persisted", "mark", "save"} => Row(w).used # 0
    /\ worker[w].pc = "report" /\ Row(w).status = "succeeded" => worker[w].copy.snapshot

(* ... credentials only grow, ...                                                       *)
CredsGrow ==
  /\ connector.row <= connector.creds
  /\ \A c \in Callers : caller[c].creds <= connector.creds
  /\ \A r \in Runs : runs[r].owed <= connector.creds

Loaded(w) == worker[w].pc \in {"fetch", "attach", "persist"}

(* ... a run that is still to import does so with what it owes, ...                     *)
LoadedIsOwed == \A w \in Workers : Loaded(w) => Row(w).owed <= worker[w].creds

(* ... and what a reconnect has not superseded by the time it looks is new enough.      *)
OthersAreNew ==
  \A c \in Callers, r \in Runs :
    /\ IsActive(r)
    /\ \/ caller[c].pc = "find"
       \/ caller[c].pc = "supersede" /\ r \notin DOMAIN caller[c].copies
    => /\ runs[r].used # 0 => caller[c].creds <= runs[r].used
       /\ \A w \in Workers : Loaded(w) /\ worker[w].run = r =>
            caller[c].creds <= worker[w].creds

IInv ==
  /\ TypeOK
  /\ RunsInHand
  /\ OneImporter
  /\ Progress
  /\ SucceededWhole
  /\ CredsGrow
  /\ LoadedIsOwed
  /\ OthersAreNew
  /\ ReconnectUsesItsCredentials

======================================================================================
