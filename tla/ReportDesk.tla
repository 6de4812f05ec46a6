-------------------------------- MODULE ReportDesk --------------------------------
(* Reports and the audit log (dataruns/reports/compose.py): a report and the event   *)
(* that tells it was composed are stored in one transaction, beside the other         *)
(* transactions of the company that append events.                                    *)
EXTENDS AiSuggestions, AuditLog

VARIABLES
  storing    \* the connection that stores the report of a request

deskVars == <<aiVars, vars, storing>>

DeskInit == AiInit /\ Init /\ storing = [a \in Asks |-> None]

Held == {storing[a] : a \in Asks} \ {None}

Append1(p) == (Stamp(p) /\ tx[p].own = {}) \/ Select(p) \/ Insert(p)

(* the transaction of _compose_assessment_report                                      *)
BeginReport(a, p) ==
  /\ Briefed(a)
  /\ storing[a] = None /\ p \notin Held
  /\ Begin(p, FALSE)
  /\ storing' = [storing EXCEPT ![a] = p]
  /\ UNCHANGED aiVars

AppendComposed(a) ==
  /\ storing[a] # None
  /\ Append1(storing[a])
  /\ UNCHANGED <<aiVars, storing>>

(* report and event become visible together, ...                                      *)
CommitReport(a) ==
  /\ storing[a] # None
  /\ tx[storing[a]].own # {}
  /\ Commit(storing[a])
  /\ StoreReport(a)
  /\ storing' = [storing EXCEPT ![a] = None]

(* ... or neither is there: the request failed or its process was killed.             *)
AbortReport(a) ==
  /\ storing[a] # None
  /\ Rollback(storing[a])
  /\ Killed(a)
  /\ storing' = [storing EXCEPT ![a] = None]

(* Other transactions, such as the one that appends report.downloaded.                *)
Elsewhere(p) ==
  /\ p \notin Held
  /\ \/ \E claim \in BOOLEAN : Begin(p, claim)
     \/ Stamp(p) \/ Select(p) \/ Insert(p) \/ Commit(p) \/ Rollback(p)
  /\ UNCHANGED <<aiVars, storing>>

DeskNext ==
  \/ \E p \in Txs : Elsewhere(p)
  \/ \E a \in Asks :
       \/ \E p \in Txs : BeginReport(a, p)
       \/ AppendComposed(a) \/ CommitReport(a) \/ AbortReport(a)
       \/ /\ AiStep(a) \/ (storing[a] = None /\ Killed(a))
          /\ UNCHANGED <<vars, storing>>
  \/ Scores /\ UNCHANGED <<vars, storing>>

DeskSpec == DeskInit /\ [][DeskNext]_deskVars

===================================================================================
