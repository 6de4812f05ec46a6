------------------------------- MODULE MCReportDesk -------------------------------
(* Instances of ReportDesk for TLC.                                                  *)
EXTENDS ReportDesk, TLC

CONSTANTS c1, f1, f2, secret

Run(ok, scored, f) == [ok |-> ok, scored |-> scored, found |-> c1 :> f]

(* a run that succeeds with one of two findings, one that fails before it judges, and *)
(* one that is blocked and whose finding the privacy gate denies                       *)
Runs ==
  {Run(TRUE, TRUE, f1), Run(TRUE, TRUE, f2), Run(FALSE, FALSE, Clean), Run(TRUE, FALSE, secret)}

VARIABLES quiet   \* no other connection appends

(* Requests of all kinds while it is quiet, with one reading of the clock left for    *)
(* the event of a report; ...                                                         *)
Requests ==
  /\ quiet = TRUE /\ clock = MaxEntries - 1
  /\ AiInit /\ (saved # <<>> => saved[1].of.body = f1)

(* ... and a report to be stored while others append.                                 *)
Appends ==
  /\ quiet = FALSE
  /\ clock = 0
  /\ dcs = <<Run(TRUE, TRUE, f1) @@ [at |-> MaxScores]>>
  /\ saved = <<>> /\ reports = <<>> /\ requests = MaxRequests
  /\ \E a \in Asks :
       asks = [b \in Asks |->
         IF b = a THEN [Idle EXCEPT !.pc = "brief", !.run = 1, !.shown = {c1 :> f1}] ELSE Idle]

MCInit ==
  /\ Requests \/ Appends
  /\ log = {} /\ tx = [p \in Txs |-> Closed] /\ storing = [a \in Asks |-> None]

MCNext ==
  /\ DeskNext
  /\ quiet => \A p \in Txs : tx'[p] # tx[p] => p \in Held \cup Held'
  /\ UNCHANGED quiet

MCSpec == MCInit /\ [][MCNext]_<<deskVars, quiet>>

(* connections are interchangeable, and so are requests *)
Symmetry == Permutations(Txs) \cup Permutations(Asks)
===================================================================================
