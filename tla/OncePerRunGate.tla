---------------------------- MODULE OncePerRunGate ----------------------------
(* What the once-per-run gate promises, with no tables, locks, clocks or tokens:  *)
(* each gate (a check on a DCS run) is held by at most one job, the platform is   *)
(* written only by the live holder, and a gate that was written reopens only by   *)
(* a rollback.                                                                    *)
CONSTANTS Gates, Jobs, None

VARIABLES
  gate,      \* Gates -> phase and holder
  writers    \* jobs with a live process writing for them

vars == <<gate, writers>>

Open == [phase |-> "open", job |-> None]

Init ==
  /\ gate = [g \in Gates |-> Open]
  /\ writers = {}

(* A gate can be claimed when it is open or when its claimant is dead.            *)
Claim(g, j) ==
  /\ \/ gate[g] = Open
     \/ gate[g].phase = "claimed" /\ gate[g].job \notin writers
  /\ \A h \in Gates : gate[h].job # j
  /\ gate' = [gate EXCEPT ![g] = [phase |-> "claimed", job |-> j]]
  /\ writers' = writers \cup {j}

(* Only the live claimant settles its claim; one that wrote nothing reopens the   *)
(* gate.                                                                          *)
Settle(g, wrote) ==
  /\ gate[g].phase = "claimed"
  /\ gate[g].job \in writers
  /\ gate' = [gate EXCEPT ![g] = IF wrote THEN [@ EXCEPT !.phase = "written"] ELSE Open]
  /\ writers' = writers \ {gate[g].job}

Die(j) ==
  /\ j \in writers
  /\ writers' = writers \ {j}
  /\ UNCHANGED gate

RollBack(g) ==
  /\ gate[g].phase = "written"
  /\ gate' = [gate EXCEPT ![g] = Open]
  /\ UNCHANGED writers

Next ==
  \/ \E g \in Gates, j \in Jobs : Claim(g, j)
  \/ \E g \in Gates, wrote \in BOOLEAN : Settle(g, wrote)
  \/ \E j \in Jobs : Die(j)
  \/ \E g \in Gates : RollBack(g)

Spec == Init /\ [][Next]_vars
===============================================================================
