-------------------------- MODULE MCArchitectureEstates --------------------------
(* Small estates for ArchitectureEstates: one on which everything may fail, and calm   *)
(* ones that differ in what is inventoried and in the results of their DCS runs.       *)
EXTENDS ArchitectureEstates, TLC

(* callers are interchangeable, and so are worker slots *)
Symmetry == Permutations(Callers) \cup Permutations(Workers)

Row(id, type) ==
  [id |-> id, name |-> id, type |-> type, status |-> "active", said |-> {}, heard |-> {}, def |-> Plain]
Flow(id, text, names) ==
  [Row(id, "WORKFLOW") EXCEPT !.def = [Plain EXCEPT !.trigger = [norm |-> text, names |-> names]]]
Source(rows) == [answer |-> {rows}, imported |-> <<>>]

(* What Manago delivers today: no segments, and a workflow without a trigger.           *)
Today ==
  [workflows |-> Source(<<Flow("w1", "tag", {"vip"}), Flow("w2", "", {})>>),
   tags |-> Source(<<Row("vip", "TAG")>>), properties |-> <<Row("city", "PROPERTY")>>, segments |-> <<>>,
   results |-> <<("CC-03" :> "FAIL")>>, calm |-> FALSE]

(* An estate with a segment, on which every stage but four has a workflow.              *)
Grown(flows) ==
  [workflows |-> Source(flows), tags |-> Source(<<Row("vip", "TAG"), Row("old", "TAG")>>),
   properties |-> <<Row("city", "PROPERTY")>>, segments |-> <<Row("loyal", "SEGMENT")>>,
   results |-> <<>>, calm |-> TRUE]
Journey ==
  [i \in 1..12 |-> [Flow(ToString(i), ToString(i), CASE i = 1 -> {"vip"} [] i = 2 -> {"city"} [] OTHER -> {})
                      EXCEPT !.said = {i}, !.heard = {16}]]
Triggered(row, text) == [row EXCEPT !.def.trigger.norm = text]
WithDef(row, family, names) == [row EXCEPT !.def[family] = names]

Estates1 ==
  {Grown(Journey),
   Grown([Journey EXCEPT ![3] = WithDef(@, "writes", {"old"})]),
   Grown([Journey EXCEPT ![3] = WithDef(@, "segments", {"loyal"}), ![4].status = "paused"]),
   Grown([i \in 1..12 |-> IF i \in 3..5 THEN Triggered(Journey[i], "same") ELSE Journey[i]]),
   Grown([Journey EXCEPT ![6] = Triggered(@, "")]),
   Grown(SubSeq(Journey, 1, 8)), Grown(<<Flow("1", "1", {}), Flow("2", "2", {})>>),
   [Grown(Journey) EXCEPT !.tags = [answer |-> {}, imported |-> <<>>]],
   [Grown(Journey) EXCEPT !.tags = [answer |-> {}, imported |-> <<Row("vip", "TAG")>>]],
   [Grown(Journey) EXCEPT !.tags = Source(<<[Row("vip", "TAG") EXCEPT !.id = "VIP"], Row("vip", "TAG")>>)],
   [Grown(Journey) EXCEPT !.tags = Source(<<[Row("vip", "TAG") EXCEPT !.said = {12, 4}], Row("vip", "TAG")>>)],
   [Grown(Journey) EXCEPT !.workflows = [answer |-> {}, imported |-> <<>>]],
   [Grown([Journey EXCEPT ![4] = WithDef(@, "segments", {"loyal"})]) EXCEPT !.segments = <<[Row("loyal", "SEGMENT") EXCEPT !.status = "archived"]>>],
   [Grown([Journey EXCEPT ![5] = WithDef(@, "properties", {"city"})]) EXCEPT
      !.properties = <<[Row("city", "PROPERTY") EXCEPT !.said = {1, 5}], Row("note", "PROPERTY")>>],
   [Grown(Journey) EXCEPT !.segments = <<>>],
   [Today EXCEPT !.calm = TRUE, !.results = <<>>],
   [Today EXCEPT !.calm = TRUE, !.workflows = Source(<<Flow("w1", "same", {}), Flow("w2", "same", {})>>)],
   [Today EXCEPT !.calm = TRUE, !.results = <<>>, !.properties = <<>>, !.workflows = Source(<<>>), !.tags = Source(<<>>)]}

Checked ==
  {<<>>, "CC-03" :> "FAIL", "CC-03" :> "WARN", "SP-03" :> "FAIL", "SP-08" :> "WARN",
   "ME-02" :> "FAIL", "CI-01" :> "FAIL", ("CC-03" :> "FAIL") @@ ("CC-12" :> "FAIL"),
   ("CI-01" :> "FAIL") @@ ("ME-02" :> "FAIL"), ("CC-03" :> "WARN") @@ ("SP-03" :> "FAIL")}

MCEstates ==
  {Today} \cup {[e EXCEPT !.results = <<<<>>, r>>] : e \in Estates1, r \in Checked \ {<<>>}}
    \cup {[Grown(Journey) EXCEPT !.results = <<q, r>>] : q \in Checked, r \in Checked}
=================================================================================
