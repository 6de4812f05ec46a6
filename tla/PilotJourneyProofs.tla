---------------------------- MODULE PilotJourneyProofs ----------------------------
(* Proofs about PilotJourney, for every family of deployments that is as the two          *)
(* assumptions of PilotJourney and DcsScore say, and for any bounds.                       *)
EXTENDS PilotJourney, FiniteSetTheorems, SequenceTheorems, WellFoundedInduction, TLAPS

-----------------------------------------------------------------------------
(* Sets, rules and sequences.                                                       *)

(* A set of naturals that is not empty has a least element: the induction used here  *)
(* speaks of sets, and takes no operator as its parameter.                          *)
LEMMA Least ==
  ASSUME NEW S \in SUBSET Nat, S # {}
  PROVE  \E n \in S : \A m \in S : n <= m
<1> DEFINE R == {ss \in Nat \X Nat : ss[1] < ss[2]}
<1>1. IsWellFoundedOn(R, Nat)
  BY NatLessThanWellFounded DEF OpToRel
<1>2. PICK n \in S : \A m \in S : <<m, n>> \notin R
  <2> HIDE DEF R
  <2> QED BY <1>1, WFMin
<1>3. \A m \in S : n <= m
  <2> SUFFICES ASSUME NEW m \in S PROVE n <= m
    OBVIOUS
  <2>1. <<m, n>> \notin R BY <1>2
  <2>2. m \in Nat /\ n \in Nat OBVIOUS
  <2> QED BY <2>1, <2>2, SMT
<1> QED BY <1>2, <1>3

IsSmallest(T, B) == T \in B /\ \A V \in B : V \subseteq T => V = T

(* Of the sets that are not in a set of finite sets there is a smallest one.        *)
LEMMA Smallest ==
  ASSUME NEW U, IsFiniteSet(U), NEW B, \A T \in B : T \subseteq U, B # {}
  PROVE  \E T : IsSmallest(T, B)
<1>1. IsWellFoundedOn(StrictSubsetOrdering(U), FiniteSubsetsOf(U))
  BY FS_StrictSubsetOrderingWellFounded
<1>2. FiniteSubsetsOf(U) = SUBSET U BY FS_FiniteSubsetsOfFinite
<1>3. PICK T \in B : \A V \in B : <<V, T>> \notin StrictSubsetOrdering(U)
  BY <1>1, <1>2, WFMin
<1>4. \A V \in B : V \subseteq T => V = T
  BY <1>3 DEF StrictSubsetOrdering
<1> QED BY <1>4 DEF IsSmallest

(* Among finitely many, one has the largest value.                                 *)
LEMMA SomeLast ==
  ASSUME NEW n \in Nat, NEW at, \A i \in 1..n : at[i] \in Int,
         NEW S \in SUBSET (1..n), S # {}
  PROVE  \E i \in S : \A j \in S : at[j] <= at[i]
<1> DEFINE Bad == {T \in SUBSET (1..n) : T # {} /\ ~\E i \in T : \A j \in T : at[j] <= at[i]}
<1>0. SUFFICES ASSUME Bad # {} PROVE FALSE OBVIOUS
<1>1. IsFiniteSet(1..n) BY FS_Interval
<1>2. PICK T \in Bad : \A V \in Bad : V \subseteq T => V = T
  <2>1. \A T \in Bad : T \subseteq 1..n OBVIOUS
  <2> HIDE DEF Bad
  <2>2. \E T : IsSmallest(T, Bad)
    <3>1. Bad # {} BY <1>0
    <3> QED BY <3>1, <1>1, <2>1, Smallest, Zenon
  <2> QED BY <2>2 DEF IsSmallest
<1>3. PICK k \in T : TRUE OBVIOUS
<1>4. T \ {k} \notin Bad BY <1>2, <1>3
<1>5. CASE T \ {k} = {}
  BY <1>3, <1>5
<1>6. CASE T \ {k} # {}
  <2>1. PICK i \in T \ {k} : \A j \in T \ {k} : at[j] <= at[i]
    BY <1>4, <1>6
  <2>2. at[i] \in Int /\ at[k] \in Int BY <1>3
  <2>3. CASE at[k] <= at[i] BY <2>1, <2>3
  <2>4. CASE at[i] <= at[k]
    <3>1. \A j \in T : at[j] <= at[k]
      <4> SUFFICES ASSUME NEW j \in T PROVE at[j] <= at[k] OBVIOUS
      <4>1. at[j] \in Int OBVIOUS
      <4> QED BY <4>1, <2>1, <2>2, <2>4
    <3> QED BY <3>1, <1>3
  <2> QED BY <2>2, <2>3, <2>4
<1> QED BY <1>5, <1>6

(* A finite set of integers that is not empty has a maximum, and Max is it.           *)
LEMMA MaxOfFinite ==
  ASSUME NEW S \in SUBSET Int, IsFiniteSet(S), S # {}
  PROVE  Max(S) \in S /\ \A y \in S : y <= Max(S)
<1> DEFINE Bad == {T \in SUBSET S : T # {} /\ ~\E x \in T : \A y \in T : x >= y}
<1>1. Bad = {}
  <2>1. SUFFICES ASSUME Bad # {} PROVE FALSE OBVIOUS
  <2>2. PICK T \in Bad : \A V \in Bad : V \subseteq T => V = T
    <3>1. \A T \in Bad : T \subseteq S OBVIOUS
    <3> HIDE DEF Bad
    <3>2. \E T : IsSmallest(T, Bad)
      <4>1. Bad # {} BY <2>1
      <4> QED BY <4>1, <3>1, Smallest, Zenon
    <3> QED BY <3>2 DEF IsSmallest
  <2>3. PICK k \in T : TRUE OBVIOUS
  <2>4. T \ {k} \notin Bad BY <2>2, <2>3
  <2>5. CASE T \ {k} = {} BY <2>3, <2>5
  <2>6. CASE T \ {k} # {}
    <3>1. PICK x \in T \ {k} : \A y \in T \ {k} : x >= y
      BY <2>4, <2>6
    <3>2. x \in Int /\ k \in Int /\ T \subseteq Int BY <2>3
    <3>3. CASE x >= k BY <3>1, <3>3
    <3>4. CASE k >= x
      <4>1. \A y \in T : k >= y BY <3>1, <3>2, <3>4
      <4> QED BY <4>1, <2>3
    <3> QED BY <3>2, <3>3, <3>4
  <2> QED BY <2>5, <2>6
<1>2. \E x \in S : \A y \in S : x >= y
  BY <1>1
<1>3. Max(S) \in S /\ \A y \in S : Max(S) >= y
  BY <1>2 DEF Max
<1> QED BY <1>3

(* The first rule that applies gives its value.                                    *)
LEMMA RuleChosen ==
  ASSUME NEW rules, NEW n \in Nat, DOMAIN rules = 1..n, n # 0, rules[n][1]
  PROVE  \E k \in 1..n : /\ rules[k][1]
                         /\ \A j \in 1..(k - 1) : ~rules[j][1]
                         /\ FirstRule(rules) = rules[k][2]
<1> DEFINE P(i) == rules[i][1] /\ \A j \in 1..(i - 1) : ~rules[j][1]
           S == {i \in 1..n : rules[i][1]}
<1>1. S \in SUBSET Nat /\ n \in S OBVIOUS
<1>2. PICK m \in S : \A i \in S : m <= i BY <1>1, Least
<1>3. m \in DOMAIN rules /\ P(m) BY <1>2
<1>4. FirstRule(rules) = rules[CHOOSE i \in DOMAIN rules : P(i)][2] BY DEF FirstRule
<1> DEFINE k == CHOOSE i \in DOMAIN rules : P(i)
<1>5. k \in 1..n /\ P(k)
  <2> HIDE DEF P
  <2> QED BY <1>3
<1> QED BY <1>4, <1>5

(* The same for a gate or a check of two rules.                                       *)
LEMMA TwoRules ==
  ASSUME NEW r, DOMAIN r = 1..2, r[2][1]
  PROVE  FirstRule(r) = IF r[1][1] THEN r[1][2] ELSE r[2][2]
<1>1. PICK k \in 1..2 : r[k][1] /\ (\A j \in 1..(k - 1) : ~r[j][1]) /\ FirstRule(r) = r[k][2]
  <2>1. 2 \in Nat /\ 2 # 0 OBVIOUS
  <2> QED BY <2>1, RuleChosen, Zenon
<1> QED BY <1>1

(* The same for three rules.                                                          *)
LEMMA ThreeRules ==
  ASSUME NEW r, DOMAIN r = 1..3, r[3][1]
  PROVE  FirstRule(r) = IF r[1][1] THEN r[1][2] ELSE IF r[2][1] THEN r[2][2] ELSE r[3][2]
<1>1. PICK k \in 1..3 : r[k][1] /\ (\A j \in 1..(k - 1) : ~r[j][1]) /\ FirstRule(r) = r[k][2]
  <2>1. 3 \in Nat /\ 3 # 0 OBVIOUS
  <2> QED BY <2>1, RuleChosen, Zenon
<1> QED BY <1>1

(* The same for four rules.                                                           *)
LEMMA FourRules ==
  ASSUME NEW r, DOMAIN r = 1..4, r[4][1]
  PROVE  FirstRule(r) = IF r[1][1] THEN r[1][2] ELSE IF r[2][1] THEN r[2][2]
                        ELSE IF r[3][1] THEN r[3][2] ELSE r[4][2]
<1>1. PICK k \in 1..4 : r[k][1] /\ (\A j \in 1..(k - 1) : ~r[j][1]) /\ FirstRule(r) = r[k][2]
  <2>1. 4 \in Nat /\ 4 # 0 OBVIOUS
  <2> QED BY <2>1, RuleChosen, Zenon
<1> QED BY <1>1

(* The same for five rules.                                                           *)
LEMMA FiveRules ==
  ASSUME NEW r, DOMAIN r = 1..5, r[5][1]
  PROVE  FirstRule(r) = IF r[1][1] THEN r[1][2] ELSE IF r[2][1] THEN r[2][2]
                        ELSE IF r[3][1] THEN r[3][2] ELSE IF r[4][1] THEN r[4][2] ELSE r[5][2]
<1>1. PICK k \in 1..5 : r[k][1] /\ (\A j \in 1..(k - 1) : ~r[j][1]) /\ FirstRule(r) = r[k][2]
  <2>1. 5 \in Nat /\ 5 # 0 OBVIOUS
  <2> QED BY <2>1, RuleChosen, Zenon
<1> QED BY <1>1

(* Sequences, whatever they hold.                                                  *)
IsSeq(s) == s \in Seq({s[i] : i \in DOMAIN s})

(* A sequence is numbered from one on, whatever it holds.                             *)
LEMMA SeqLen ==
  ASSUME NEW s, IsSeq(s)
  PROVE  Len(s) \in Nat /\ DOMAIN s = 1..Len(s)
BY LenProperties DEF IsSeq

(* Appending a row to a table leaves the older rows where they are.                   *)
LEMMA SeqAppend ==
  ASSUME NEW s, NEW x, IsSeq(s)
  PROVE  /\ IsSeq(Append(s, x))
         /\ Len(Append(s, x)) = Len(s) + 1
         /\ DOMAIN Append(s, x) = 1..(Len(s) + 1)
         /\ \A i \in 1..Len(s) : Append(s, x)[i] = s[i]
         /\ Append(s, x)[Len(s) + 1] = x
<1> DEFINE T == {s[i] : i \in DOMAIN s} \cup {x}
           a == Append(s, x)
<1>1. s \in Seq(T) /\ x \in T
  BY SeqMonotonic DEF IsSeq
<1>2. /\ a \in Seq(T) /\ Len(a) = Len(s) + 1
      /\ (\A i \in 1..Len(s) : a[i] = s[i]) /\ a[Len(s) + 1] = x
  <2> HIDE DEF T
  <2> QED BY <1>1, AppendProperties
<1>3. a \in [1..Len(a) -> T] /\ Len(a) \in Nat /\ DOMAIN a = 1..Len(a)
  <2> HIDE DEF T, a
  <2> QED BY <1>2, LenProperties
<1>4. a \in [1..Len(a) -> {a[i] : i \in DOMAIN a}]
  <2> HIDE DEF T, a
  <2> QED BY <1>3
<1>5. IsSeq(a)
  <2> HIDE DEF T, a
  <2> QED BY <1>3, <1>4, SeqDef DEF IsSeq
<1> QED BY <1>2, <1>3, <1>5

(* Saving one row of a table leaves the others as they are.                           *)
LEMMA SeqExcept ==
  ASSUME NEW s, NEW i, NEW x, IsSeq(s)
  PROVE  /\ IsSeq([s EXCEPT ![i] = x])
         /\ Len([s EXCEPT ![i] = x]) = Len(s)
         /\ DOMAIN [s EXCEPT ![i] = x] = DOMAIN s
         /\ \A j \in DOMAIN s : [s EXCEPT ![i] = x][j] = IF j = i THEN x ELSE s[j]
<1> DEFINE a == [s EXCEPT ![i] = x]
<1>1. Len(s) \in Nat /\ DOMAIN s = 1..Len(s) /\ s = [j \in 1..Len(s) |-> s[j]]
  BY LenProperties DEF IsSeq
<1>2. DOMAIN a = 1..Len(s) /\ \A j \in 1..Len(s) : a[j] = IF j = i THEN x ELSE s[j]
  BY <1>1
<1>3. a \in [1..Len(s) -> {a[j] : j \in DOMAIN a}]
  <2>1. a = [j \in 1..Len(s) |-> a[j]] BY <1>1
  <2> HIDE DEF a
  <2> QED BY <1>2, <2>1
<1>4. IsSeq(a) /\ Len(a) = Len(s)
  <2> DEFINE T == {a[j] : j \in DOMAIN a}
  <2>0. a \in [1..Len(s) -> T] BY <1>3
  <2>1. a \in Seq(T)
    <3> HIDE DEF a, T
    <3> QED BY <1>1, <2>0, SeqDef
  <2>2. IsSeq(a) BY <2>1 DEF IsSeq
  <2> HIDE DEF a
  <2> QED BY <2>2, <1>1, <1>2, SeqLen
<1> QED BY <1>1, <1>2, <1>4

(* What is not in a sequence is not changed in it.                                   *)
LEMMA ExceptElsewhere ==
  ASSUME NEW s, NEW i, NEW x, NEW y, IsSeq(s), i \notin DOMAIN s
  PROVE  [s EXCEPT ![i].status = x, ![i].tail = y] = s
<1>1. s = [j \in DOMAIN s |-> s[j]] BY DEF IsSeq
<1> QED BY <1>1

-----------------------------------------------------------------------------
(* Sums. A fold over a set is a recursive function: that it exists, and what it gives. *)

(* What the recursive function of a fold gives, subset by subset.                  *)
Picked(s) == CHOOSE x \in s : TRUE
IsSumOf(it, w, S) ==
  it = [s \in SUBSET S |-> IF s = {} THEN 0 ELSE w[Picked(s)] + it[s \ {Picked(s)}]]
Total(w, S) == (CHOOSE it : IsSumOf(it, w, S))[S]

(* The community modules sum by the recursive function of their fold.                 *)
LEMMA SumUnfolds ==
  ASSUME NEW w
  PROVE  SumFunction(w) = Total(w, DOMAIN w)
BY Zenon DEF SumFunction, SumFunctionOnSet, FoldFunctionOnSet, MapThenFoldSet, IsSumOf, Total, Picked

(* A set that is not empty has the element that the fold picks from it.               *)
LEMMA PickedIsIn ==
  ASSUME NEW s, s # {}
  PROVE  Picked(s) \in s
BY DEF Picked

(* The function adds what is picked to the sum of the rest.                           *)
LEMMA SumSteps ==
  ASSUME NEW w, NEW S, NEW it, IsSumOf(it, w, S), NEW s, s \subseteq S
  PROVE  it[s] = IF s = {} THEN 0 ELSE w[Picked(s)] + it[s \ {Picked(s)}]
BY Zenon DEF IsSumOf

(* Two such functions agree on the sets that both tell of.                            *)
LEMMA SumUnique ==
  ASSUME NEW w, NEW S, IsFiniteSet(S), NEW i, IsSumOf(i, w, S),
         NEW R, NEW j, IsSumOf(j, w, R), NEW s, s \subseteq S, s \subseteq R
  PROVE  i[s] = j[s]
<1> DEFINE Bad == {t \in SUBSET S : t \subseteq R /\ i[t] # j[t]}
<1>1. ASSUME Bad # {} PROVE FALSE
  <2>1. PICK t : IsSmallest(t, Bad)
    <3>1. \A t \in Bad : t \subseteq S OBVIOUS
    <3>2. Bad # {} BY <1>1
    <3> HIDE DEF Bad
    <3> QED BY <3>1, <3>2, Smallest, Zenon
  <2>2. t \subseteq S /\ t \subseteq R /\ i[t] # j[t] BY <2>1 DEF IsSmallest
  <2>3. /\ i[t] = IF t = {} THEN 0 ELSE w[Picked(t)] + i[t \ {Picked(t)}]
        /\ j[t] = IF t = {} THEN 0 ELSE w[Picked(t)] + j[t \ {Picked(t)}]
    BY <2>2, SumSteps
  <2>4. t # {} BY <2>2, <2>3
  <2>5. Picked(t) \in t BY <2>4, PickedIsIn
  <2> DEFINE u == t \ {Picked(t)}
  <2>6. u \subseteq t /\ u # t BY <2>5
  <2>7. u \notin Bad
    <3> HIDE DEF u, Bad
    <3> QED BY <2>1, <2>6 DEF IsSmallest
  <2>8. i[u] = j[u] BY <2>7, <2>2
  <2> QED BY <2>2, <2>3, <2>4, <2>8
<1> QED BY <1>1

(* There is such a function on the subsets of every finite set.                       *)
LEMMA SumExists ==
  ASSUME NEW w, NEW S, IsFiniteSet(S)
  PROVE  \E it : IsSumOf(it, w, S)
<1> DEFINE Bad == {t \in SUBSET S : ~\E it : IsSumOf(it, w, t)}
<1>1. ASSUME Bad # {} PROVE FALSE
  <2>1. PICK t : IsSmallest(t, Bad)
    <3>1. \A t \in Bad : t \subseteq S OBVIOUS
    <3>2. Bad # {} BY <1>1
    <3> HIDE DEF Bad
    <3> QED BY <3>1, <3>2, Smallest, Zenon
  <2>2. t \subseteq S /\ ~\E it : IsSumOf(it, w, t) BY <2>1 DEF IsSmallest
  <2>3. \A u : u \subseteq t /\ u # t => \E it : IsSumOf(it, w, u)
    BY <2>1 DEF IsSmallest
  <2>4. \A u : u \subseteq t /\ u # t => IsSumOf(CHOOSE it : IsSumOf(it, w, u), w, u)
    BY <2>3, Zenon
  <2>5. \A u : u \subseteq t => IsFiniteSet(u)
    BY <2>2, FS_Subset
  <2> DEFINE it == [s \in SUBSET t |->
                      IF s = {} THEN 0 ELSE w[Picked(s)] + Total(w, s \ {Picked(s)})]
  <2>6. ASSUME NEW s, s \subseteq t, s # t
        PROVE  Total(w, s) = it[s]
    <3>1. IsSumOf(CHOOSE i : IsSumOf(i, w, s), w, s) BY <2>4, <2>6
    <3> DEFINE i == CHOOSE i : IsSumOf(i, w, s)
    <3>2. i[s] = IF s = {} THEN 0 ELSE w[Picked(s)] + i[s \ {Picked(s)}]
      <4> HIDE DEF i
      <4>1. s \subseteq s OBVIOUS
      <4>2. IsSumOf(i, w, s) BY <3>1 DEF i
      <4> QED BY <4>1, <4>2, SumSteps
    <3>3. Total(w, s) = i[s] BY DEF Total
    <3>4. it[s] = IF s = {} THEN 0 ELSE w[Picked(s)] + Total(w, s \ {Picked(s)})
      BY <2>6
    <3> DEFINE u == s \ {Picked(s)}
    <3>5. ASSUME s # {} PROVE i[u] = Total(w, u)
      <4>1. Picked(s) \in s BY <3>5, PickedIsIn
      <4>2. u \subseteq s /\ u \subseteq t /\ u # t BY <4>1, <2>6
      <4> DEFINE j == CHOOSE j : IsSumOf(j, w, u)
      <4> HIDE DEF u
      <4>3. IsSumOf(j, w, u) BY <4>2, <2>4, Zenon
      <4>4. u \subseteq u /\ IsFiniteSet(s) BY <2>5, <2>6
      <4>5. IsSumOf(i, w, s) BY <3>1
      <4>6. Total(w, u) = j[u] BY DEF Total
      <4> HIDE DEF i, j
      <4>7. i[u] = j[u] BY <4>2, <4>3, <4>4, <4>5, SumUnique
      <4> QED BY <4>6, <4>7
    <3> HIDE DEF i, it
    <3> QED BY <3>2, <3>3, <3>4, <3>5
  <2>7. IsSumOf(it, w, t)
    <3>1. ASSUME NEW s \in SUBSET t
          PROVE  it[s] = IF s = {} THEN 0 ELSE w[Picked(s)] + it[s \ {Picked(s)}]
      <4>1. it[s] = IF s = {} THEN 0 ELSE w[Picked(s)] + Total(w, s \ {Picked(s)})
        BY <3>1
      <4>2. ASSUME s # {} PROVE Total(w, s \ {Picked(s)}) = it[s \ {Picked(s)}]
        <5>1. Picked(s) \in s BY <4>2, PickedIsIn
        <5>2. s \ {Picked(s)} \subseteq t /\ s \ {Picked(s)} # t BY <5>1
        <5> HIDE DEF it
        <5> QED BY <5>2, <2>6
      <4> HIDE DEF it
      <4> QED BY <4>1, <4>2
    <3>2. it = [s \in SUBSET t |-> it[s]] OBVIOUS
    <3> HIDE DEF it
    <3> QED BY <3>1, <3>2 DEF IsSumOf
  <2> QED BY <2>2, <2>7
<1> QED BY <1>1

(* So the sum of a finite set is what is picked and the sum of the rest.              *)
LEMMA TotalSteps ==
  ASSUME NEW w, NEW S, IsFiniteSet(S)
  PROVE  /\ S = {} => Total(w, S) = 0
         /\ S # {} => /\ Picked(S) \in S
                      /\ Total(w, S) = w[Picked(S)] + Total(w, S \ {Picked(S)})
<1> DEFINE u == S \ {Picked(S)}
           i == CHOOSE i : IsSumOf(i, w, S)
           j == CHOOSE j : IsSumOf(j, w, u)
<1>1. IsFiniteSet(u) /\ u \subseteq S BY FS_Subset
<1>2. IsSumOf(i, w, S)
  BY SumExists
<1>3. IsSumOf(j, w, u)
  <2> HIDE DEF u
  <2> QED BY <1>1, SumExists
<1>4. Total(w, S) = i[S] /\ Total(w, u) = j[u] BY DEF Total
<1> HIDE DEF i, j
<1>5. i[S] = IF S = {} THEN 0 ELSE w[Picked(S)] + i[u]
  <2>1. S \subseteq S OBVIOUS
  <2> QED BY <1>2, <2>1, SumSteps
<1>6. i[u] = j[u]
  <2> HIDE DEF u
  <2>1. u \subseteq u OBVIOUS
  <2> QED BY <1>1, <1>2, <1>3, <2>1, SumUnique
<1>7. S # {} => Picked(S) \in S BY PickedIsIn
<1> QED BY <1>4, <1>5, <1>6, <1>7

(* The sum of integers is one.                                                     *)
LEMMA TotalIsInt ==
  ASSUME NEW S, IsFiniteSet(S), NEW w, \A x \in S : w[x] \in Int
  PROVE  Total(w, S) \in Int
<1> DEFINE Bad == {t \in SUBSET S : ~(Total(w, t) \in Int)}
<1>1. ASSUME Bad # {} PROVE FALSE
  <2>1. PICK t : IsSmallest(t, Bad)
    <3>1. \A t \in Bad : t \subseteq S OBVIOUS
    <3>2. Bad # {} BY <1>1
    <3> HIDE DEF Bad
    <3> QED BY <3>1, <3>2, Smallest, Zenon
  <2>2. t \subseteq S /\ ~(Total(w, t) \in Int) BY <2>1 DEF IsSmallest
  <2> DEFINE u == t \ {Picked(t)}
  <2>3. IsFiniteSet(t) BY <2>2, FS_Subset
  <2>4. CASE t = {}
    <3>1. Total(w, t) = 0 BY <2>3, <2>4, TotalSteps
    <3> QED BY <2>2, <2>4, <3>1
  <2>5. CASE t # {}
    <3>1. Picked(t) \in t BY <2>5, PickedIsIn
    <3>2. u \subseteq t /\ u # t BY <3>1
    <3>3. Total(w, u) \in Int
      <4> HIDE DEF u
      <4> QED BY <2>1, <2>2, <3>2 DEF IsSmallest
    <3>4. /\ Total(w, t) = w[Picked(t)] + Total(w, u) BY <2>3, <2>5, TotalSteps
    <3>5. w[Picked(t)] \in Int BY <2>2, <3>1
    <3> HIDE DEF u
    <3> QED BY <2>2, <3>3, <3>4, <3>5
  <2> QED BY <2>4, <2>5
<1> QED BY <1>1

(* A sum of values none of which is larger is not larger.                          *)
LEMMA TotalAtMost ==
  ASSUME NEW S, IsFiniteSet(S), NEW w, NEW v,
         \A x \in S : w[x] \in Int /\ v[x] \in Int /\ w[x] <= v[x]
  PROVE  /\ Total(w, S) \in Int /\ Total(v, S) \in Int
         /\ Total(w, S) <= Total(v, S)
<1> DEFINE Bad == {t \in SUBSET S : ~(Total(w, t) \in Int /\ Total(v, t) \in Int /\ Total(w, t) <= Total(v, t))}
<1>1. ASSUME Bad # {} PROVE FALSE
  <2>1. PICK t : IsSmallest(t, Bad)
    <3>1. \A t \in Bad : t \subseteq S OBVIOUS
    <3>2. Bad # {} BY <1>1
    <3> HIDE DEF Bad
    <3> QED BY <3>1, <3>2, Smallest, Zenon
  <2>2. t \subseteq S /\ ~(Total(w, t) \in Int /\ Total(v, t) \in Int /\ Total(w, t) <= Total(v, t)) BY <2>1 DEF IsSmallest
  <2> DEFINE u == t \ {Picked(t)}
  <2>3. IsFiniteSet(t) BY <2>2, FS_Subset
  <2>4. CASE t = {}
    <3>1. Total(w, t) = 0 /\ Total(v, t) = 0 BY <2>3, <2>4, TotalSteps
    <3> QED BY <2>2, <2>4, <3>1
  <2>5. CASE t # {}
    <3>1. Picked(t) \in t BY <2>5, PickedIsIn
    <3>2. u \subseteq t /\ u # t BY <3>1
    <3>3. Total(w, u) \in Int /\ Total(v, u) \in Int /\ Total(w, u) <= Total(v, u)
      <4> HIDE DEF u
      <4> QED BY <2>1, <2>2, <3>2 DEF IsSmallest
    <3>4. /\ Total(w, t) = w[Picked(t)] + Total(w, u)
          /\ Total(v, t) = v[Picked(t)] + Total(v, u) BY <2>3, <2>5, TotalSteps
    <3>5. w[Picked(t)] \in Int /\ v[Picked(t)] \in Int /\ w[Picked(t)] <= v[Picked(t)] BY <2>2, <3>1
    <3> HIDE DEF u
    <3> QED BY <2>2, <3>3, <3>4, <3>5
  <2> QED BY <2>4, <2>5
<1> QED BY <1>1

(* A sum of some positive values is positive.                                      *)
LEMMA TotalPositive ==
  ASSUME NEW S, IsFiniteSet(S), NEW w, \A x \in S : w[x] \in Nat \ {0}
  PROVE  /\ Total(w, S) \in Nat
         /\ S # {} => Total(w, S) > 0
<1> DEFINE Bad == {t \in SUBSET S : ~(Total(w, t) \in Nat /\ (t # {} => Total(w, t) > 0))}
<1>1. ASSUME Bad # {} PROVE FALSE
  <2>1. PICK t : IsSmallest(t, Bad)
    <3>1. \A t \in Bad : t \subseteq S OBVIOUS
    <3>2. Bad # {} BY <1>1
    <3> HIDE DEF Bad
    <3> QED BY <3>1, <3>2, Smallest, Zenon
  <2>2. t \subseteq S /\ ~(Total(w, t) \in Nat /\ (t # {} => Total(w, t) > 0)) BY <2>1 DEF IsSmallest
  <2> DEFINE u == t \ {Picked(t)}
  <2>3. IsFiniteSet(t) BY <2>2, FS_Subset
  <2>4. CASE t = {}
    <3>1. Total(w, t) = 0 BY <2>3, <2>4, TotalSteps
    <3> QED BY <2>2, <2>4, <3>1
  <2>5. CASE t # {}
    <3>1. Picked(t) \in t BY <2>5, PickedIsIn
    <3>2. u \subseteq t /\ u # t BY <3>1
    <3>3. Total(w, u) \in Nat /\ (u # {} => Total(w, u) > 0)
      <4> HIDE DEF u
      <4> QED BY <2>1, <2>2, <3>2 DEF IsSmallest
    <3>4. /\ Total(w, t) = w[Picked(t)] + Total(w, u) BY <2>3, <2>5, TotalSteps
    <3>5. w[Picked(t)] \in Nat \ {0} BY <2>2, <3>1
    <3> HIDE DEF u
    <3> QED BY <2>2, <3>3, <3>4, <3>5
  <2> QED BY <2>4, <2>5
<1> QED BY <1>1

(* A sum of multiples is the multiple of the sum.                                  *)
LEMMA TotalTimes ==
  ASSUME NEW S, IsFiniteSet(S), NEW w, NEW v, NEW k \in Nat,
         \A x \in S : w[x] \in Int /\ v[x] = k * w[x]
  PROVE  /\ Total(w, S) \in Int /\ Total(v, S) = k * Total(w, S)
<1> DEFINE Bad == {t \in SUBSET S : ~(Total(w, t) \in Int /\ Total(v, t) = k * Total(w, t))}
<1>1. ASSUME Bad # {} PROVE FALSE
  <2>1. PICK t : IsSmallest(t, Bad)
    <3>1. \A t \in Bad : t \subseteq S OBVIOUS
    <3>2. Bad # {} BY <1>1
    <3> HIDE DEF Bad
    <3> QED BY <3>1, <3>2, Smallest, Zenon
  <2>2. t \subseteq S /\ ~(Total(w, t) \in Int /\ Total(v, t) = k * Total(w, t)) BY <2>1 DEF IsSmallest
  <2> DEFINE u == t \ {Picked(t)}
  <2>3. IsFiniteSet(t) BY <2>2, FS_Subset
  <2>4. CASE t = {}
    <3>1. Total(w, t) = 0 /\ Total(v, t) = 0 BY <2>3, <2>4, TotalSteps
    <3> QED BY <2>2, <2>4, <3>1
  <2>5. CASE t # {}
    <3>1. Picked(t) \in t BY <2>5, PickedIsIn
    <3>2. u \subseteq t /\ u # t BY <3>1
    <3>3. Total(w, u) \in Int /\ Total(v, u) = k * Total(w, u)
      <4> HIDE DEF u
      <4> QED BY <2>1, <2>2, <3>2 DEF IsSmallest
    <3>4. /\ Total(w, t) = w[Picked(t)] + Total(w, u)
          /\ Total(v, t) = v[Picked(t)] + Total(v, u) BY <2>3, <2>5, TotalSteps
    <3>5. w[Picked(t)] \in Int /\ v[Picked(t)] = k * w[Picked(t)] BY <2>2, <3>1
    <3> HIDE DEF u
    <3> QED BY <2>2, <3>3, <3>4, <3>5
  <2> QED BY <2>4, <2>5
<1> QED BY <1>1

-----------------------------------------------------------------------------
(* The inductive invariant. Its parts speak of a record and of what it refers to.    *)

(* A run keeps the results its score was assembled from.                            *)
IsAssembled(r, erp) ==
  /\ DOMAIN r.results = Checks
  /\ r.results = _normalize_results(r.results, erp)
  /\ r.score = assemble_dcs_score(r.results, erp)
  /\ r.impact \in Int
RunFields == {"status", "tail", "at", "scored", "facts", "score", "results", "impact", "diff", "drift"}
IsRun(r, erp) ==
  /\ RunFields \subseteq DOMAIN r
  /\ r.at \in Nat /\ r.scored \in Nat /\ IsFacts(r.facts)
  /\ r.status \in {"QUEUED", "RUNNING", "SUCCEEDED", "FAILED"}
  /\ r.tail # "none" => r.scored > 0
  /\ r.status = "SUCCEEDED" => r.scored > 0
  /\ r.score.headline # NoScore => r.scored > 0
  /\ r.scored = 0 => r.score.state = "none"
  /\ r.scored > 0 => IsAssembled(r, erp)
RunsAreScored ==
  /\ IsSeq(runs)
  /\ \A i \in DOMAIN runs : IsRun(runs[i], site.erp)

(* A diff is of the score that the run has, or had; what it is compared with is the   *)
(* score another run has, or had.                                                  *)
IsDiff(i, kept, rs) ==
  LET d == kept.diff
  IN /\ kept.of \in Nat /\ kept.of <= rs[i].scored
     /\ ~d.baseline =>
          /\ d.to[1] \in DOMAIN rs /\ d.to[1] # i
          /\ d.to[2] \in Nat /\ d.to[2] <= rs[d.to[1]].scored
          /\ kept.of = rs[i].scored => d.headline.current = rs[i].score.headline
          /\ rs[d.to[1]].scored = d.to[2] => d.headline.previous = rs[d.to[1]].score.headline
          /\ AddsUp(d.headline) /\ AddsUp(d.impact) /\ AddsUp(d.passed) /\ AddsUp(d.failed)
          /\ \A x \in DOMAIN d.dims : AddsUp(d.dims[x])
DiffsTell == \A i \in DOMAIN runs : \A kept \in runs[i].diff : IsDiff(i, kept, runs)

(* A row of a supplemental gate is what its evaluator says of the facts it keeps.     *)
IsRow(c, row) ==
  /\ c \in Supplementals /\ IsFacts(row.facts)
  /\ row.status = run_supplemental_check(c, row.erp, row.facts)
RowsAreJudged ==
  /\ IsSeq(bundles)
  /\ \A b \in DOMAIN bundles : \A c \in DOMAIN bundles[b].rows : IsRow(c, bundles[b].rows[c])
  /\ \A e \in evals : /\ {"read", "seen"} \subseteq DOMAIN e
                      /\ e.seen \in 0..Len(bundles)
                      /\ \A c \in DOMAIN e.rows : IsRow(c, e.rows[c])

(* What a pilot was recommended on is still what was scored, unless the run was       *)
(* scored again, and what was evaluated.                                           *)
StatusesOf(results) == [c \in DOMAIN results |-> results[c].status]
StoredAt(b, bs) == IF b = 0 THEN <<>> ELSE StatusesOf(bs[b].rows)
Unblocked(results) == \A gate \in BLOCKING_GATE_IDS : results[gate].status # "FAIL"
IsContext(c, rs, bs) ==
  /\ c.bundle \in 0..Len(bs) /\ c.stored = StoredAt(c.bundle, bs)
  /\ c.scored =>
       /\ c.run \in DOMAIN rs /\ rs[c.run].scored > 0
       /\ c.headline \in Int /\ c.headline # NoScore
       /\ rs[c.run].scored = 1 => /\ c.results = StatusesOf(rs[c.run].results)
                                  /\ Unblocked(rs[c.run].results)
IsPackage(p, d, rs, bs) ==
  LET g == p.gates
      b == d.blueprint
  IN /\ p.bundle \in 0..Len(bs)
     /\ p.run \in DOMAIN rs /\ rs[p.run].scored > 0
     /\ g.headline \in Int /\ g.headline # NoScore /\ g.headline >= 1000 * b.min_dcs
     /\ d.require.architecture => g.mode \in b.modes \ {"INCOMPLETE"}
     /\ DOMAIN g.checks = b.checks
     /\ \A x \in Hard(b) :
          /\ d.require.checks => g.checks[x] = "PASS"
          /\ rs[p.run].scored = 1 /\ g.checks[x] # "UNKNOWN" =>
               g.checks[x] = rs[p.run].results[x].status
     /\ \A x \in Supplemental(b) \cap DOMAIN StoredAt(p.bundle, bs) :
          g.checks[x] = StoredAt(p.bundle, bs)[x]
     /\ rs[p.run].scored = 1 => Unblocked(rs[p.run].results)
PackagesAreFounded ==
  /\ IsSeq(packages)
  /\ \A c \in builds : IsContext(c, runs, bundles)
  /\ \A p \in DOMAIN packages : IsPackage(packages[p], site, runs, bundles)

(* A handoff is of a QA of its package, and has come a way that handoffs go.         *)
Ways == {<<"STAGED">>, <<"STAGED", "APPROVED_FOR_ACTIVATION">>,
         <<"STAGED", "APPROVED_FOR_ACTIVATION", "ACTIVATED">>,
         <<"STAGED", "REJECTED">>, <<"STAGED", "APPROVED_FOR_ACTIVATION", "REJECTED">>}
Fits(p, q, d, qs) ==
  /\ q \in DOMAIN qs /\ qs[q].package = p
  /\ d.require.qa => qs[q].status = "PASS"
IsHandoff(x, d, qs) ==
  /\ x = [package |-> x.package, qa |-> x.qa, status |-> x.status, trail |-> x.trail]
  /\ x.trail \in Ways /\ x.status = x.trail[Len(x.trail)]
  /\ Fits(x.package, x.qa, d, qs)
QasAreOfPackages ==
  /\ IsSeq(qas)
  /\ \A q \in DOMAIN qas :
       /\ qas[q].package \in DOMAIN packages
       /\ qas[q].status = evaluate_hard_tests(site.blueprint, packages[qas[q].package].gates)
AreHandoffs(hs, d, qs) ==
  /\ IsSeq(hs)
  /\ \A h \in DOMAIN hs : IsHandoff(hs[h], d, qs)
  /\ \A g, h \in DOMAIN hs : hs[g].package = hs[h].package /\ hs[g].qa = hs[h].qa => g = h
HandoffsGoTheirWay ==
  /\ \A x \in posts : Fits(x.package, x.qa, site, qas)
  /\ AreHandoffs(handoffs, site, qas)

IInv ==
  /\ site \in Deployments
  /\ RunsAreScored /\ DiffsTell /\ RowsAreJudged
  /\ PackagesAreFounded /\ QasAreOfPackages /\ HandoffsGoTheirWay

-----------------------------------------------------------------------------
(* Handoffs.                                                                       *)

(* The trail of a handoff, one mark longer.                                           *)
LEMMA AppendedTuples ==
  ASSUME NEW a, NEW b, NEW c
  PROVE  /\ Append(<<a>>, b) = <<a, b>>
         /\ Append(<<a, b>>, c) = <<a, b, c>>
<1> DEFINE T == {a, b, c}
<1>1. /\ <<a>> \in Seq(T) /\ <<a, b>> \in Seq(T) /\ <<a, b, c>> \in Seq(T)
      /\ Len(<<a>>) = 1 /\ Len(<<a, b>>) = 2 /\ Len(<<a, b, c>>) = 3
  OBVIOUS
<1>2. Append(<<a>>, b) = <<a, b>>
  <2>1. /\ Append(<<a>>, b) \in Seq(T) /\ Len(Append(<<a>>, b)) = 2
        /\ Append(<<a>>, b)[1] = a /\ Append(<<a>>, b)[2] = b
    OBVIOUS
  <2>2. \A i \in 1..2 : Append(<<a>>, b)[i] = <<a, b>>[i]
    BY <2>1
  <2> HIDE DEF T
  <2> QED BY <1>1, <2>1, <2>2, SeqEqual
<1>3. Append(<<a, b>>, c) = <<a, b, c>>
  <2>1. /\ Append(<<a, b>>, c) \in Seq(T) /\ Len(Append(<<a, b>>, c)) = 3
        /\ Append(<<a, b>>, c)[1] = a /\ Append(<<a, b>>, c)[2] = b
        /\ Append(<<a, b>>, c)[3] = c
    OBVIOUS
  <2>2. \A i \in 1..3 : Append(<<a, b>>, c)[i] = <<a, b, c>>[i]
    BY <2>1
  <2> HIDE DEF T
  <2> QED BY <1>1, <2>1, <2>2, SeqEqual
<1> QED BY <1>2, <1>3

(* The first marks of the way.                                                        *)
LEMMA SubTuples ==
  ASSUME NEW a, NEW b, NEW c
  PROVE  /\ SubSeq(<<a, b, c>>, 1, 1) = <<a>>
         /\ SubSeq(<<a, b, c>>, 1, 2) = <<a, b>>
         /\ SubSeq(<<a, b, c>>, 1, 3) = <<a, b, c>>
<1> DEFINE T == {a, b, c}
           s == <<a, b, c>>
<1>1. /\ <<a>> \in Seq(T) /\ <<a, b>> \in Seq(T) /\ <<a, b, c>> \in Seq(T)
      /\ Len(<<a>>) = 1 /\ Len(<<a, b>>) = 2 /\ Len(<<a, b, c>>) = 3
  OBVIOUS
<1>2. \A n \in 1..3 : /\ SubSeq(s, 1, n) \in Seq(T) /\ Len(SubSeq(s, 1, n)) = n
                      /\ \A i \in 1..n : SubSeq(s, 1, n)[i] = s[i]
  <2> SUFFICES ASSUME NEW n \in 1..3
               PROVE  /\ SubSeq(s, 1, n) \in Seq(T) /\ Len(SubSeq(s, 1, n)) = n
                      /\ \A i \in 1..n : SubSeq(s, 1, n)[i] = s[i]
    OBVIOUS
  <2>1. \A i \in 1..n : s[i] \in T OBVIOUS
  <2> HIDE DEF T, s
  <2> QED BY <2>1, SubSeqProperties
<1>3. s[1] = a /\ s[2] = b /\ s[3] = c OBVIOUS
<1> HIDE DEF T, s
<1>4. SubSeq(s, 1, 1) = <<a>>
  <2>1. SubSeq(s, 1, 1) \in Seq(T) /\ Len(SubSeq(s, 1, 1)) = Len(<<a>>)
    BY <1>1, <1>2
  <2>2. \A i \in 1..1 : SubSeq(s, 1, 1)[i] = <<a>>[i]
    BY <1>2, <1>3
  <2>3. \A i \in 1..Len(SubSeq(s, 1, 1)) : SubSeq(s, 1, 1)[i] = <<a>>[i]
    BY <2>2, <1>2
  <2> QED BY <1>1, <2>1, <2>3, SeqEqual
<1>5. SubSeq(s, 1, 2) = <<a, b>>
  <2>1. SubSeq(s, 1, 2) \in Seq(T) /\ Len(SubSeq(s, 1, 2)) = Len(<<a, b>>)
    BY <1>1, <1>2
  <2>2. \A i \in 1..2 : SubSeq(s, 1, 2)[i] = <<a, b>>[i]
    BY <1>2, <1>3
  <2>3. \A i \in 1..Len(SubSeq(s, 1, 2)) : SubSeq(s, 1, 2)[i] = <<a, b>>[i]
    BY <2>2, <1>2
  <2> QED BY <1>1, <2>1, <2>3, SeqEqual
<1>6. SubSeq(s, 1, 3) = <<a, b, c>>
  <2>1. SubSeq(s, 1, 3) \in Seq(T) /\ Len(SubSeq(s, 1, 3)) = Len(<<a, b, c>>)
    BY <1>1, <1>2
  <2>2. \A i \in 1..3 : SubSeq(s, 1, 3)[i] = <<a, b, c>>[i]
    BY <1>2, <1>3
  <2>3. \A i \in 1..Len(SubSeq(s, 1, 3)) : SubSeq(s, 1, 3)[i] = <<a, b, c>>[i]
    BY <2>2, <1>2
  <2> QED BY <1>1, <2>1, <2>3, SeqEqual
<1> QED BY <1>4, <1>5, <1>6 DEF s

(* The trails that HandoffTrail allows are these five.                                *)
LEMMA TrailsAreWays == Trails = Ways
<1> DEFINE way == <<"STAGED", "APPROVED_FOR_ACTIVATION", "ACTIVATED">>
<1>1. /\ SubSeq(way, 1, 1) = <<"STAGED">>
      /\ SubSeq(way, 1, 2) = <<"STAGED", "APPROVED_FOR_ACTIVATION">>
      /\ SubSeq(way, 1, 3) = way
  BY SubTuples, Zenon
<1>2. /\ Append(<<"STAGED">>, "REJECTED") = <<"STAGED", "REJECTED">>
      /\ Append(<<"STAGED", "APPROVED_FOR_ACTIVATION">>, "REJECTED")
           = <<"STAGED", "APPROVED_FOR_ACTIVATION", "REJECTED">>
  BY AppendedTuples, Zenon
<1>3. 1..3 = {1, 2, 3} /\ 1..2 = {1, 2} OBVIOUS
<1>4. {SubSeq(way, 1, n) : n \in 1..3}
        = {SubSeq(way, 1, 1), SubSeq(way, 1, 2), SubSeq(way, 1, 3)}
  BY <1>3
<1>5. {Append(SubSeq(way, 1, n), "REJECTED") : n \in 1..2}
        = {Append(SubSeq(way, 1, 1), "REJECTED"), Append(SubSeq(way, 1, 2), "REJECTED")}
  BY <1>3
<1>6. Trails = {SubSeq(way, 1, n) : n \in 1..3} \cup {Append(SubSeq(way, 1, n), "REJECTED") : n \in 1..2}
  BY Zenon DEF Trails
<1> QED BY <1>1, <1>2, <1>4, <1>5, <1>6 DEF Ways

(* A way goes on as the handlers move a handoff.                                   *)
LEMMA WaysGoOn ==
  ASSUME NEW t \in Ways
  PROVE  /\ t[Len(t)] = "STAGED" =>
              /\ Append(t, "APPROVED_FOR_ACTIVATION") \in Ways
              /\ Append(t, "REJECTED") \in Ways
         /\ t[Len(t)] = "APPROVED_FOR_ACTIVATION" =>
              /\ Append(t, "ACTIVATED") \in Ways /\ Append(t, "REJECTED") \in Ways
         /\ \A to \in {"APPROVED_FOR_ACTIVATION", "REJECTED", "ACTIVATED"} :
              Append(t, to)[Len(Append(t, to))] = to
<1>0. /\ Append(<<"STAGED">>, "APPROVED_FOR_ACTIVATION") = <<"STAGED", "APPROVED_FOR_ACTIVATION">>
      /\ Append(<<"STAGED">>, "REJECTED") = <<"STAGED", "REJECTED">>
      /\ Append(<<"STAGED", "APPROVED_FOR_ACTIVATION">>, "REJECTED")
           = <<"STAGED", "APPROVED_FOR_ACTIVATION", "REJECTED">>
      /\ Append(<<"STAGED", "APPROVED_FOR_ACTIVATION">>, "ACTIVATED")
           = <<"STAGED", "APPROVED_FOR_ACTIVATION", "ACTIVATED">>
  BY AppendedTuples, Zenon
<1>1. CASE t = <<"STAGED">> BY <1>0, <1>1 DEF Ways
<1>2. CASE t = <<"STAGED", "APPROVED_FOR_ACTIVATION">> BY <1>0, <1>2 DEF Ways
<1>3. CASE t = <<"STAGED", "APPROVED_FOR_ACTIVATION", "ACTIVATED">> BY <1>3 DEF Ways
<1>4. CASE t = <<"STAGED", "REJECTED">> BY <1>4 DEF Ways
<1>5. CASE t = <<"STAGED", "APPROVED_FOR_ACTIVATION", "REJECTED">> BY <1>5 DEF Ways
<1> QED BY <1>1, <1>2, <1>3, <1>4, <1>5 DEF Ways

(* A QA that is appended leaves what fitted the older ones.                         *)
LEMMA FitsStays ==
  ASSUME NEW qs, IsSeq(qs), NEW q, NEW p, NEW x, NEW d, Fits(p, x, d, qs)
  PROVE  Fits(p, x, d, Append(qs, q))
BY SeqAppend, SeqLen DEF Fits

(* A new handoff of a pair that has none.                                          *)
LEMMA NewHandoff ==
  ASSUME NEW hs, NEW qs, NEW d, AreHandoffs(hs, d, qs),
         NEW p, NEW q, Fits(p, q, d, qs),
         \A h \in DOMAIN hs : ~(hs[h].package = p /\ hs[h].qa = q)
  PROVE  AreHandoffs(Append(hs, Staged(p, q)), d, qs)
<1> DEFINE s == Staged(p, q)
           new == Append(hs, s)
<1>0. IsSeq(hs) BY DEF AreHandoffs
<1>1. /\ IsSeq(new) /\ DOMAIN new = 1..(Len(hs) + 1)
      /\ (\A i \in 1..Len(hs) : new[i] = hs[i]) /\ new[Len(hs) + 1] = s
  <2> HIDE DEF s
  <2> QED BY <1>0, SeqAppend
<1>2. Len(hs) \in Nat /\ DOMAIN hs = 1..Len(hs) BY <1>0, SeqLen
<1>3. IsHandoff(s, d, qs)
  BY DEF IsHandoff, Staged, Ways
<1>4. s.package = p /\ s.qa = q BY DEF Staged
<1> HIDE DEF s, new
<1>5. \A h \in DOMAIN new : IsHandoff(new[h], d, qs)
  BY <1>1, <1>2, <1>3 DEF AreHandoffs
<1>6. \A g, h \in DOMAIN new :
        new[g].package = new[h].package /\ new[g].qa = new[h].qa => g = h
  BY <1>1, <1>2, <1>4 DEF AreHandoffs
<1> QED BY <1>1, <1>5, <1>6 DEF AreHandoffs, new, s

-----------------------------------------------------------------------------
(* Handing over.                                                                    *)

(* What touches neither packages, QAs nor handoffs keeps what is said of them.        *)
LEMMA HandoffsKept ==
  ASSUME QasAreOfPackages, HandoffsGoTheirWay, UNCHANGED <<site, packages, qas, posts, handoffs>>
  PROVE  QasAreOfPackages' /\ HandoffsGoTheirWay'
BY DEF QasAreOfPackages, HandoffsGoTheirWay

(* A package that is appended leaves the QAs of the older ones.                     *)
LEMMA QasKept ==
  ASSUME QasAreOfPackages, HandoffsGoTheirWay, IsSeq(packages),
         NEW new, packages' = Append(packages, new), UNCHANGED <<site, qas, posts, handoffs>>
  PROVE  QasAreOfPackages' /\ HandoffsGoTheirWay'
<1>1. /\ Len(packages) \in Nat /\ DOMAIN packages = 1..Len(packages)
      /\ DOMAIN packages' = 1..(Len(packages) + 1)
      /\ \A p \in DOMAIN packages : packages'[p] = packages[p]
  BY SeqLen, SeqAppend
<1>2. \A p \in DOMAIN packages : p \in DOMAIN packages' BY <1>1
<1>3. QasAreOfPackages'
  BY <1>1, <1>2, Zenon DEF QasAreOfPackages
<1>4. HandoffsGoTheirWay' BY Zenon DEF HandoffsGoTheirWay
<1> QED BY <1>3, <1>4

(* run_qa_for_package appends the QA of a package, with the answer of its tests.      *)
LEMMA QaStep ==
  ASSUME QasAreOfPackages, HandoffsGoTheirWay, NEW p \in DOMAIN packages, run_qa_for_package(p)
  PROVE  QasAreOfPackages' /\ HandoffsGoTheirWay'
<1> DEFINE status == evaluate_hard_tests(site.blueprint, packages[p].gates)
           q == [package |-> p, status |-> status]
           n == Len(qas) + 1
<1>1. /\ qas' = Append(qas, q)
      /\ handoffs' = IF status = "PASS" THEN Append(handoffs, Staged(p, n)) ELSE handoffs
      /\ UNCHANGED <<site, packages, posts>>
  BY Zenon DEF run_qa_for_package
<1>2. q.package = p /\ q.status = status OBVIOUS
<1>3. IsSeq(qas) BY DEF QasAreOfPackages
<1>4. /\ Len(qas) \in Nat /\ DOMAIN qas = 1..Len(qas) /\ IsSeq(qas') /\ DOMAIN qas' = 1..n
      /\ (\A i \in DOMAIN qas : qas'[i] = qas[i]) /\ qas'[n] = q
  <2> HIDE DEF q
  <2> QED BY <1>1, <1>3, SeqLen, SeqAppend
<1>5. QasAreOfPackages'
  <2>1. ASSUME NEW i \in DOMAIN qas'
        PROVE  /\ qas'[i].package \in DOMAIN packages
               /\ qas'[i].status = evaluate_hard_tests(site.blueprint, packages[qas'[i].package].gates)
    <3>1. CASE i \in DOMAIN qas
      <4>1. qas'[i] = qas[i] BY <1>4, <3>1
      <4> QED BY <4>1, <3>1, Zenon DEF QasAreOfPackages
    <3>2. CASE i = n
      <4>1. qas'[i] = q BY <1>4, <3>2
      <4>2. qas'[i].package = p /\ qas'[i].status = status BY <4>1, <1>2, Zenon
      <4> QED BY <4>2, Zenon
    <3> QED BY <2>1, <1>4, <3>1, <3>2
  <2> QED BY <2>1, <1>1, <1>4, Zenon DEF QasAreOfPackages
<1> HIDE DEF q, status
<1>6. ASSUME NEW a, NEW b, Fits(a, b, site, qas) PROVE Fits(a, b, site, qas')
  BY <1>6, <1>1, <1>3, FitsStays
<1>7. \A x \in posts : Fits(x.package, x.qa, site, qas')
  BY <1>6, Zenon DEF HandoffsGoTheirWay
<1>8. AreHandoffs(handoffs, site, qas')
  BY <1>6, Zenon DEF HandoffsGoTheirWay, IsHandoff, AreHandoffs
<1>10. CASE status = "PASS"
  <2>1. Fits(p, n, site, qas')
    BY <1>2, <1>4, <1>10 DEF Fits
  <2>2. \A h \in DOMAIN handoffs : ~(handoffs[h].package = p /\ handoffs[h].qa = n)
    <3>1. \A h \in DOMAIN handoffs : handoffs[h].qa \in 1..Len(qas)
      BY <1>4 DEF HandoffsGoTheirWay, AreHandoffs, IsHandoff, Fits
    <3> QED BY <3>1, <1>4
  <2>3. AreHandoffs(Append(handoffs, Staged(p, n)), site, qas')
    <3> HIDE DEF n
    <3> QED BY <1>8, <2>1, <2>2, NewHandoff
  <2> QED BY <2>3, <1>1, <1>5, <1>7, <1>10, Zenon DEF HandoffsGoTheirWay
<1>11. CASE status # "PASS"
  <2>1. handoffs' = handoffs BY <1>1, <1>11
  <2> QED BY <2>1, <1>1, <1>5, <1>7, <1>8, Zenon DEF HandoffsGoTheirWay
<1> QED BY <1>10, <1>11

(* create_or_get_handoff_package looks for the handoff of its pair first.             *)
LEMMA LookupStep ==
  ASSUME QasAreOfPackages, HandoffsGoTheirWay, NEW p, NEW q, NEW id, StageLookup(p, q, id)
  PROVE  QasAreOfPackages' /\ HandoffsGoTheirWay'
<1> DEFINE new == [id |-> id, package |-> p, qa |-> q]
<1>1. /\ posts' = posts \cup {new}
      /\ UNCHANGED <<site, packages, qas, handoffs>>
  BY Zenon DEF StageLookup
<1>2. Fits(p, q, site, qas) BY Zenon DEF StageLookup, _validate_stage_inputs, Fits
<1>3. new.package = p /\ new.qa = q OBVIOUS
<1> HIDE DEF new
<1>4. \A x \in posts' : Fits(x.package, x.qa, site, qas)
  BY <1>1, <1>2, <1>3, Zenon DEF HandoffsGoTheirWay
<1>5. QasAreOfPackages' BY <1>1, Zenon DEF QasAreOfPackages
<1> QED BY <1>1, <1>4, <1>5, Zenon DEF HandoffsGoTheirWay

(* Its insert is answered with the row that is there when another request was first.  *)
LEMMA InsertStep ==
  ASSUME QasAreOfPackages, HandoffsGoTheirWay, NEW x \in posts, StageInsert(x)
  PROVE  QasAreOfPackages' /\ HandoffsGoTheirWay'
<1> DEFINE new == Append(handoffs, Staged(x.package, x.qa))
<1>1. /\ posts' = posts \ {x}
      /\ handoffs' = IF Of(x.package, x.qa) # {} THEN handoffs ELSE new
      /\ UNCHANGED <<site, packages, qas>>
  BY Zenon DEF StageInsert
<1>2. QasAreOfPackages' BY <1>1, Zenon DEF QasAreOfPackages
<1>3. \A y \in posts' : Fits(y.package, y.qa, site, qas)
  BY <1>1 DEF HandoffsGoTheirWay
<1>4. CASE Of(x.package, x.qa) # {}
  <2>1. handoffs' = handoffs BY <1>1, <1>4
  <2> QED BY <2>1, <1>1, <1>2, <1>3, Zenon DEF HandoffsGoTheirWay
<1>5. CASE Of(x.package, x.qa) = {}
  <2>1. \A h \in DOMAIN handoffs : ~(handoffs[h].package = x.package /\ handoffs[h].qa = x.qa)
    BY <1>5 DEF Of
  <2>2. AreHandoffs(new, site, qas)
    <3>1. Fits(x.package, x.qa, site, qas) BY DEF HandoffsGoTheirWay
    <3>2. AreHandoffs(handoffs, site, qas) BY DEF HandoffsGoTheirWay
    <3> QED BY <2>1, <3>1, <3>2, NewHandoff
  <2> QED BY <2>2, <1>1, <1>5, <1>2, <1>3, Zenon DEF HandoffsGoTheirWay
<1> QED BY <1>4, <1>5

(* A handoff moves on along its way.                                               *)
LEMMA MoveStep ==
  ASSUME QasAreOfPackages, HandoffsGoTheirWay, NEW h \in DOMAIN handoffs, NEW to, Move(h, to),
         Append(handoffs[h].trail, to) \in Ways,
         to \in {"APPROVED_FOR_ACTIVATION", "REJECTED", "ACTIVATED"}
  PROVE  QasAreOfPackages' /\ HandoffsGoTheirWay'
<1> DEFINE x == handoffs[h]
           t == Append(x.trail, to)
           y == [package |-> x.package, qa |-> x.qa, status |-> to, trail |-> t]
<1>1. UNCHANGED <<site, packages, qas, posts>> BY Zenon DEF Move
<1>2. QasAreOfPackages' BY <1>1, Zenon DEF QasAreOfPackages
<1>3. IsHandoff(x, site, qas) BY Zenon DEF HandoffsGoTheirWay, AreHandoffs
<1>4. handoffs' = [handoffs EXCEPT ![h] = y]
  <2>1. [x EXCEPT !.status = to, !.trail = Append(@, to)] = y
    <3>1. x = [package |-> x.package, qa |-> x.qa, status |-> x.status, trail |-> x.trail]
      BY <1>3 DEF IsHandoff
    <3> DEFINE a == x.package
               b == x.qa
               c == x.status
               d == x.trail
    <3>2. x = [package |-> a, qa |-> b, status |-> c, trail |-> d] BY <3>1
    <3>3. y = [package |-> a, qa |-> b, status |-> to, trail |-> t] OBVIOUS
    <3>4. [x EXCEPT !.status = to, !.trail = t] = [package |-> a, qa |-> b, status |-> to, trail |-> t]
      <4> HIDE DEF a, b, c, d, x, t
      <4>1. [x EXCEPT !.status = to] = [package |-> a, qa |-> b, status |-> to, trail |-> d]
        BY <3>2
      <4>2. [[package |-> a, qa |-> b, status |-> to, trail |-> d] EXCEPT !.trail = t]
              = [package |-> a, qa |-> b, status |-> to, trail |-> t]
        OBVIOUS
      <4>3. [x EXCEPT !.status = to, !.trail = t] = [[x EXCEPT !.status = to] EXCEPT !.trail = t]
        BY <4>1
      <4> QED BY <4>1, <4>2, <4>3, Zenon
    <3> QED BY <3>3, <3>4, Zenon
  <2>2. handoffs' = [handoffs EXCEPT ![h] = [x EXCEPT !.status = to, !.trail = Append(@, to)]]
    BY DEF Move
  <2> QED BY <2>1, <2>2
<1>5. IsHandoff(y, site, qas)
  <2>1. t[Len(t)] = to BY WaysGoOn, <1>3 DEF IsHandoff
  <2> DEFINE a == x.package
             b == x.qa
  <2>2. Fits(a, b, site, qas) BY <1>3 DEF IsHandoff
  <2>3. y = [package |-> a, qa |-> b, status |-> to, trail |-> t] OBVIOUS
  <2>4. t \in Ways OBVIOUS
  <2> HIDE DEF a, b, t
  <2> QED BY <2>1, <2>2, <2>3, <2>4 DEF IsHandoff
<1>6. y.package = x.package /\ y.qa = x.qa OBVIOUS
<1> HIDE DEF y, x
<1>7. IsSeq(handoffs) BY Zenon DEF HandoffsGoTheirWay, AreHandoffs
<1>8. /\ IsSeq(handoffs') /\ DOMAIN handoffs' = DOMAIN handoffs
      /\ \A j \in DOMAIN handoffs : handoffs'[j] = IF j = h THEN y ELSE handoffs[j]
  BY <1>4, <1>7, SeqExcept
<1>9. \A j \in DOMAIN handoffs' :
        /\ IsHandoff(handoffs'[j], site, qas)
        /\ handoffs'[j].package = handoffs[j].package /\ handoffs'[j].qa = handoffs[j].qa
  BY <1>5, <1>6, <1>8, Zenon DEF HandoffsGoTheirWay, AreHandoffs, x
<1>10. \A g, j \in DOMAIN handoffs' :
         handoffs'[g].package = handoffs'[j].package /\ handoffs'[g].qa = handoffs'[j].qa => g = j
  BY <1>8, <1>9, Zenon DEF HandoffsGoTheirWay, AreHandoffs
<1> QED BY <1>1, <1>2, <1>8, <1>9, <1>10, Zenon DEF HandoffsGoTheirWay, AreHandoffs

(* Approving, rejecting and confirming move a handoff along its way.                  *)
LEMMA MovesStep ==
  ASSUME QasAreOfPackages, HandoffsGoTheirWay, NEW h \in DOMAIN handoffs,
         approve_handoff_for_activation(h) \/ reject_handoff(h) \/ confirm_handoff_activated(h)
  PROVE  QasAreOfPackages' /\ HandoffsGoTheirWay'
<1> DEFINE t == handoffs[h].trail
<1>1. t \in Ways /\ handoffs[h].status = t[Len(t)]
  BY Zenon DEF HandoffsGoTheirWay, AreHandoffs, IsHandoff
<1>2. CASE approve_handoff_for_activation(h)
  <2>1. handoffs[h].status = "STAGED" /\ Move(h, "APPROVED_FOR_ACTIVATION")
    BY <1>2, Zenon DEF approve_handoff_for_activation
  <2>2. Append(t, "APPROVED_FOR_ACTIVATION") \in Ways
    <3> HIDE DEF t
    <3> QED BY <1>1, <2>1, WaysGoOn
  <2> QED BY <2>1, <2>2, MoveStep
<1>3. CASE reject_handoff(h)
  <2>1. handoffs[h].status \in {"STAGED", "APPROVED_FOR_ACTIVATION"} /\ Move(h, "REJECTED")
    BY <1>3, Zenon DEF reject_handoff
  <2>2. Append(t, "REJECTED") \in Ways
    <3> HIDE DEF t
    <3> QED BY <1>1, <2>1, WaysGoOn
  <2> QED BY <2>1, <2>2, MoveStep
<1>4. CASE confirm_handoff_activated(h)
  <2>1. handoffs[h].status = "APPROVED_FOR_ACTIVATION" /\ Move(h, "ACTIVATED")
    BY <1>4, Zenon DEF confirm_handoff_activated
  <2>2. Append(t, "ACTIVATED") \in Ways
    <3> HIDE DEF t
    <3> QED BY <1>1, <2>1, WaysGoOn
  <2> QED BY <2>1, <2>2, MoveStep
<1> QED BY <1>2, <1>3, <1>4

-----------------------------------------------------------------------------
(* Scores.                                                                          *)

(* A quotient of naturals is bounded as its dividend is.                              *)
LEMMA DivBounds ==
  ASSUME NEW x \in Nat, NEW b \in Nat \ {0}, NEW k \in Nat, x < k * b + b
  PROVE  x \div b \in Nat /\ x \div b <= k
<1> DEFINE q == x \div b
<1>1. q \in Int /\ q * b <= x /\ x < q * b + b OBVIOUS
<1>2. q >= 0 BY <1>1
<1>3. q <= k
  <2>1. SUFFICES ASSUME q >= k + 1 PROVE FALSE BY <1>1
  <2>2. q * b >= (k + 1) * b BY <2>1, <1>1
  <2> QED BY <2>2, <1>1
<1> QED BY <1>1, <1>2, <1>3

(* So is a rounded one.                                                               *)
LEMMA RoundedBounds ==
  ASSUME NEW a \in Nat, NEW b \in Nat \ {0}, NEW k \in Nat, a <= k * b
  PROVE  Rounded(a, b) \in Nat /\ Rounded(a, b) <= k
<1>1. b \div 2 \in Nat /\ b \div 2 < b OBVIOUS
<1>2. a + b \div 2 \in Nat /\ a + b \div 2 < k * b + b BY <1>1
<1> DEFINE x == a + b \div 2
<1>3. x \div b \in Nat /\ x \div b <= k
  <2>1. x \in Nat /\ x < k * b + b BY <1>2
  <2> HIDE DEF x
  <2> QED BY <2>1, DivBounds
<1> QED BY <1>3 DEF Rounded

(* What a set of checks weighs and earns.                                          *)
LEMMA Weights ==
  ASSUME NEW S \in SUBSET Checks, NEW r
  PROVE  /\ WeightOf(S) \in Nat /\ Earned(r, S) \in Nat
         /\ Earned(r, S) <= 2 * WeightOf(S)
         /\ (S # {} /\ \A c \in S : Weight[c] > 0) => WeightOf(S) > 0
<1> DEFINE w == [c \in S |-> Weight[c]]
           e == [c \in S |-> Weight[c] * Halves(r[c].status)]
           v == [c \in S |-> 2 * w[c]]
           z == [c \in S |-> 0]
<1>1. IsFiniteSet(S) BY ScoreAssumption, FS_Subset
<1>2. WeightOf(S) = Total(w, S)
  <2>1. WeightOf(S) = SumFunction(w) BY Zenon DEF WeightOf, Sum
  <2>2. DOMAIN w = S OBVIOUS
  <2> HIDE DEF w
  <2> QED BY <2>1, <2>2, SumUnfolds
<1>3. Earned(r, S) = Total(e, S)
  <2>1. Earned(r, S) = SumFunction(e) BY Zenon DEF Earned, Sum
  <2>2. DOMAIN e = S OBVIOUS
  <2> HIDE DEF e
  <2> QED BY <2>1, <2>2, SumUnfolds
<1>4. \A c \in S : w[c] \in Nat /\ w[c] = Weight[c] BY ScoreAssumption
<1>5. \A c \in S : e[c] \in Nat /\ v[c] \in Nat /\ e[c] <= v[c]
  <2> SUFFICES ASSUME NEW c \in S PROVE e[c] \in Nat /\ v[c] \in Nat /\ e[c] <= v[c]
    OBVIOUS
  <2>1. Halves(r[c].status) \in {0, 1, 2} BY DEF Halves
  <2>2. e[c] = w[c] * Halves(r[c].status) /\ v[c] = 2 * w[c] OBVIOUS
  <2>3. w[c] \in Nat BY <1>4
  <2> DEFINE h == Halves(r[c].status)
             n == w[c]
  <2>4. h \in {0, 1, 2} /\ n \in Nat /\ e[c] = n * h /\ v[c] = 2 * n BY <2>1, <2>2, <2>3
  <2> HIDE DEF h, n, e, v, w
  <2>5. CASE h = 0 BY <2>4, <2>5
  <2>6. CASE h = 1 BY <2>4, <2>6
  <2>7. CASE h = 2 BY <2>4, <2>7
  <2> QED BY <2>4, <2>5, <2>6, <2>7
<1>6. \A c \in S : v[c] = 2 * w[c] /\ z[c] = 0 OBVIOUS
<1> HIDE DEF w, e, v, z
<1>7. Total(w, S) \in Int /\ Total(v, S) = 2 * Total(w, S)
  <2>1. 2 \in Nat /\ \A c \in S : w[c] \in Int /\ v[c] = 2 * w[c] BY <1>4, <1>6
  <2> QED BY <1>1, <2>1, TotalTimes
<1>8. Total(e, S) \in Int /\ Total(v, S) \in Int /\ Total(e, S) <= Total(v, S)
  <2>1. \A c \in S : e[c] \in Int /\ v[c] \in Int /\ e[c] <= v[c] BY <1>5
  <2> QED BY <1>1, <2>1, TotalAtMost
<1>9. Total(z, S) = 0
  <2>1. 0 \in Nat /\ \A c \in S : w[c] \in Int /\ z[c] = 0 * w[c] BY <1>4, <1>6
  <2>2. Total(w, S) \in Int /\ Total(z, S) = 0 * Total(w, S) BY <1>1, <2>1, TotalTimes
  <2> QED BY <2>2
<1>10. Total(z, S) <= Total(w, S) /\ Total(z, S) <= Total(e, S)
  <2>1. \A c \in S : z[c] \in Int /\ w[c] \in Int /\ z[c] <= w[c] BY <1>4, <1>6
  <2>2. \A c \in S : z[c] \in Int /\ e[c] \in Int /\ z[c] <= e[c] BY <1>5, <1>6
  <2> QED BY <1>1, <2>1, <2>2, TotalAtMost
<1>11. (S # {} /\ \A c \in S : Weight[c] > 0) => Total(w, S) > 0
  <2> SUFFICES ASSUME S # {}, \A c \in S : Weight[c] > 0 PROVE Total(w, S) > 0
    OBVIOUS
  <2>1. \A c \in S : w[c] \in Nat \ {0} BY <1>4
  <2> QED BY <1>1, <2>1, TotalPositive
<1> QED BY <1>2, <1>3, <1>7, <1>8, <1>9, <1>10, <1>11

(* The mark of no score is an integer that no score reaches.                          *)
LEMMA NoScoreIsInt == NoScore \in Int /\ NoScore > 1000000
BY DEF NoScore

(* A dimension has a score when one of its checks was judged, and it is a percentage. *)
LEMMA DimensionScores ==
  ASSUME NEW r, NEW d
  PROVE  /\ _score_dimension(r, d).score \in Int
         /\ Eligible(r, d) = {} => _score_dimension(r, d).score = NoScore
         /\ Eligible(r, d) # {} => /\ _score_dimension(r, d).score \in Nat
                                   /\ _score_dimension(r, d).score <= 1000000
                                   /\ _score_dimension(r, d).score # NoScore
<1> DEFINE J == Eligible(r, d)
           s == _score_dimension(r, d).score
<1>1. J \in SUBSET Checks /\ \A c \in J : Weight[c] > 0 BY DEF Eligible, Scored
<1>2. CASE J = {}
  <2>1. s = NoScore
    <3>1. _score_dimension(r, d) = [score |-> NoScore,
                                    coverage |-> IF Applicable(r, d) = {} THEN 10000 ELSE 0]
      BY <1>2, SMT DEF _score_dimension
    <3> QED BY <3>1, SMT
  <2> HIDE DEF s, J
  <2>2. s \in Int BY <2>1, NoScoreIsInt
  <2> QED BY <2>1, <2>2, <1>2 DEF s, J
<1>3. CASE J # {}
  <2>1. s = Rounded(500000 * Earned(r, J), WeightOf(J)) BY <1>3, SMT DEF _score_dimension
  <2>2. WeightOf(J) \in Nat /\ WeightOf(J) > 0 /\ Earned(r, J) \in Nat
        /\ Earned(r, J) <= 2 * WeightOf(J)
    <3> HIDE DEF J
    <3> QED BY <1>1, <1>3, Weights
  <2> DEFINE a == 500000 * Earned(r, J)
             b == WeightOf(J)
  <2>3. a \in Nat /\ b \in Nat \ {0} /\ 1000000 \in Nat /\ a <= 1000000 * b BY <2>2
  <2>4. s = Rounded(a, b) BY <2>1
  <2> HIDE DEF a, b, s, J
  <2>5. s \in Nat /\ s <= 1000000 BY <2>3, <2>4, RoundedBounds
  <2>6. s \in Int /\ s # NoScore BY <2>5, NoScoreIsInt, SMT
  <2> QED BY <2>5, <2>6, <1>3, SMT DEF s, J
<1> QED BY <1>2, <1>3

(* The headline is a percentage, and there is one unless nothing was judged.        *)
LEMMA Headlines ==
  ASSUME NEW r, NEW erp
  PROVE  /\ _headline(_score_dimensions(r, erp)) \in Int
         /\ _headline(_score_dimensions(r, erp)) = NoScore =>
              \A d \in ScoredDimensions(erp) : Eligible(r, d) = {}
<1> DEFINE dims == _score_dimensions(r, erp)
           D == {d \in DOMAIN dims : dims[d].score # NoScore}
           w == [d \in D |-> Share[d]]
           e == [d \in D |-> dims[d].score * Share[d]]
           v == [d \in D |-> 1000000 * w[d]]
           z == [d \in D |-> 0]
           h == _headline(dims)
<1>1. DOMAIN dims = ScoredDimensions(erp) /\ ScoredDimensions(erp) \subseteq DOMAIN Share
      /\ \A d \in ScoredDimensions(erp) : dims[d] = _score_dimension(r, d)
  BY DEF _score_dimensions, ScoredDimensions
<1>2. \A d \in ScoredDimensions(erp) : d \in D <=> Eligible(r, d) # {}
  <2> SUFFICES ASSUME NEW d \in ScoredDimensions(erp) PROVE d \in D <=> Eligible(r, d) # {}
    OBVIOUS
  <2>1. dims[d] = _score_dimension(r, d) /\ d \in DOMAIN dims BY <1>1
  <2> HIDE DEF dims
  <2> QED BY <2>1, DimensionScores, SMT
<1>3. \A d \in D : dims[d].score \in Nat /\ dims[d].score <= 1000000
  <2> SUFFICES ASSUME NEW d \in D PROVE dims[d].score \in Nat /\ dims[d].score <= 1000000
    OBVIOUS
  <2>1. dims[d] = _score_dimension(r, d) /\ Eligible(r, d) # {} BY <1>1, <1>2
  <2> HIDE DEF dims, D
  <2> QED BY <2>1, DimensionScores, SMT
<1>4. IsFiniteSet(D) /\ D \subseteq DOMAIN Share
  <2>1. D \subseteq DOMAIN Share BY <1>1
  <2> HIDE DEF D
  <2> QED BY <2>1, ScoreAssumption, FS_Subset
<1>5. h = IF D = {} \/ SumFunction(w) = 0 THEN NoScore
          ELSE Rounded(SumFunction(e), 10 * SumFunction(w))
  <2> HIDE DEF dims
  <2> QED BY Zenon DEF _headline, Sum
<1>6. SumFunction(w) = Total(w, D)
  <2>1. DOMAIN w = D OBVIOUS
  <2> HIDE DEF w, D
  <2> QED BY <2>1, SumUnfolds
<1>7. SumFunction(e) = Total(e, D)
  <2>1. DOMAIN e = D OBVIOUS
  <2> HIDE DEF e, D, dims
  <2> QED BY <2>1, SumUnfolds
<1>8. \A d \in D : w[d] \in Nat \ {0} /\ w[d] = Share[d] BY <1>4, ScoreAssumption
<1>9. \A d \in D : e[d] \in Nat /\ v[d] \in Nat /\ e[d] <= v[d]
  <2>0. \A d \in D : e[d] = dims[d].score * w[d] /\ v[d] = 1000000 * w[d]
    <3> HIDE DEF D, dims
    <3> QED BY SMT
  <2> HIDE DEF e, v, w, D, dims
  <2> SUFFICES ASSUME NEW d \in D PROVE e[d] \in Nat /\ v[d] \in Nat /\ e[d] <= v[d]
    BY SMT
  <2> DEFINE s == dims[d].score
             n == w[d]
  <2>1. s \in Nat /\ s <= 1000000 BY <1>3
  <2>2. n \in Nat BY <1>8
  <2>3. e[d] = s * n /\ v[d] = 1000000 * n BY <2>0, SMT
  <2> HIDE DEF s, n
  <2>4. s * n <= 1000000 * n /\ s * n \in Nat BY <2>1, <2>2, SMT
  <2> QED BY <2>2, <2>3, <2>4, SMT
<1>10. \A d \in D : v[d] = 1000000 * w[d] /\ z[d] = 0
  <2> HIDE DEF D
  <2> QED BY SMT
<1> HIDE DEF w, e, v, z, D, dims, h
<1>11. Total(w, D) \in Nat /\ (D # {} => Total(w, D) > 0)
  BY <1>4, <1>8, TotalPositive
<1>12. Total(v, D) = 1000000 * Total(w, D)
  <2>1. 1000000 \in Nat /\ \A d \in D : w[d] \in Int /\ v[d] = 1000000 * w[d] BY <1>8, <1>10, SMT
  <2> QED BY <1>4, <2>1, TotalTimes, SMT
<1>13. Total(e, D) \in Int /\ Total(e, D) <= Total(v, D)
  <2>1. \A d \in D : e[d] \in Int /\ v[d] \in Int /\ e[d] <= v[d] BY <1>9, SMT
  <2> QED BY <1>4, <2>1, TotalAtMost, SMT
<1>14. Total(z, D) = 0 /\ Total(z, D) <= Total(e, D)
  <2>1. 0 \in Nat /\ \A d \in D : w[d] \in Int /\ z[d] = 0 * w[d] BY <1>8, <1>10, SMT
  <2>2. Total(z, D) = 0 * Total(w, D) BY <1>4, <2>1, TotalTimes, SMT
  <2>3. \A d \in D : z[d] \in Int /\ e[d] \in Int /\ z[d] <= e[d] BY <1>9, <1>10, SMT
  <2>4. Total(z, D) <= Total(e, D) BY <1>4, <2>3, TotalAtMost, SMT
  <2> QED BY <1>11, <2>2, <2>4, SMT
<1>15. CASE D = {}
  <2>1. h = NoScore BY <1>5, <1>15
  <2> QED BY <2>1, <1>2, <1>15, NoScoreIsInt, SMT DEF h, dims
<1>16. CASE D # {}
  <2> DEFINE a == Total(e, D)
             b == 10 * Total(w, D)
  <2>1. a \in Nat /\ b \in Nat \ {0} /\ 100000 \in Nat /\ a <= 100000 * b
    BY <1>11, <1>12, <1>13, <1>14, <1>16, SMT
  <2>2. h = Rounded(a, b)
    BY <1>5, <1>6, <1>7, <1>11, <1>16, SMT
  <2> HIDE DEF a, b
  <2>3. h \in Nat /\ h <= 100000 BY <2>1, <2>2, RoundedBounds, SMT
  <2> QED BY <2>3, NoScoreIsInt, SMT DEF h, dims
<1> QED BY <1>15, <1>16

(* What the score of a run says of its results.                                    *)
LEMMA ScoreSays ==
  ASSUME NEW results, NEW erp
  PROVE  LET r == _normalize_results(results, erp)
             s == assemble_dcs_score(results, erp)
         IN /\ s.headline \in Int
            /\ \A d \in DOMAIN s.dims : s.dims[d].score \in Int
            /\ s.headline # NoScore => Unblocked(r)
            /\ s.headline = NoScore =>
                 \/ _blocking_gate_failures(r, erp) # {}
                 \/ \A d \in ScoredDimensions(erp) : Eligible(r, d) = {}
<1> DEFINE r == _normalize_results(results, erp)
           s == assemble_dcs_score(results, erp)
           F == _blocking_gate_failures(r, erp)
           dims == _score_dimensions(r, erp)
           h == _headline(dims)
<1>1. CASE F # {}
  <2>1. s.headline = NoScore /\ s.dims = <<>> BY <1>1, SMT DEF assemble_dcs_score
  <2> HIDE DEF s, r
  <2> QED BY <2>1, <1>1, NoScoreIsInt, SMT DEF s, r
<1>2. CASE F = {}
  <2>1. s.headline = h /\ s.dims = dims BY <1>2, SMT DEF assemble_dcs_score
  <2>2. h \in Int /\ (h = NoScore => \A d \in ScoredDimensions(erp) : Eligible(r, d) = {})
    <3> HIDE DEF r
    <3> QED BY Headlines
  <2>3. \A d \in DOMAIN dims : dims[d].score \in Int
    <3> HIDE DEF r
    <3>1. \A d \in DOMAIN dims : dims[d] = _score_dimension(r, d) BY DEF _score_dimensions
    <3> QED BY <3>1, DimensionScores
  <2>4. Unblocked(r)
    <3> HIDE DEF r
    <3> QED BY <1>2, ScoreAssumption DEF Unblocked, _blocking_gate_failures, BLOCKING_GATE_IDS_ERP
  <2> HIDE DEF s, r, h, dims
  <2> QED BY <2>1, <2>2, <2>3, <2>4, SMT DEF s, r
<1> QED BY <1>1, <1>2

-----------------------------------------------------------------------------
(* A score is earned.                                                               *)

(* How far rounding goes, and that it keeps the order.                               *)
LEMMA RoundedNear ==
  ASSUME NEW a \in Nat, NEW b \in Nat \ {0}
  PROVE  /\ Rounded(a, b) \in Nat
         /\ 2 * (b * Rounded(a, b)) <= 2 * a + b
         /\ 2 * a < 2 * (b * Rounded(a, b)) + b + 1
<1> DEFINE x == a + b \div 2
           q == x \div b
<1>1. b \div 2 \in Nat /\ 2 * (b \div 2) <= b /\ b <= 2 * (b \div 2) + 1 OBVIOUS
<1>2. x \in Nat BY <1>1
<1>3. Rounded(a, b) = q BY DEF Rounded
<1>4. q \in Int /\ b * q <= x /\ x < b * q + b
  <2> HIDE DEF x
  <2> QED BY <1>2
<1>5. q \in Nat
  <2>1. ASSUME q <= -1 PROVE FALSE
    <3>1. b * q <= b * (-1) BY <1>4, <2>1
    <3> QED BY <1>2, <1>4, <3>1
  <2> QED BY <1>4, <2>1
<1> DEFINE m == b * q
<1>6. m \in Int /\ m <= x /\ x < m + b
  <2>1. m \in Int BY <1>5
  <2> QED BY <2>1, <1>4
<1>7. 2 * m <= 2 * a + b /\ 2 * a < 2 * m + b + 1
  <2>1. x = a + b \div 2 OBVIOUS
  <2> HIDE DEF x, m
  <2> QED BY <1>1, <1>6, <2>1
<1> HIDE DEF q
<1> QED BY <1>3, <1>5, <1>7

(* What is not less is not less when it is rounded.                                    *)
LEMMA RoundedKeepsOrder ==
  ASSUME NEW a \in Nat, NEW c \in Nat, a <= c, NEW b \in Nat \ {0}
  PROVE  Rounded(a, b) <= Rounded(c, b)
<1> DEFINE x == a + b \div 2
           y == c + b \div 2
           p == x \div b
           q == y \div b
<1>1. b \div 2 \in Nat OBVIOUS
<1>2. x \in Nat /\ y \in Nat /\ x <= y BY <1>1
<1>3. /\ p \in Int /\ b * p <= x /\ x < b * p + b
      /\ q \in Int /\ b * q <= y /\ y < b * q + b
  <2> HIDE DEF x, y
  <2> QED BY <1>2
<1>4. Rounded(a, b) = p /\ Rounded(c, b) = q BY DEF Rounded
<1> HIDE DEF p, q, x, y
<1>5. ASSUME q + 1 <= p PROVE FALSE
  <2>1. b * (q + 1) <= b * p BY <1>3, <1>5
  <2>2. b * (q + 1) = b * q + b BY <1>3
  <2> QED BY <1>2, <1>3, <2>1, <2>2
<1> QED BY <1>3, <1>4, <1>5

(* A sum does not depend on what is picked first.                                    *)
LEMMA TotalAny ==
  ASSUME NEW S, IsFiniteSet(S), NEW w, \A x \in S : w[x] \in Int, NEW x \in S
  PROVE  Total(w, S) = w[x] + Total(w, S \ {x})
<1> DEFINE Bad == {t \in SUBSET S : \E y \in t : ~(Total(w, t) = w[y] + Total(w, t \ {y}))}
<1>1. ASSUME Bad # {} PROVE FALSE
  <2>1. PICK t : IsSmallest(t, Bad)
    <3>1. \A t \in Bad : t \subseteq S OBVIOUS
    <3> HIDE DEF Bad
    <3> QED BY <1>1, <3>1, Smallest, Zenon
  <2>2. t \subseteq S /\ \E y \in t : ~(Total(w, t) = w[y] + Total(w, t \ {y})) BY <2>1 DEF IsSmallest
  <2>3. PICK y \in t : ~(Total(w, t) = w[y] + Total(w, t \ {y})) BY <2>2
  <2>4. \A u : u \subseteq t /\ u # t => u \notin Bad BY <2>1, Zenon DEF IsSmallest
  <2>5. \A u : u \subseteq t /\ u # t => \A z \in u : Total(w, u) = w[z] + Total(w, u \ {z})
    <3> SUFFICES ASSUME NEW u, u \subseteq t, u # t, NEW z \in u
                 PROVE  Total(w, u) = w[z] + Total(w, u \ {z})
      OBVIOUS
    <3>1. u \notin Bad /\ u \in SUBSET S BY <2>2, <2>4
    <3> QED BY <3>1
  <2> HIDE DEF Bad
  <2> DEFINE p == Picked(t)
             r == (t \ {p}) \ {y}
  <2>6. p \in t /\ Total(w, t) = w[p] + Total(w, t \ {p})
    <3>1. IsFiniteSet(t) BY <2>2, FS_Subset
    <3> QED BY <2>2, <3>1, TotalSteps
  <2>7. p # y BY <2>3, <2>6
  <2> HIDE DEF p
  <2>8. Total(w, t \ {p}) = w[y] + Total(w, r)
    <3>1. t \ {p} \subseteq t /\ t \ {p} # t /\ y \in t \ {p} BY <2>6, <2>7
    <3> QED BY <2>5, <3>1
  <2>9. Total(w, t \ {y}) = w[p] + Total(w, r)
    <3>1. t \ {y} \subseteq t /\ t \ {y} # t /\ p \in t \ {y} BY <2>6, <2>7
    <3>2. (t \ {y}) \ {p} = r OBVIOUS
    <3> HIDE DEF r
    <3> QED BY <2>5, <3>1, <3>2
  <2>10. w[p] \in Int /\ w[y] \in Int /\ Total(w, r) \in Int
    <3>1. IsFiniteSet(r) /\ \A z \in r : w[z] \in Int
      <4>1. r \subseteq S BY <2>2
      <4> HIDE DEF r
      <4> QED BY <4>1, FS_Subset
    <3> HIDE DEF r
    <3> QED BY <2>2, <2>6, <3>1, TotalIsInt
  <2> HIDE DEF r
  <2> QED BY <2>3, <2>6, <2>8, <2>9, <2>10
<1>2. S \notin Bad BY <1>1
<1> QED BY <1>2

(* A sum over a part of a set is not larger than the whole one, if nothing is negative. *)
LEMMA TotalOfPart ==
  ASSUME NEW S, IsFiniteSet(S), NEW w, \A x \in S : w[x] \in Nat, NEW T \in SUBSET S
  PROVE  Total(w, T) \in Int /\ Total(w, S) \in Int /\ Total(w, T) <= Total(w, S)
<1>0. \A U \in SUBSET S : IsFiniteSet(U) /\ Total(w, U) \in Int
  <2> SUFFICES ASSUME NEW U \in SUBSET S PROVE IsFiniteSet(U) /\ Total(w, U) \in Int OBVIOUS
  <2>1. IsFiniteSet(U) BY FS_Subset
  <2>2. \A x \in U : w[x] \in Int OBVIOUS
  <2> QED BY <2>1, <2>2, TotalIsInt
<1> DEFINE Bad == {t \in SUBSET S : T \subseteq t /\ ~(Total(w, T) <= Total(w, t))}
<1>1. ASSUME Bad # {} PROVE FALSE
  <2>1. PICK t : IsSmallest(t, Bad)
    <3>1. \A t \in Bad : t \subseteq S OBVIOUS
    <3> HIDE DEF Bad
    <3> QED BY <1>1, <3>1, Smallest, Zenon
  <2>2. t \subseteq S /\ T \subseteq t /\ ~(Total(w, T) <= Total(w, t)) BY <2>1 DEF IsSmallest
  <2>3. t # T BY <1>0, <2>2
  <2>4. PICK x \in t : x \notin T BY <2>2, <2>3
  <2>5. t \ {x} \notin Bad
    <3>1. t \ {x} \subseteq t /\ t \ {x} # t OBVIOUS
    <3> HIDE DEF Bad
    <3> QED BY <2>1, <3>1, Zenon DEF IsSmallest
  <2>6. Total(w, T) <= Total(w, t \ {x}) BY <2>2, <2>4, <2>5
  <2> HIDE DEF Bad
  <2>7. Total(w, t) = w[x] + Total(w, t \ {x})
    <3>1. IsFiniteSet(t) /\ \A z \in t : w[z] \in Int BY <1>0, <2>2
    <3> QED BY <3>1, TotalAny
  <2>8. w[x] \in Nat /\ Total(w, T) \in Int /\ Total(w, t \ {x}) \in Int BY <1>0, <2>2, <2>4
  <2> QED BY <2>2, <2>6, <2>7, <2>8
<1>2. S \notin Bad BY <1>1
<1> QED BY <1>0, <1>2

(* More checks weigh more, and earn more.                                            *)
LEMMA PartsWeighLess ==
  ASSUME NEW S \in SUBSET Checks, NEW T \in SUBSET S, NEW r
  PROVE  WeightOf(T) <= WeightOf(S) /\ Earned(r, T) <= Earned(r, S)
<1> DEFINE w == [c \in S |-> Weight[c]]
           v == [c \in T |-> Weight[c]]
           e == [c \in S |-> Weight[c] * Halves(r[c].status)]
           f == [c \in T |-> Weight[c] * Halves(r[c].status)]
<1>1. IsFiniteSet(S) /\ IsFiniteSet(T) /\ T \in SUBSET Checks
  <2>1. S \subseteq Checks /\ T \subseteq Checks OBVIOUS
  <2> QED BY <2>1, ScoreAssumption, FS_Subset
<1>2. WeightOf(S) = Total(w, S) /\ WeightOf(T) = Total(v, T)
  <2>1. WeightOf(S) = SumFunction(w) /\ WeightOf(T) = SumFunction(v) BY Zenon DEF WeightOf, Sum
  <2>2. DOMAIN w = S /\ DOMAIN v = T OBVIOUS
  <2> HIDE DEF w, v
  <2> QED BY <2>1, <2>2, SumUnfolds
<1>3. Earned(r, S) = Total(e, S) /\ Earned(r, T) = Total(f, T)
  <2>1. Earned(r, S) = SumFunction(e) /\ Earned(r, T) = SumFunction(f) BY Zenon DEF Earned, Sum
  <2>2. DOMAIN e = S /\ DOMAIN f = T OBVIOUS
  <2> HIDE DEF e, f
  <2> QED BY <2>1, <2>2, SumUnfolds
<1>4. \A c \in S : Weight[c] \in Nat /\ Halves(r[c].status) \in {0, 1, 2}
  BY ScoreAssumption DEF Halves
<1>5. \A c \in S : w[c] \in Nat /\ e[c] \in Nat
  <2> SUFFICES ASSUME NEW c \in S PROVE w[c] \in Nat /\ e[c] \in Nat OBVIOUS
  <2> DEFINE n == Weight[c]
             h == Halves(r[c].status)
  <2>1. w[c] = n /\ e[c] = n * h OBVIOUS
  <2>2. n \in Nat /\ h \in {0, 1, 2} BY <1>4
  <2> HIDE DEF n, h, w, e
  <2> QED BY <2>1, <2>2
<1>6. \A c \in T : v[c] = w[c] /\ f[c] = e[c] OBVIOUS
<1> HIDE DEF w, v, e, f
<1>7. Total(v, T) <= Total(w, T) /\ Total(f, T) <= Total(e, T)
  <2>1. \A c \in T : v[c] \in Int /\ w[c] \in Int /\ v[c] <= w[c] BY <1>5, <1>6
  <2>2. \A c \in T : f[c] \in Int /\ e[c] \in Int /\ f[c] <= e[c] BY <1>5, <1>6
  <2> QED BY <1>1, <2>1, <2>2, TotalAtMost
<1>8. Total(w, T) <= Total(w, S) /\ Total(e, T) <= Total(e, S)
  BY <1>1, <1>5, TotalOfPart
<1>9. /\ Total(v, T) \in Int /\ Total(w, T) \in Int /\ Total(w, S) \in Int
      /\ Total(f, T) \in Int /\ Total(e, T) \in Int /\ Total(e, S) \in Int
  <2>1. \A c \in S : w[c] \in Int /\ e[c] \in Int BY <1>5
  <2>2. \A c \in T : v[c] \in Int /\ f[c] \in Int /\ w[c] \in Int /\ e[c] \in Int BY <1>5, <1>6
  <2> QED BY <1>1, <2>1, <2>2, TotalIsInt
<1> QED BY <1>2, <1>3, <1>7, <1>8, <1>9

(* Four fifths of a dimension were judged if its coverage says so.                     *)
LEMMA CoveredMeansJudged ==
  ASSUME NEW r, NEW d \in DOMAIN Share, Applicable(r, d) # {},
         _score_dimension(r, d).coverage >= COVERAGE_THRESHOLD
  PROVE  /\ Eligible(r, d) # {}
         /\ WeightOf(Applicable(r, d)) \in Nat \ {0} /\ WeightOf(Eligible(r, d)) \in Nat \ {0}
         /\ 5 * WeightOf(Eligible(r, d)) >= 4 * WeightOf(Applicable(r, d))
<1> DEFINE J == Eligible(r, d)
           A == Applicable(r, d)
           k == _score_dimension(r, d).coverage
           all == {c \in Checks : Dimension[c] = d}
<1>1. /\ J \in SUBSET Checks /\ A \in SUBSET Checks /\ all \in SUBSET Checks /\ A \in SUBSET all
      /\ \A c \in J : Weight[c] > 0
      /\ \A c \in A : Weight[c] > 0
  BY DEF Eligible, Applicable, Scored
<1>2. k = IF J = {} THEN 0 ELSE Rounded(10000 * WeightOf(J), WeightOf(A))
  <2>1. CASE J = {}
    <3>1. _score_dimension(r, d) = [score |-> NoScore, coverage |-> IF A = {} THEN 10000 ELSE 0]
      BY <2>1, SMT DEF _score_dimension
    <3>2. A # {} OBVIOUS
    <3> HIDE DEF J, A
    <3> QED BY <2>1, <3>1, <3>2, SMT
  <2>2. CASE J # {}
    <3>1. _score_dimension(r, d) = [score |-> Rounded(500000 * Earned(r, J), WeightOf(J)),
                                    coverage |-> Rounded(10000 * WeightOf(J), WeightOf(A))]
      BY <2>2, SMT DEF _score_dimension
    <3> HIDE DEF J, A
    <3> QED BY <2>2, <3>1, SMT
  <2> QED BY <2>1, <2>2
<1>3. k >= 8000 BY DEF COVERAGE_THRESHOLD
<1>4. WeightOf(all) < 4000 BY RoundingAssumption
<1> HIDE DEF J, A, all, k
<1>5. A # {} BY DEF A
<1>6. J # {} BY <1>2, <1>3, SMT
<1>7. WeightOf(J) \in Nat \ {0} /\ WeightOf(A) \in Nat \ {0} /\ WeightOf(all) \in Nat
  <2>1. WeightOf(J) \in Nat /\ WeightOf(J) > 0 /\ Earned(r, J) \in Nat BY <1>1, <1>6, Weights
  <2>2. WeightOf(A) \in Nat /\ WeightOf(A) > 0 /\ Earned(r, A) \in Nat BY <1>1, <1>5, Weights
  <2>3. WeightOf(all) \in Nat /\ Earned(r, all) \in Nat BY <1>1, Weights
  <2> QED BY <2>1, <2>2, <2>3
<1>8. WeightOf(A) <= WeightOf(all) /\ Earned(r, A) <= Earned(r, all) BY <1>1, PartsWeighLess
<1> DEFINE a == WeightOf(A)
           j == WeightOf(J)
           n == 10000 * j
<1>9. a \in Nat \ {0} /\ j \in Nat \ {0} /\ a < 4000 BY <1>4, <1>7, <1>8, SMT
<1>10. k = Rounded(n, a) BY <1>2, <1>6, SMT
<1>11. n \in Nat /\ n = 10000 * j BY <1>9, SMT
<1> HIDE DEF a, j, n
<1>12. k \in Nat /\ 2 * (a * k) <= 2 * n + a BY <1>9, <1>10, <1>11, RoundedNear, SMT
<1>13. a * 8000 <= a * k BY <1>3, <1>9, <1>12, SMT
<1>14. 5 * j >= 4 * a
  <2> DEFINE m == a * k
  <2>1. m \in Int /\ 2 * m <= 2 * n + a /\ 8000 * a <= m BY <1>9, <1>12, <1>13, SMT
  <2> HIDE DEF m
  <2> QED BY <1>9, <1>11, <2>1, SMT
<1> QED BY <1>6, <1>7, <1>14 DEF J, A, a, j

(* What a covered dimension has earned of all that applies is nearly its score.        *)
LEMMA CoveredScore ==
  ASSUME NEW r, NEW d \in DOMAIN Share, Applicable(r, d) # {},
         _score_dimension(r, d).coverage >= COVERAGE_THRESHOLD
  PROVE  LET A == Applicable(r, d)
             s == _score_dimension(r, d).score
             g == (50 * Earned(r, A)) \div WeightOf(A) + 1
         IN s \in Nat /\ g \in Nat /\ 25000 * g >= 2 * s
<1> DEFINE J == Eligible(r, d)
           A == Applicable(r, d)
           s == _score_dimension(r, d).score
           a == WeightOf(A)
           j == WeightOf(J)
           e == Earned(r, J)
           u == Earned(r, A)
           f == (50 * u) \div a
           g == f + 1
<1>1. J # {} /\ a \in Nat \ {0} /\ j \in Nat \ {0} /\ 5 * j >= 4 * a BY CoveredMeansJudged
<1>2. A \in SUBSET Checks /\ J \in SUBSET A
  BY DEF Eligible, Applicable, Scored, ELIGIBLE_STATUSES
<1>3. s = Rounded(500000 * e, j) BY <1>1, SMT DEF _score_dimension
<1>4. e \in Nat /\ u \in Nat /\ e <= u
  <2>1. J \in SUBSET Checks BY <1>2
  <2> HIDE DEF J, A
  <2> QED BY <1>2, <2>1, Weights, PartsWeighLess
<1> HIDE DEF J, A, s, a, j, e, u
<1>5. s \in Nat /\ 2 * (j * s) <= 1000000 * e + j
  <2> DEFINE n == 500000 * e
  <2>1. n \in Nat BY <1>4, SMT
  <2>2. s = Rounded(n, j) BY <1>3
  <2>3. 2 * n = 1000000 * e BY <1>4, SMT
  <2> HIDE DEF n
  <2> QED BY <1>1, <2>1, <2>2, <2>3, RoundedNear, SMT
<1>6. f \in Int /\ a * f <= 50 * u /\ 50 * u < a * f + a
  <2> DEFINE x == 50 * u
  <2>1. x \in Nat BY <1>4, SMT
  <2> HIDE DEF x
  <2> SUFFICES (x \div a) \in Int /\ a * (x \div a) <= x /\ x < a * (x \div a) + a BY DEF x
  <2> QED BY <1>1, <2>1, SMT
<1>7. f \in Nat
  <2>1. ASSUME f <= -1 PROVE FALSE
    <3> HIDE DEF f
    <3>1. a * f <= a * (-1) BY <1>1, <1>6, <2>1, SMT
    <3> QED BY <1>1, <1>4, <1>6, <3>1, SMT
  <2> HIDE DEF f
  <2> QED BY <1>6, <2>1, SMT
<1> HIDE DEF f
<1>8. g \in Nat /\ 50 * u + 1 <= a * g
  <2>1. a * g = a * f + a BY <1>1, <1>7, SMT
  <2>2. a * f \in Int BY <1>1, <1>7, SMT
  <2> QED BY <1>1, <1>4, <1>6, <1>7, <2>1, <2>2, SMT
<1> HIDE DEF g
<1>9. ASSUME 25000 * g <= 2 * s - 1 PROVE FALSE
  <2>1. j * (25000 * g) <= j * (2 * s - 1) BY <1>1, <1>5, <1>8, <1>9, SMT
  <2>2. j * (25000 * g) = 25000 * (j * g) /\ j * (2 * s - 1) = 2 * (j * s) - j
    BY <1>1, <1>5, <1>8, SMT
  <2>3. 5 * (j * g) >= 4 * (a * g)
    <3>1. (5 * j) * g >= (4 * a) * g BY <1>1, <1>8, SMT
    <3> QED BY <1>1, <1>8, <3>1, SMT
  <2> DEFINE p == j * g
             q == a * g
             m == j * s
  <2>4. p \in Int /\ q \in Int /\ m \in Int BY <1>1, <1>5, <1>8, SMT
  <2>5. 25000 * p <= 2 * m - j /\ 5 * p >= 4 * q /\ 2 * m <= 1000000 * e + j /\ 50 * u + 1 <= q
    BY <1>5, <1>8, <2>1, <2>2, <2>3, SMT
  <2> HIDE DEF p, q, m
  <2> QED BY <1>1, <1>4, <2>4, <2>5, SMT
<1>10. 25000 * g >= 2 * s BY <1>5, <1>8, <1>9, SMT
<1> QED BY <1>5, <1>8, <1>10 DEF g, s, A, f, u, a

(* A coverage is a number.                                                            *)
LEMMA CoverageIsInt ==
  ASSUME NEW r, NEW d
  PROVE  _score_dimension(r, d).coverage \in Int
<1> DEFINE J == Eligible(r, d)
           A == Applicable(r, d)
           k == _score_dimension(r, d).coverage
<1>1. CASE J = {}
  <2>1. _score_dimension(r, d) = [score |-> NoScore, coverage |-> IF A = {} THEN 10000 ELSE 0]
    BY <1>1, SMT DEF _score_dimension
  <2> HIDE DEF J, A
  <2> QED BY <2>1, SMT
<1>2. CASE J # {}
  <2>1. _score_dimension(r, d) = [score |-> Rounded(500000 * Earned(r, J), WeightOf(J)),
                                  coverage |-> Rounded(10000 * WeightOf(J), WeightOf(A))]
    BY <1>2, SMT DEF _score_dimension
  <2>2. A \in SUBSET Checks /\ J \in SUBSET A /\ \A c \in A : Weight[c] > 0
    BY DEF Eligible, Applicable, Scored, ELIGIBLE_STATUSES
  <2> HIDE DEF J, A
  <2>3. J \in SUBSET Checks /\ A # {} BY <1>2, <2>2
  <2>4. WeightOf(J) \in Nat /\ Earned(r, J) \in Nat BY <2>3, Weights
  <2>5. WeightOf(A) \in Nat /\ WeightOf(A) > 0 /\ Earned(r, A) \in Nat BY <2>2, <2>3, Weights
  <2> DEFINE n == 10000 * WeightOf(J)
             a == WeightOf(A)
  <2>6. n \in Nat /\ a \in Nat \ {0} BY <2>4, <2>5, SMT
  <2>7. k = Rounded(n, a) BY <2>1, SMT
  <2> HIDE DEF n, a, k
  <2>8. k \in Nat BY <2>6, <2>7, RoundedNear
  <2> QED BY <2>8 DEF k
<1> QED BY <1>1, <1>2

(* The states of a score, from its headline (_run_state_from_score).                   *)
LEMMA StateByHeadline ==
  ASSUME NEW h, NEW erp
  PROVE  LET s == _run_state_from_score(h, erp)
             v == IF erp THEN "READY" ELSE "CONDITIONALLY_READY"
         IN /\ h = NoScore => s = "BLOCKED"
            /\ h # NoScore /\ h >= 90000 => s = v
            /\ h # NoScore /\ ~(h >= 90000) /\ h >= 70000 => s = "CONDITIONALLY_READY"
            /\ h # NoScore /\ ~(h >= 90000) /\ ~(h >= 70000) /\ h >= 50000 => s = "REMEDIATE"
            /\ h # NoScore /\ ~(h >= 90000) /\ ~(h >= 70000) /\ ~(h >= 50000) => s = "BLOCKED"
<1> DEFINE a == h = NoScore
           b == h >= 90000
           c == h >= 70000
           d == h >= 50000
           v == IF erp THEN "READY" ELSE "CONDITIONALLY_READY"
           s == _run_state_from_score(h, erp)
<1>1. s = FirstRule(<< <<a, "BLOCKED">>, <<b, v>>, <<c, "CONDITIONALLY_READY">>,
                       <<d, "REMEDIATE">>, <<TRUE, "BLOCKED">> >>)
  BY DEF _run_state_from_score
<1> HIDE DEF a, b, c, d, v, s
<1> DEFINE r == << <<a, "BLOCKED">>, <<b, v>>, <<c, "CONDITIONALLY_READY">>,
                   <<d, "REMEDIATE">>, <<TRUE, "BLOCKED">> >>
<1>3. DOMAIN r = 1..5 OBVIOUS
<1>4. r[5][1]
  <2>1. r[5][1] = TRUE BY Zenon
  <2> QED BY <2>1, Zenon
<1>5. /\ r[1][1] = a /\ r[2][1] = b /\ r[3][1] = c /\ r[4][1] = d
      /\ r[1][2] = "BLOCKED" /\ r[2][2] = v /\ r[3][2] = "CONDITIONALLY_READY"
      /\ r[4][2] = "REMEDIATE" /\ r[5][2] = "BLOCKED"
  OBVIOUS
<1>6. s = FirstRule(r) BY <1>1
<1> HIDE DEF r
<1>7. FirstRule(r) = IF r[1][1] THEN r[1][2] ELSE IF r[2][1] THEN r[2][2]
                     ELSE IF r[3][1] THEN r[3][2] ELSE IF r[4][1] THEN r[4][2] ELSE r[5][2]
  BY <1>3, <1>4, FiveRules, Zenon
<1>8. s = IF a THEN "BLOCKED" ELSE IF b THEN v ELSE IF c THEN "CONDITIONALLY_READY"
          ELSE IF d THEN "REMEDIATE" ELSE "BLOCKED"
  BY <1>5, <1>6, <1>7, Zenon
<1>9. /\ a => s = "BLOCKED"
      /\ ~a /\ b => s = v
      /\ ~a /\ ~b /\ c => s = "CONDITIONALLY_READY"
      /\ ~a /\ ~b /\ ~c /\ d => s = "REMEDIATE"
      /\ ~a /\ ~b /\ ~c /\ ~d => s = "BLOCKED"
  BY <1>8, Zenon
<1> QED BY <1>9, SMT DEF a, b, c, d, v, s

(* A company is ready by its headline, without a failed gate and with what is required  *)
(* covered.                                                                           *)
LEMMA ReadySays ==
  ASSUME NEW r, NEW erp, _normalize_results(r, erp) = r,
         assemble_dcs_score(r, erp).state \in {"READY", "CONDITIONALLY_READY"}
  PROVE  LET dims == _score_dimensions(r, erp)
             h == _headline(dims)
         IN /\ _blocking_gate_failures(r, erp) = {}
            /\ \A d \in DOMAIN Share \ {BR} :
                 _score_dimension(r, d).coverage >= COVERAGE_THRESHOLD
            /\ h # NoScore /\ h >= 70000
<1> DEFINE F == _blocking_gate_failures(r, erp)
           dims == _score_dimensions(r, erp)
           h == _headline(dims)
           s == assemble_dcs_score(r, erp)
           t == _run_state_from_score(h, erp)
<1>1. s = IF F # {}
          THEN [state |-> "BLOCKED", headline |-> NoScore, dims |-> <<>>,
                blocked |-> Cardinality(F), missing |-> {}]
          ELSE [state |-> IF _required_coverage_incomplete(dims) THEN "INCOMPLETE" ELSE t,
                headline |-> h, dims |-> dims, blocked |-> 0,
                missing |-> {c \in Checks : /\ r[c].status = "UNKNOWN"
                                            /\ r[c].reason = "MISSING_INPUT"}]
  BY Zenon DEF assemble_dcs_score
<1>2. s.state = IF F # {} THEN "BLOCKED"
                ELSE IF _required_coverage_incomplete(dims) THEN "INCOMPLETE" ELSE t
  <2> HIDE DEF F, dims, h, t, s
  <2> QED BY <1>1
<1>3. s.state \in {"READY", "CONDITIONALLY_READY"} OBVIOUS
<1> HIDE DEF s
<1>4. F = {} /\ ~_required_coverage_incomplete(dims) /\ t \in {"READY", "CONDITIONALLY_READY"}
  <2> HIDE DEF F, dims, h, t
  <2> QED BY <1>2, <1>3
<1>5. h # NoScore /\ h >= 70000
  <2>1. h \in Int BY Headlines
  <2>2. t \in {"READY", "CONDITIONALLY_READY"} BY <1>4
  <2> HIDE DEF h
  <2> QED BY <2>1, <2>2, StateByHeadline, SMT
<1>6. \A d \in DOMAIN Share \ {BR} : _score_dimension(r, d).coverage >= COVERAGE_THRESHOLD
  <2> SUFFICES ASSUME NEW d \in DOMAIN Share \ {BR}
               PROVE  _score_dimension(r, d).coverage >= COVERAGE_THRESHOLD
    OBVIOUS
  <2>1. d \in ScoredDimensions(erp) BY DEF ScoredDimensions
  <2>2. dims[d] = _score_dimension(r, d) BY <2>1 DEF _score_dimensions
  <2>3. ~(dims[d].coverage < COVERAGE_THRESHOLD) BY <1>4 DEF _required_coverage_incomplete
  <2> HIDE DEF dims
  <2> QED BY <2>2, <2>3, CoverageIsInt, SMT DEF COVERAGE_THRESHOLD
<1> QED BY <1>4, <1>5, <1>6

(* Where Business Reality is out of scope, a company that is ready earned 56 percent of *)
(* everything that applies.                                                            *)
LEMMA ReadyIsEarned ==
  ASSUME NEW r, NEW erp, ~erp, _normalize_results(r, erp) = r,
         assemble_dcs_score(r, erp).state \in {"READY", "CONDITIONALLY_READY"},
         NEW told, told = {d \in DOMAIN Share \ {BR} : Applicable(r, d) # {}}
  PROVE  Sum(told, LAMBDA d : Share[d] *
               ((50 * Earned(r, Applicable(r, d))) \div WeightOf(Applicable(r, d)) + 1))
           >= 56 * Sum(told, LAMBDA d : Share[d])
<1> DEFINE dims == _score_dimensions(r, erp)
           h == _headline(dims)
           D == {d \in DOMAIN dims : dims[d].score # NoScore}
           w == [d \in D |-> Share[d]]
           e == [d \in D |-> dims[d].score * Share[d]]
           g(d) == (50 * Earned(r, Applicable(r, d))) \div WeightOf(Applicable(r, d)) + 1
           y == [d \in D |-> Share[d] * g(d)]
           m == [d \in D |-> 2 * e[d]]
           n == [d \in D |-> 25000 * y[d]]
           all == [d \in DOMAIN Share |-> Share[d]]
<1>1. /\ \A d \in DOMAIN Share \ {BR} : _score_dimension(r, d).coverage >= COVERAGE_THRESHOLD
      /\ h # NoScore /\ h >= 70000
  <2>1. /\ _normalize_results(r, erp) = r
        /\ assemble_dcs_score(r, erp).state \in {"READY", "CONDITIONALLY_READY"}
    OBVIOUS
  <2> HIDE DEF h, dims
  <2> QED BY <2>1, ReadySays DEF h, dims
<1>2. DOMAIN dims = DOMAIN Share \ {BR} /\ \A d \in DOMAIN Share \ {BR} : dims[d] = _score_dimension(r, d)
  BY DEF _score_dimensions, ScoredDimensions
<1>3. D = told
  <2>1. ASSUME NEW d \in DOMAIN Share \ {BR} PROVE d \in D <=> d \in told
    <3>1. dims[d] = _score_dimension(r, d) /\ d \in DOMAIN dims BY <1>2
    <3>2. Eligible(r, d) \subseteq Applicable(r, d)
      BY DEF Eligible, Applicable, Scored, ELIGIBLE_STATUSES
    <3>3. d \in told => Eligible(r, d) # {} BY <1>1, CoveredMeansJudged
    <3>4. dims[d].score # NoScore <=> Eligible(r, d) # {}
      <4> HIDE DEF dims
      <4> QED BY <3>1, DimensionScores, SMT
    <3> HIDE DEF dims
    <3> QED BY <3>1, <3>2, <3>3, <3>4
  <2>2. D \subseteq DOMAIN Share \ {BR} /\ told \subseteq DOMAIN Share \ {BR} BY <1>2
  <2> HIDE DEF D
  <2> QED BY <2>1, <2>2
<1>4. D \subseteq DOMAIN Share /\ IsFiniteSet(D)
  <2>1. D \subseteq DOMAIN Share BY <1>2
  <2> HIDE DEF D
  <2> QED BY <2>1, ScoreAssumption, FS_Subset
<1>5. \A d \in D : dims[d].score \in Nat /\ g(d) \in Nat /\ 25000 * g(d) >= 2 * dims[d].score
  <2> SUFFICES ASSUME NEW d \in D
               PROVE  dims[d].score \in Nat /\ g(d) \in Nat /\ 25000 * g(d) >= 2 * dims[d].score
    OBVIOUS
  <2>1. d \in DOMAIN Share \ {BR} /\ Applicable(r, d) # {} BY <1>3
  <2>2. dims[d].score = _score_dimension(r, d).score BY <1>2, <2>1
  <2> HIDE DEF dims, D
  <2>3. /\ _score_dimension(r, d).score \in Nat /\ g(d) \in Nat
        /\ 25000 * g(d) >= 2 * _score_dimension(r, d).score
    <3>1. d \in DOMAIN Share /\ _score_dimension(r, d).coverage >= COVERAGE_THRESHOLD BY <1>1, <2>1
    <3> QED BY <2>1, <3>1, CoveredScore, SMT DEF g
  <2> HIDE DEF g
  <2> QED BY <2>2, <2>3, SMT
<1>6. h = IF D = {} \/ SumFunction(w) = 0 THEN NoScore
          ELSE Rounded(SumFunction(e), 10 * SumFunction(w))
  <2> HIDE DEF dims
  <2> QED BY Zenon DEF _headline, Sum
<1>7. Sum(told, LAMBDA d : Share[d] *
               ((50 * Earned(r, Applicable(r, d))) \div WeightOf(Applicable(r, d)) + 1)) = SumFunction(y)
      /\ Sum(told, LAMBDA d : Share[d]) = SumFunction(w)
  <2> HIDE DEF D
  <2> QED BY <1>3, Zenon DEF Sum
<1>8. SumFunction(all) < 2500
  BY RoundingAssumption, SMT DEF Sum
<1>9. /\ SumFunction(w) = Total(w, D) /\ SumFunction(e) = Total(e, D) /\ SumFunction(y) = Total(y, D)
      /\ SumFunction(all) = Total(all, DOMAIN Share)
  <2>1. DOMAIN w = D /\ DOMAIN e = D /\ DOMAIN y = D /\ DOMAIN all = DOMAIN Share OBVIOUS
  <2> HIDE DEF w, e, y, all, D, dims
  <2> QED BY <2>1, SumUnfolds
<1>10. \A d \in D : w[d] \in Nat \ {0} /\ w[d] = Share[d] /\ w[d] = all[d]
  BY <1>4, ScoreAssumption
<1>11. \A d \in D : e[d] = dims[d].score * w[d] /\ y[d] = w[d] * g(d) /\ m[d] = 2 * e[d] /\ n[d] = 25000 * y[d]
  <2> HIDE DEF D, dims, g
  <2> QED BY SMT
<1>12. \A d \in DOMAIN Share : all[d] \in Nat BY ScoreAssumption
<1> HIDE DEF D, dims, g, w, e, y, m, n, all, h
<1>13. \A d \in D : e[d] \in Nat /\ y[d] \in Nat /\ m[d] \in Nat /\ n[d] \in Nat /\ m[d] <= n[d]
  <2> SUFFICES ASSUME NEW d \in D
               PROVE  e[d] \in Nat /\ y[d] \in Nat /\ m[d] \in Nat /\ n[d] \in Nat /\ m[d] <= n[d]
    OBVIOUS
  <2> DEFINE s == dims[d].score
             k == g(d)
             x == w[d]
  <2>1. s \in Nat /\ k \in Nat /\ 2 * s <= 25000 * k BY <1>5
  <2>2. x \in Nat BY <1>10
  <2>3. e[d] = s * x /\ y[d] = x * k /\ m[d] = 2 * e[d] /\ n[d] = 25000 * y[d] BY <1>11
  <2> HIDE DEF s, k, x
  <2>4. (2 * s) * x <= (25000 * k) * x BY <2>1, <2>2, SMT
  <2>5. (2 * s) * x = 2 * (s * x) /\ (25000 * k) * x = 25000 * (x * k) BY <2>1, <2>2, SMT
  <2>6. s * x \in Nat /\ x * k \in Nat BY <2>1, <2>2, SMT
  <2> QED BY <2>3, <2>4, <2>5, <2>6, SMT
<1>14. Total(w, D) \in Nat /\ Total(w, D) <= Total(all, DOMAIN Share)
  <2>1. Total(w, D) \in Nat BY <1>4, <1>10, TotalPositive
  <2>2. Total(w, D) <= Total(all, D)
    <3>1. \A d \in D : w[d] \in Int /\ all[d] \in Int /\ w[d] <= all[d] BY <1>10
    <3> QED BY <1>4, <3>1, TotalAtMost
  <2>3. Total(all, D) \in Int /\ Total(all, DOMAIN Share) \in Int /\ Total(all, D) <= Total(all, DOMAIN Share)
    BY <1>4, <1>12, ScoreAssumption, TotalOfPart
  <2> QED BY <2>1, <2>2, <2>3
<1>15. Total(m, D) = 2 * Total(e, D) /\ Total(e, D) \in Int
  <2>1. 2 \in Nat /\ \A d \in D : e[d] \in Int /\ m[d] = 2 * e[d] BY <1>11, <1>13
  <2> QED BY <1>4, <2>1, TotalTimes
<1>16. Total(n, D) = 25000 * Total(y, D) /\ Total(y, D) \in Int
  <2>1. 25000 \in Nat /\ \A d \in D : y[d] \in Int /\ n[d] = 25000 * y[d] BY <1>11, <1>13, SMT
  <2> QED BY <1>4, <2>1, TotalTimes, SMT
<1>17. Total(m, D) <= Total(n, D)
  <2>1. \A d \in D : m[d] \in Int /\ n[d] \in Int /\ m[d] <= n[d] BY <1>13, SMT
  <2> QED BY <1>4, <2>1, TotalAtMost, SMT
<1>18. Total(e, D) \in Nat
  <2> DEFINE z == [d \in D |-> 0]
  <2>0. \A d \in D : z[d] = 0 OBVIOUS
  <2> HIDE DEF z
  <2>1. 0 \in Nat /\ \A d \in D : w[d] \in Int /\ z[d] = 0 * w[d] BY <1>10, <2>0
  <2>2. Total(w, D) \in Int /\ Total(z, D) = 0 * Total(w, D) BY <1>4, <2>1, TotalTimes
  <2>3. \A d \in D : z[d] \in Int /\ e[d] \in Int /\ z[d] <= e[d] BY <1>13, <2>0
  <2>4. Total(z, D) <= Total(e, D) BY <1>4, <2>3, TotalAtMost
  <2> QED BY <1>15, <2>2, <2>4
<1>19. Total(all, DOMAIN Share) < 2500 BY <1>8, <1>9
<1> DEFINE W == Total(w, D)
           E == Total(e, D)
           Y == Total(y, D)
           b == 10 * W
<1>20. W \in Nat /\ W < 2500 /\ E \in Nat /\ Y \in Int /\ 2 * E <= 25000 * Y
  <2>1. Total(all, DOMAIN Share) \in Int BY <1>12, ScoreAssumption, TotalIsInt
  <2> QED BY <1>14, <1>15, <1>16, <1>17, <1>18, <1>19, <2>1, SMT
<1>21. h = Rounded(E, b) /\ W # 0 BY <1>1, <1>6, <1>9, SMT
<1> HIDE DEF W, E, Y
<1>22. b \in Nat \ {0} BY <1>20, <1>21, SMT
<1>23. b = 10 * W OBVIOUS
<1> HIDE DEF b
<1>24. h \in Nat /\ 2 * (b * h) <= 2 * E + b BY <1>20, <1>21, <1>22, RoundedNear, SMT
<1>25. b * 70000 <= b * h BY <1>1, <1>22, <1>24, SMT
<1>26. Y >= 56 * W
  <2> DEFINE p == b * h
  <2>1. p \in Int /\ 2 * p <= 2 * E + b /\ 70000 * b <= p BY <1>22, <1>24, <1>25, SMT
  <2> HIDE DEF p
  <2> QED BY <1>20, <1>22, <1>23, <2>1, SMT
<1>27. SumFunction(y) >= 56 * SumFunction(w) BY <1>9, <1>26, Zenon DEF Y, W
<1> QED BY <1>7, <1>27, Zenon

(* The states in their order.                                                       *)
LEMMA StateRanks ==
  /\ StateRank("BLOCKED") = 1 /\ StateRank("INCOMPLETE") = 2 /\ StateRank("REMEDIATE") = 3
  /\ StateRank("CONDITIONALLY_READY") = 4 /\ StateRank("READY") = 5
<1> DEFINE names == <<"BLOCKED", "INCOMPLETE", "REMEDIATE", "CONDITIONALLY_READY", "READY">>
<1>1. /\ names[1] = "BLOCKED" /\ names[2] = "INCOMPLETE" /\ names[3] = "REMEDIATE"
      /\ names[4] = "CONDITIONALLY_READY" /\ names[5] = "READY"
  OBVIOUS
<1>2. \A x : StateRank(x) = CHOOSE n \in 1..5 : names[n] = x BY Zenon DEF StateRank
<1> HIDE DEF names
<1>3. \A n \in 1..5 : n = 1 \/ n = 2 \/ n = 3 \/ n = 4 \/ n = 5 OBVIOUS
<1>4. 1 \in 1..5 /\ 2 \in 1..5 /\ 3 \in 1..5 /\ 4 \in 1..5 /\ 5 \in 1..5 OBVIOUS
<1>5. StateRank("BLOCKED") = 1
  <2>1. PICK n \in 1..5 : names[n] = "BLOCKED" /\ StateRank("BLOCKED") = n BY <1>1, <1>2, <1>4
  <2> QED BY <1>1, <1>3, <2>1
<1>6. StateRank("INCOMPLETE") = 2
  <2>1. PICK n \in 1..5 : names[n] = "INCOMPLETE" /\ StateRank("INCOMPLETE") = n BY <1>1, <1>2, <1>4
  <2> QED BY <1>1, <1>3, <2>1
<1>7. StateRank("REMEDIATE") = 3
  <2>1. PICK n \in 1..5 : names[n] = "REMEDIATE" /\ StateRank("REMEDIATE") = n BY <1>1, <1>2, <1>4
  <2> QED BY <1>1, <1>3, <2>1
<1>8. StateRank("CONDITIONALLY_READY") = 4
  <2>1. PICK n \in 1..5 : names[n] = "CONDITIONALLY_READY" /\ StateRank("CONDITIONALLY_READY") = n
    BY <1>1, <1>2, <1>4
  <2> QED BY <1>1, <1>3, <2>1
<1>9. StateRank("READY") = 5
  <2>1. PICK n \in 1..5 : names[n] = "READY" /\ StateRank("READY") = n BY <1>1, <1>2, <1>4
  <2> QED BY <1>1, <1>3, <2>1
<1> QED BY <1>5, <1>6, <1>7, <1>8, <1>9

(* Two runs that judged the same checks.                                             *)
LEMMA SameJudged ==
  ASSUME NEW r, NEW q, NoWorse(r, q)
  PROVE  /\ \A c \in Checks : /\ r[c].status = "FAIL" => q[c].status = "FAIL"
                              /\ Halves(q[c].status) <= Halves(r[c].status)
                              /\ Halves(q[c].status) \in {0, 1, 2} /\ Halves(r[c].status) \in {0, 1, 2}
         /\ \A d : Eligible(r, d) = Eligible(q, d) /\ Applicable(r, d) = Applicable(q, d)
<1>1. Grade["FAIL"] = 0 /\ Grade["WARN"] = 1 /\ Grade["PASS"] = 2
  BY DEF Grade, ELIGIBLE_STATUSES
<1>2. ASSUME NEW c \in Checks
      PROVE  /\ r[c].status = "FAIL" => q[c].status = "FAIL"
             /\ Halves(q[c].status) <= Halves(r[c].status)
             /\ Halves(q[c].status) \in {0, 1, 2} /\ Halves(r[c].status) \in {0, 1, 2}
             /\ r[c].status \in ELIGIBLE_STATUSES <=> q[c].status \in ELIGIBLE_STATUSES
             /\ r[c].status = "NOT_APPLICABLE" <=> q[c].status = "NOT_APPLICABLE"
  <2> DEFINE a == r[c].status
             b == q[c].status
  <2>1. IF a \in ELIGIBLE_STATUSES /\ b \in ELIGIBLE_STATUSES THEN Grade[a] >= Grade[b] ELSE a = b
    BY Zenon DEF NoWorse
  <2> HIDE DEF a, b
  <2>2. /\ a = "FAIL" => b = "FAIL"
        /\ Halves(b) <= Halves(a) /\ Halves(b) \in {0, 1, 2} /\ Halves(a) \in {0, 1, 2}
        /\ a \in ELIGIBLE_STATUSES <=> b \in ELIGIBLE_STATUSES
        /\ a = "NOT_APPLICABLE" <=> b = "NOT_APPLICABLE"
    BY <1>1, <2>1 DEF Halves, ELIGIBLE_STATUSES
  <2> QED BY <2>2, Zenon DEF a, b
<1>3. ASSUME NEW d PROVE Eligible(r, d) = Eligible(q, d) /\ Applicable(r, d) = Applicable(q, d)
  <2>1. Scored(r, d) = Scored(q, d) /\ Scored(r, d) \subseteq Checks BY DEF Scored
  <2> QED BY <1>2, <2>1 DEF Eligible, Applicable
<1> QED BY <1>2, <1>3

(* What is done no worse earns no less.                                              *)
LEMMA EarnedKeepsOrder ==
  ASSUME NEW r, NEW q, NEW S \in SUBSET Checks,
         \A c \in S : /\ Halves(q[c].status) <= Halves(r[c].status)
                      /\ Halves(q[c].status) \in {0, 1, 2} /\ Halves(r[c].status) \in {0, 1, 2}
  PROVE  Earned(q, S) <= Earned(r, S)
<1> DEFINE e == [c \in S |-> Weight[c] * Halves(q[c].status)]
           f == [c \in S |-> Weight[c] * Halves(r[c].status)]
<1>1. IsFiniteSet(S)
  <2>1. S \subseteq Checks OBVIOUS
  <2> QED BY <2>1, ScoreAssumption, FS_Subset
<1>2. Earned(q, S) = Total(e, S) /\ Earned(r, S) = Total(f, S)
  <2>1. Earned(q, S) = SumFunction(e) /\ Earned(r, S) = SumFunction(f) BY Zenon DEF Earned, Sum
  <2>2. DOMAIN e = S /\ DOMAIN f = S OBVIOUS
  <2> HIDE DEF e, f
  <2> QED BY <2>1, <2>2, SumUnfolds
<1>3. \A c \in S : e[c] \in Int /\ f[c] \in Int /\ e[c] <= f[c]
  <2> SUFFICES ASSUME NEW c \in S PROVE e[c] \in Int /\ f[c] \in Int /\ e[c] <= f[c] OBVIOUS
  <2> DEFINE n == Weight[c]
             a == Halves(q[c].status)
             b == Halves(r[c].status)
  <2>1. e[c] = n * a /\ f[c] = n * b OBVIOUS
  <2>2. n \in Nat /\ a \in {0, 1, 2} /\ b \in {0, 1, 2} /\ a <= b BY ScoreAssumption
  <2> HIDE DEF n, a, b, e, f
  <2>3. n * a \in Int /\ n * b \in Int /\ n * a <= n * b BY <2>2, SMT
  <2> QED BY <2>1, <2>3
<1> HIDE DEF e, f
<1> QED BY <1>1, <1>2, <1>3, TotalAtMost

(* What is done no worse scores no less in any dimension, and covers the same.         *)
LEMMA DimensionKeepsOrder ==
  ASSUME NEW r, NEW q, NoWorse(r, q), NEW d
  PROVE  /\ _score_dimension(r, d).coverage = _score_dimension(q, d).coverage
         /\ Eligible(r, d) # {} => _score_dimension(q, d).score <= _score_dimension(r, d).score
<1> DEFINE J == Eligible(r, d)
           A == Applicable(r, d)
<1>1. Eligible(q, d) = J /\ Applicable(q, d) = A BY SameJudged
<1>2. J \in SUBSET Checks /\ \A c \in J : Weight[c] > 0 BY DEF Eligible, Scored
<1>3. _score_dimension(r, d) =
        IF J = {} THEN [score |-> NoScore, coverage |-> IF A = {} THEN 10000 ELSE 0]
        ELSE [score |-> Rounded(500000 * Earned(r, J), WeightOf(J)),
              coverage |-> Rounded(10000 * WeightOf(J), WeightOf(A))]
  BY SMT DEF _score_dimension
<1> HIDE DEF J, A
<1>4. _score_dimension(q, d) =
        IF J = {} THEN [score |-> NoScore, coverage |-> IF A = {} THEN 10000 ELSE 0]
        ELSE [score |-> Rounded(500000 * Earned(q, J), WeightOf(J)),
              coverage |-> Rounded(10000 * WeightOf(J), WeightOf(A))]
  BY <1>1, SMT DEF _score_dimension
<1>5. CASE J = {} BY <1>3, <1>4, <1>5, SMT DEF J
<1>6. CASE J # {}
  <2>1. WeightOf(J) \in Nat /\ WeightOf(J) > 0 /\ Earned(r, J) \in Nat BY <1>2, <1>6, Weights
  <2>2. WeightOf(J) \in Nat /\ Earned(q, J) \in Nat BY <1>2, Weights
  <2>3. Earned(q, J) <= Earned(r, J)
    <3>1. \A c \in J : /\ Halves(q[c].status) <= Halves(r[c].status)
                       /\ Halves(q[c].status) \in {0, 1, 2} /\ Halves(r[c].status) \in {0, 1, 2}
      BY <1>2, SameJudged
    <3> QED BY <1>2, <3>1, EarnedKeepsOrder
  <2> DEFINE a == 500000 * Earned(q, J)
             c == 500000 * Earned(r, J)
             b == WeightOf(J)
  <2>4. a \in Nat /\ c \in Nat /\ a <= c /\ b \in Nat \ {0} BY <2>1, <2>2, <2>3, SMT
  <2>5. _score_dimension(q, d).score = Rounded(a, b) /\ _score_dimension(r, d).score = Rounded(c, b)
        /\ _score_dimension(q, d).coverage = _score_dimension(r, d).coverage
    BY <1>3, <1>4, <1>6, SMT
  <2> HIDE DEF a, b, c
  <2>6. Rounded(a, b) <= Rounded(c, b) BY <2>4, RoundedKeepsOrder
  <2> QED BY <2>5, <2>6
<1> QED BY <1>5, <1>6

(* What is nowhere negative adds up to a natural number.                               *)
LEMMA TotalIsNat ==
  ASSUME NEW S, IsFiniteSet(S), NEW e, \A x \in S : e[x] \in Nat
  PROVE  Total(e, S) \in Nat
<1> DEFINE z == [x \in S |-> 0]
<1>1. \A x \in S : z[x] = 0 OBVIOUS
<1> HIDE DEF z
<1>2. 0 \in Nat /\ \A x \in S : e[x] \in Int /\ z[x] = 0 * e[x] BY <1>1
<1>3. Total(e, S) \in Int /\ Total(z, S) = 0 * Total(e, S) BY <1>2, TotalTimes
<1>4. \A x \in S : z[x] \in Int /\ e[x] \in Int /\ z[x] <= e[x] BY <1>1
<1>5. Total(z, S) <= Total(e, S) BY <1>4, TotalAtMost
<1> QED BY <1>3, <1>5

(* The headline is the rounded share of the dimensions in which something was judged.   *)
LEMMA HeadlineOf ==
  ASSUME NEW r, NEW erp, NEW D, D = {d \in ScoredDimensions(erp) : Eligible(r, d) # {}},
         NEW w, w = [d \in D |-> Share[d]],
         NEW e, e = [d \in D |-> _score_dimension(r, d).score * Share[d]]
  PROVE  /\ D \subseteq DOMAIN Share /\ IsFiniteSet(D)
         /\ \A d \in D : e[d] \in Nat
         /\ D = {} => _headline(_score_dimensions(r, erp)) = NoScore
         /\ D # {} => /\ Total(w, D) \in Nat \ {0} /\ Total(e, D) \in Nat
                      /\ _headline(_score_dimensions(r, erp)) = Rounded(Total(e, D), 10 * Total(w, D))
<1> DEFINE dims == _score_dimensions(r, erp)
           h == _headline(dims)
<1>1. DOMAIN dims = ScoredDimensions(erp) /\ ScoredDimensions(erp) \subseteq DOMAIN Share
      /\ \A d \in ScoredDimensions(erp) : dims[d] = _score_dimension(r, d)
  BY DEF _score_dimensions, ScoredDimensions
<1>2. D = {d \in DOMAIN dims : dims[d].score # NoScore}
  <2>1. ASSUME NEW d \in ScoredDimensions(erp) PROVE dims[d].score # NoScore <=> Eligible(r, d) # {}
    <3>1. dims[d] = _score_dimension(r, d) BY <1>1
    <3> HIDE DEF dims
    <3> QED BY <3>1, DimensionScores, SMT
  <2> HIDE DEF dims
  <2> QED BY <1>1, <2>1
<1>3. D \subseteq DOMAIN Share /\ IsFiniteSet(D)
  <2>1. D \subseteq DOMAIN Share BY <1>1
  <2> QED BY <2>1, ScoreAssumption, FS_Subset
<1>4. e = [d \in D |-> dims[d].score * Share[d]]
  <2>1. \A d \in D : dims[d] = _score_dimension(r, d) BY <1>1
  <2> HIDE DEF dims
  <2> QED BY <2>1
<1>5. h = IF D = {} \/ SumFunction(w) = 0 THEN NoScore ELSE Rounded(SumFunction(e), 10 * SumFunction(w))
  <2>1. h = IF {d \in DOMAIN dims : dims[d].score # NoScore} = {}
               \/ SumFunction([d \in {x \in DOMAIN dims : dims[x].score # NoScore} |-> Share[d]]) = 0
            THEN NoScore
            ELSE Rounded(SumFunction([d \in {x \in DOMAIN dims : dims[x].score # NoScore} |->
                                        dims[d].score * Share[d]]),
                         10 * SumFunction([d \in {x \in DOMAIN dims : dims[x].score # NoScore} |-> Share[d]]))
    <3> HIDE DEF dims
    <3> QED BY Zenon DEF _headline, Sum
  <2> HIDE DEF dims, h
  <2> QED BY <1>2, <1>4, <2>1, Zenon
<1>6. SumFunction(w) = Total(w, D) /\ SumFunction(e) = Total(e, D)
  <2>1. DOMAIN w = D /\ DOMAIN e = D OBVIOUS
  <2> QED BY <2>1, SumUnfolds
<1>7. \A d \in D : w[d] \in Nat \ {0} BY <1>3, ScoreAssumption
<1>8. \A d \in D : e[d] \in Nat
  <2> SUFFICES ASSUME NEW d \in D PROVE e[d] \in Nat OBVIOUS
  <2> DEFINE s == _score_dimension(r, d).score
             n == w[d]
  <2>1. s \in Nat BY DimensionScores
  <2>2. n \in Nat BY <1>7
  <2>3. e[d] = s * n BY SMT
  <2> HIDE DEF s, n
  <2>4. s * n \in Nat BY <2>1, <2>2, SMT
  <2> QED BY <2>3, <2>4
<1>9. Total(w, D) \in Nat /\ (D # {} => Total(w, D) > 0)
  <2> QED BY <1>3, <1>7, TotalPositive
<1>10. Total(e, D) \in Nat
  BY <1>3, <1>8, TotalIsNat, Zenon
<1> HIDE DEF dims, h
<1>11. D = {} => h = NoScore BY <1>5
<1>12. D # {} => h = Rounded(Total(e, D), 10 * Total(w, D)) /\ Total(w, D) \in Nat \ {0}
  BY <1>5, <1>6, <1>9
<1> QED BY <1>3, <1>8, <1>10, <1>11, <1>12 DEF h, dims

(* What did no worse in every check has no lower headline.                             *)
LEMMA HeadlineKeepsOrder ==
  ASSUME NEW r, NEW q, NoWorse(r, q), NEW erp
  PROVE  LET h == _headline(_score_dimensions(r, erp))
             k == _headline(_score_dimensions(q, erp))
         IN /\ h \in Int /\ k \in Int
            /\ h = NoScore => k = NoScore
            /\ k = NoScore => h = NoScore
            /\ h # NoScore => k <= h
<1> DEFINE h == _headline(_score_dimensions(r, erp))
           k == _headline(_score_dimensions(q, erp))
           D == {d \in ScoredDimensions(erp) : Eligible(r, d) # {}}
           w == [d \in D |-> Share[d]]
           e == [d \in D |-> _score_dimension(r, d).score * Share[d]]
           f == [d \in D |-> _score_dimension(q, d).score * Share[d]]
<1>1. D = {d \in ScoredDimensions(erp) : Eligible(q, d) # {}}
  <2>1. \A d : Eligible(r, d) = Eligible(q, d) BY SameJudged
  <2> QED BY <2>1
<1>2. /\ D \subseteq DOMAIN Share /\ IsFiniteSet(D)
      /\ \A d \in D : e[d] \in Nat
      /\ D = {} => h = NoScore
      /\ D # {} => /\ Total(w, D) \in Nat \ {0} /\ Total(e, D) \in Nat
                   /\ h = Rounded(Total(e, D), 10 * Total(w, D))
  <2>1. /\ D = {d \in ScoredDimensions(erp) : Eligible(r, d) # {}}
        /\ w = [d \in D |-> Share[d]]
        /\ e = [d \in D |-> _score_dimension(r, d).score * Share[d]]
    OBVIOUS
  <2> HIDE DEF D, w, e
  <2> QED BY <2>1, HeadlineOf, Zenon DEF h
<1>3. /\ \A d \in D : f[d] \in Nat
      /\ D = {} => k = NoScore
      /\ D # {} => Total(f, D) \in Nat /\ k = Rounded(Total(f, D), 10 * Total(w, D))
  <2>1. w = [d \in D |-> Share[d]] /\ f = [d \in D |-> _score_dimension(q, d).score * Share[d]]
    OBVIOUS
  <2> HIDE DEF D, w, f
  <2> QED BY <1>1, <2>1, HeadlineOf, Zenon DEF k
<1>4. \A d \in D : f[d] <= e[d]
  <2> SUFFICES ASSUME NEW d \in D PROVE f[d] <= e[d] OBVIOUS
  <2> DEFINE s == _score_dimension(r, d).score
             t == _score_dimension(q, d).score
             n == Share[d]
  <2>1. Eligible(r, d) # {} /\ Eligible(q, d) # {} BY <1>1
  <2>2. s \in Nat /\ t \in Nat BY <2>1, DimensionScores
  <2>3. t <= s BY <2>1, DimensionKeepsOrder
  <2>4. n \in Nat BY <1>2, ScoreAssumption
  <2>5. f[d] = t * n /\ e[d] = s * n OBVIOUS
  <2> HIDE DEF s, t, n, e, f
  <2>6. t * n <= s * n BY <2>2, <2>3, <2>4, SMT
  <2> QED BY <2>5, <2>6
<1>5. h \in Int /\ k \in Int BY Headlines
<1>6. h = NoScore => D = {}
  <2>1. h = NoScore => \A d \in ScoredDimensions(erp) : Eligible(r, d) = {} BY Headlines
  <2> HIDE DEF h
  <2> QED BY <2>1
<1>7. k = NoScore => D = {}
  <2>1. k = NoScore => \A d \in ScoredDimensions(erp) : Eligible(q, d) = {} BY Headlines
  <2> HIDE DEF k, D
  <2> QED BY <1>1, <2>1
<1> HIDE DEF h, k, D, w, e, f
<1>8. ASSUME D # {} PROVE k <= h
  <2> DEFINE a == Total(f, D)
             c == Total(e, D)
             b == 10 * Total(w, D)
  <2>1. \A d \in D : f[d] \in Int /\ e[d] \in Int /\ f[d] <= e[d] BY <1>2, <1>3, <1>4
  <2>2. a <= c BY <1>2, <2>1, TotalAtMost
  <2>3. a \in Nat /\ c \in Nat /\ b \in Nat \ {0} BY <1>2, <1>3, <1>8
  <2>4. k = Rounded(a, b) /\ h = Rounded(c, b) BY <1>2, <1>3, <1>8
  <2> HIDE DEF a, b, c
  <2> QED BY <2>2, <2>3, <2>4, RoundedKeepsOrder
<1>9. /\ h \in Int /\ k \in Int
      /\ h = NoScore => k = NoScore
      /\ k = NoScore => h = NoScore
      /\ h # NoScore => k <= h
  BY <1>2, <1>3, <1>5, <1>6, <1>7, <1>8
<1> QED BY <1>9 DEF h, k

(* The state and the headline of results that are normalized.                          *)
LEMMA AssembledState ==
  ASSUME NEW r, NEW erp, _normalize_results(r, erp) = r,
         NEW F, F = _blocking_gate_failures(r, erp),
         NEW dims, dims = _score_dimensions(r, erp)
  PROVE  /\ assemble_dcs_score(r, erp).headline = IF F # {} THEN NoScore ELSE _headline(dims)
         /\ assemble_dcs_score(r, erp).state =
              IF F # {} THEN "BLOCKED"
              ELSE IF _required_coverage_incomplete(dims) THEN "INCOMPLETE"
              ELSE _run_state_from_score(_headline(dims), erp)
<1> DEFINE h == _headline(dims)
           s == assemble_dcs_score(r, erp)
           t == _run_state_from_score(h, erp)
           missing == {c \in Checks : r[c].status = "UNKNOWN" /\ r[c].reason = "MISSING_INPUT"}
<1>1. s = IF F # {}
          THEN [state |-> "BLOCKED", headline |-> NoScore, dims |-> <<>>,
                blocked |-> Cardinality(F), missing |-> {}]
          ELSE [state |-> IF _required_coverage_incomplete(dims) THEN "INCOMPLETE" ELSE t,
                headline |-> h, dims |-> dims, blocked |-> 0, missing |-> missing]
  BY Zenon DEF assemble_dcs_score
<1> HIDE DEF h, s, t, missing
<1>2. /\ s.headline = IF F # {} THEN NoScore ELSE h
      /\ s.state = IF F # {} THEN "BLOCKED"
                   ELSE IF _required_coverage_incomplete(dims) THEN "INCOMPLETE" ELSE t
  BY <1>1
<1> QED BY <1>2 DEF s, h, t

(* What did no worse in every check is in no lower state, and has no lower headline.    *)
LEMMA StateKeepsOrder ==
  ASSUME NEW r, NEW q, NoWorse(r, q), NEW erp,
         _normalize_results(r, erp) = r, _normalize_results(q, erp) = q
  PROVE  LET s == assemble_dcs_score(r, erp)
             t == assemble_dcs_score(q, erp)
         IN /\ StateRank(s.state) >= StateRank(t.state)
            /\ NoScore \notin {s.headline, t.headline} => s.headline >= t.headline
            /\ s.headline = NoScore => t.headline = NoScore
<1> DEFINE s == assemble_dcs_score(r, erp)
           t == assemble_dcs_score(q, erp)
           F == _blocking_gate_failures(r, erp)
           G == _blocking_gate_failures(q, erp)
           dims == _score_dimensions(r, erp)
           those == _score_dimensions(q, erp)
           h == _headline(dims)
           k == _headline(those)
           low == _required_coverage_incomplete(dims)
           a == _run_state_from_score(h, erp)
           b == _run_state_from_score(k, erp)
<1>1. /\ s.headline = IF F # {} THEN NoScore ELSE h
      /\ s.state = IF F # {} THEN "BLOCKED" ELSE IF low THEN "INCOMPLETE" ELSE a
  <2> HIDE DEF F, dims
  <2>1. _normalize_results(r, erp) = r /\ F = _blocking_gate_failures(r, erp)
        /\ dims = _score_dimensions(r, erp)
    BY Zenon DEF F, dims
  <2> QED BY <2>1, AssembledState, Zenon
<1>2. _required_coverage_incomplete(those) <=> low
  <2>1. ASSUME NEW d \in DOMAIN Share \ {BR} PROVE dims[d].coverage = those[d].coverage
    <3>1. d \in ScoredDimensions(erp) BY DEF ScoredDimensions
    <3>2. dims[d] = _score_dimension(r, d) /\ those[d] = _score_dimension(q, d)
      BY <3>1 DEF _score_dimensions
    <3>3. _score_dimension(r, d).coverage = _score_dimension(q, d).coverage
      BY DimensionKeepsOrder
    <3> HIDE DEF dims, those
    <3> QED BY <3>2, <3>3
  <2> HIDE DEF dims, those
  <2> QED BY <2>1, Zenon DEF _required_coverage_incomplete
<1>3. /\ t.headline = IF G # {} THEN NoScore ELSE k
      /\ t.state = IF G # {} THEN "BLOCKED" ELSE IF low THEN "INCOMPLETE" ELSE b
  <2>1. /\ t.headline = IF G # {} THEN NoScore ELSE k
        /\ t.state = IF G # {} THEN "BLOCKED"
                     ELSE IF _required_coverage_incomplete(those) THEN "INCOMPLETE" ELSE b
    <3> HIDE DEF G, those
    <3>1. _normalize_results(q, erp) = q /\ G = _blocking_gate_failures(q, erp)
          /\ those = _score_dimensions(q, erp)
      BY Zenon DEF G, those
    <3> QED BY <3>1, AssembledState, Zenon
  <2> QED BY <1>2, <2>1, Zenon
<1>4. F \subseteq G
  <2>1. \A c \in Checks : r[c].status = "FAIL" => q[c].status = "FAIL" BY SameJudged
  <2> QED BY <2>1 DEF _blocking_gate_failures
<1>5. /\ h \in Int /\ k \in Int
      /\ h = NoScore => k = NoScore
      /\ k = NoScore => h = NoScore
      /\ h # NoScore => k <= h
  BY HeadlineKeepsOrder
<1> DEFINE v == IF erp THEN "READY" ELSE "CONDITIONALLY_READY"
<1>6. /\ h = NoScore => a = "BLOCKED"
      /\ h # NoScore /\ h >= 90000 => a = v
      /\ h # NoScore /\ ~(h >= 90000) /\ h >= 70000 => a = "CONDITIONALLY_READY"
      /\ h # NoScore /\ ~(h >= 90000) /\ ~(h >= 70000) /\ h >= 50000 => a = "REMEDIATE"
      /\ h # NoScore /\ ~(h >= 90000) /\ ~(h >= 70000) /\ ~(h >= 50000) => a = "BLOCKED"
  <2> HIDE DEF h
  <2> QED BY StateByHeadline
<1>7. /\ k = NoScore => b = "BLOCKED"
      /\ k # NoScore /\ k >= 90000 => b = v
      /\ k # NoScore /\ ~(k >= 90000) /\ k >= 70000 => b = "CONDITIONALLY_READY"
      /\ k # NoScore /\ ~(k >= 90000) /\ ~(k >= 70000) /\ k >= 50000 => b = "REMEDIATE"
      /\ k # NoScore /\ ~(k >= 90000) /\ ~(k >= 70000) /\ ~(k >= 50000) => b = "BLOCKED"
  <2> HIDE DEF k
  <2> QED BY StateByHeadline
<1>8. v = "READY" \/ v = "CONDITIONALLY_READY" OBVIOUS
<1> HIDE DEF s, t, F, G, dims, those, h, k, low, a, b, v
<1>9. StateRank(a) >= StateRank(b) /\ StateRank(a) >= 1
  <2>1. StateRank(v) = 4 \/ StateRank(v) = 5 BY <1>8, StateRanks
  <2> DEFINE m == StateRank(a)
             n == StateRank(b)
             x == StateRank(v)
  <2>2. x \in {4, 5} BY <2>1
  <2>3. /\ h = NoScore => m = 1
        /\ h # NoScore /\ h >= 90000 => m = x
        /\ h # NoScore /\ ~(h >= 90000) /\ h >= 70000 => m = 4
        /\ h # NoScore /\ ~(h >= 90000) /\ ~(h >= 70000) /\ h >= 50000 => m = 3
        /\ h # NoScore /\ ~(h >= 90000) /\ ~(h >= 70000) /\ ~(h >= 50000) => m = 1
    <3>1. /\ a = "BLOCKED" => m = 1
          /\ a = "REMEDIATE" => m = 3
          /\ a = "CONDITIONALLY_READY" => m = 4
          /\ a = v => m = x
      BY StateRanks
    <3> HIDE DEF m, n, x
    <3> QED BY <1>6, <3>1, SMT
  <2>4. /\ k = NoScore => n = 1
        /\ k # NoScore /\ k >= 90000 => n = x
        /\ k # NoScore /\ ~(k >= 90000) /\ k >= 70000 => n = 4
        /\ k # NoScore /\ ~(k >= 90000) /\ ~(k >= 70000) /\ k >= 50000 => n = 3
        /\ k # NoScore /\ ~(k >= 90000) /\ ~(k >= 70000) /\ ~(k >= 50000) => n = 1
    <3>1. /\ b = "BLOCKED" => n = 1
          /\ b = "REMEDIATE" => n = 3
          /\ b = "CONDITIONALLY_READY" => n = 4
          /\ b = v => n = x
      BY StateRanks
    <3> HIDE DEF m, n, x
    <3> QED BY <1>7, <3>1, SMT
  <2> HIDE DEF m, n, x
  <2>5. m >= n /\ m >= 1 BY <1>5, <2>2, <2>3, <2>4, SMT
  <2> QED BY <2>5 DEF m, n
<1>10. StateRank(s.state) >= StateRank(t.state)
  <2>1. CASE F # {}
    <3>1. s.state = "BLOCKED" /\ t.state = "BLOCKED" BY <1>1, <1>3, <1>4, <2>1
    <3>2. StateRank("BLOCKED") = 1 BY StateRanks
    <3> QED BY <3>1, <3>2
  <2>2. CASE F = {} /\ low
    <3>1. s.state = "INCOMPLETE" /\ t.state \in {"BLOCKED", "INCOMPLETE"} BY <1>1, <1>3, <2>2
    <3>2. StateRank("BLOCKED") = 1 /\ StateRank("INCOMPLETE") = 2 BY StateRanks
    <3> QED BY <3>1, <3>2
  <2>3. CASE F = {} /\ ~low
    <3>1. s.state = a /\ (t.state = "BLOCKED" \/ t.state = b) BY <1>1, <1>3, <2>3
    <3>2. StateRank("BLOCKED") = 1 BY StateRanks
    <3> QED BY <1>9, <3>1, <3>2
  <2> QED BY <2>1, <2>2, <2>3
<1>11. /\ NoScore \notin {s.headline, t.headline} => s.headline >= t.headline
       /\ s.headline = NoScore => t.headline = NoScore
  BY <1>1, <1>3, <1>4, <1>5
<1> QED BY <1>10, <1>11 DEF s, t

(* A run that is ready is ready on what was judged.                                    *)
LEMMA ReadyOnJudged ==
  ASSUME NEW x, x.results = _normalize_results(x.results, site.erp),
         x.score = assemble_dcs_score(x.results, site.erp)
  PROVE  ReadyOnWhatWasJudged(x)
<1> DEFINE r == x.results
           required == DOMAIN Share \ {BR}
           told == {d \in required : Applicable(r, d) # {}}
           weight(d, S) == WeightOf({c \in Applicable(r, d) : r[c].status \in S})
<1> SUFFICES ASSUME x.score.state \in {"READY", "CONDITIONALLY_READY"}
             PROVE  /\ \A g \in BLOCKING_GATE_IDS \ Optional : r[g].status # "FAIL"
                    /\ \A d \in told :
                         5 * weight(d, {"PASS", "WARN", "FAIL"}) >= 4 * WeightOf(Applicable(r, d))
                    /\ ~site.erp =>
                         Sum(told, LAMBDA d : Share[d] *
                               ((50 * Earned(r, Applicable(r, d))) \div WeightOf(Applicable(r, d)) + 1))
                           >= 56 * Sum(told, LAMBDA d : Share[d])
  BY Zenon DEF ReadyOnWhatWasJudged
<1>1. _normalize_results(r, site.erp) = r
      /\ assemble_dcs_score(r, site.erp).state \in {"READY", "CONDITIONALLY_READY"}
  BY Zenon
<1>2. /\ _blocking_gate_failures(r, site.erp) = {}
      /\ \A d \in DOMAIN Share \ {BR} : _score_dimension(r, d).coverage >= COVERAGE_THRESHOLD
  <2> HIDE DEF r
  <2> QED BY <1>1, ReadySays
<1>3. \A g \in BLOCKING_GATE_IDS \ Optional : r[g].status # "FAIL"
  <2> HIDE DEF r
  <2> QED BY <1>2, ScoreAssumption DEF _blocking_gate_failures, BLOCKING_GATE_IDS_ERP
<1>4. ASSUME NEW d \in told
      PROVE  5 * weight(d, {"PASS", "WARN", "FAIL"}) >= 4 * WeightOf(Applicable(r, d))
  <2>1. d \in DOMAIN Share /\ Applicable(r, d) # {}
        /\ _score_dimension(r, d).coverage >= COVERAGE_THRESHOLD
    <3> HIDE DEF r
    <3> QED BY <1>2
  <2>2. {c \in Applicable(r, d) : r[c].status \in {"PASS", "WARN", "FAIL"}} = Eligible(r, d)
    <3> HIDE DEF r
    <3> QED BY DEF Applicable, Eligible, ELIGIBLE_STATUSES
  <2>3. 5 * WeightOf(Eligible(r, d)) >= 4 * WeightOf(Applicable(r, d))
    <3> HIDE DEF r
    <3> QED BY <2>1, CoveredMeansJudged
  <2> QED BY <2>2, <2>3, Zenon
<1>5. ASSUME ~site.erp
      PROVE  Sum(told, LAMBDA d : Share[d] *
                   ((50 * Earned(r, Applicable(r, d))) \div WeightOf(Applicable(r, d)) + 1))
               >= 56 * Sum(told, LAMBDA d : Share[d])
  <2> DEFINE told2 == told
             e == site.erp
             g(d) == Share[d] * ((50 * Earned(r, Applicable(r, d))) \div WeightOf(Applicable(r, d)) + 1)
  <2>1. told2 = {d \in DOMAIN Share \ {BR} : Applicable(r, d) # {}} OBVIOUS
  <2>2. ~e /\ _normalize_results(r, e) = r
        /\ assemble_dcs_score(r, e).state \in {"READY", "CONDITIONALLY_READY"}
    BY <1>1, <1>5
  <2> HIDE DEF r, told, told2, e
  <2>3. SumFunction([d \in told2 |-> g(d)]) >= 56 * SumFunction([d \in told2 |-> Share[d]])
    BY <2>1, <2>2, ReadyIsEarned, SMT DEF Sum
  <2> QED BY <2>3, Zenon DEF Sum, told2
<1> QED BY <1>3, <1>4, <1>5, Zenon

-----------------------------------------------------------------------------
(* Runs.                                                                           *)

(* The runs a diff, a context or a package refers to may be scored again, and new     *)
(* ones begin: what was said of a score still holds of that score.                  *)
RunsGrow(rs, new) ==
  \A i \in DOMAIN rs :
    /\ i \in DOMAIN new /\ rs[i].scored \in Nat /\ new[i].scored \in Nat
    /\ rs[i].scored <= new[i].scored
    /\ rs[i].scored = new[i].scored =>
         new[i].score = rs[i].score /\ new[i].results = rs[i].results

(* A diff of runs that grew still tells what it told.                                 *)
LEMMA DiffsStay ==
  ASSUME NEW rs, NEW new, RunsGrow(rs, new), NEW i \in DOMAIN rs, NEW kept, IsDiff(i, kept, rs)
  PROVE  IsDiff(i, kept, new)
<1> DEFINE d == kept.diff
           j == d.to[1]
<1>1. /\ kept.of \in Nat /\ kept.of <= new[i].scored
      /\ kept.of = new[i].scored => kept.of = rs[i].scored /\ new[i].score = rs[i].score
  BY DEF IsDiff, RunsGrow
<1>2. CASE d.baseline BY <1>1, <1>2, Zenon DEF IsDiff
<1>3. CASE ~d.baseline
  <2>1. /\ j \in DOMAIN rs /\ j # i /\ d.to[2] \in Nat /\ d.to[2] <= rs[j].scored
        /\ kept.of = rs[i].scored => d.headline.current = rs[i].score.headline
        /\ rs[j].scored = d.to[2] => d.headline.previous = rs[j].score.headline
        /\ AddsUp(d.headline) /\ AddsUp(d.impact) /\ AddsUp(d.passed) /\ AddsUp(d.failed)
        /\ \A x \in DOMAIN d.dims : AddsUp(d.dims[x])
    BY <1>3, Zenon DEF IsDiff
  <2> HIDE DEF d, j
  <2>2. /\ j \in DOMAIN new /\ d.to[2] <= new[j].scored
        /\ new[j].scored = d.to[2] => rs[j].scored = d.to[2] /\ new[j].score = rs[j].score
    BY <2>1 DEF RunsGrow
  <2>3. kept.of = new[i].scored => d.headline.current = new[i].score.headline
    BY <1>1, <2>1, Zenon
  <2>4. new[j].scored = d.to[2] => d.headline.previous = new[j].score.headline
    BY <2>1, <2>2, Zenon
  <2> QED BY <1>1, <2>1, <2>2, <2>3, <2>4, Zenon DEF IsDiff, d, j
<1> QED BY <1>2, <1>3

(* A context that was read of runs that grew still stands.                            *)
LEMMA ContextsStay ==
  ASSUME NEW rs, NEW new, RunsGrow(rs, new), NEW bs, NEW c, IsContext(c, rs, bs)
  PROVE  IsContext(c, new, bs)
<1>1. ASSUME c.scored
      PROVE  /\ c.run \in DOMAIN new /\ new[c.run].scored > 0
             /\ new[c.run].scored = 1 =>
                  rs[c.run].scored = 1 /\ new[c.run].results = rs[c.run].results
  BY <1>1 DEF IsContext, RunsGrow
<1> QED BY <1>1, Zenon DEF IsContext

(* A package built on runs that grew still stands.                                    *)
LEMMA PackagesStay ==
  ASSUME NEW rs, NEW new, RunsGrow(rs, new), NEW bs, NEW d, NEW p, IsPackage(p, d, rs, bs)
  PROVE  IsPackage(p, d, new, bs)
<1>1. /\ p.run \in DOMAIN new /\ new[p.run].scored > 0
      /\ new[p.run].scored = 1 =>
           rs[p.run].scored = 1 /\ new[p.run].results = rs[p.run].results
  BY DEF IsPackage, RunsGrow
<1> QED BY <1>1, Zenon DEF IsPackage

(* A score is told of the results a run keeps: normalising them again is idle.       *)
LEMMA NormalizedTwice ==
  ASSUME NEW results, NEW erp, \A c \in DOMAIN results : IsResult(results[c])
  PROVE  LET n == _normalize_results(results, erp)
         IN /\ DOMAIN n = DOMAIN results
            /\ _normalize_results(n, erp) = n
            /\ assemble_dcs_score(n, erp) = assemble_dcs_score(results, erp)
<1> DEFINE n == _normalize_results(results, erp)
           m == _normalize_results(n, erp)
           new(x) == [x EXCEPT !.status = "NOT_CONNECTED",
                               !.reason = IF @ = "none" THEN "ERP_OUT_OF_SCOPE" ELSE @]
<1>1. DOMAIN n = DOMAIN results /\ DOMAIN m = DOMAIN results BY DEF _normalize_results
<1>2. \A c \in DOMAIN results :
        /\ n[c] = IF c = "FD-03" /\ ~erp THEN new(results[c]) ELSE results[c]
        /\ m[c] = IF c = "FD-03" /\ ~erp THEN new(n[c]) ELSE n[c]
  BY DEF _normalize_results
<1>3. \A c \in DOMAIN results : new(new(results[c])) = new(results[c])
  <2> SUFFICES ASSUME NEW x, IsResult(x) PROVE new(new(x)) = new(x) OBVIOUS
  <2> DEFINE q == IF x.reason = "none" THEN "ERP_OUT_OF_SCOPE" ELSE x.reason
             a == x.amount
             u == x.currency
             y == [status |-> "NOT_CONNECTED", reason |-> q, amount |-> a, currency |-> u]
             z(s, r) == [status |-> s, reason |-> r, amount |-> a, currency |-> u]
  <2>0. x = z(x.status, x.reason) BY DEF IsResult
  <2>2. \A s, r : new(z(s, r)) = z("NOT_CONNECTED", IF r = "none" THEN "ERP_OUT_OF_SCOPE" ELSE r)
    <3> HIDE DEF a, u
    <3> SUFFICES ASSUME NEW s, NEW r
                 PROVE  new(z(s, r)) = z("NOT_CONNECTED", IF r = "none" THEN "ERP_OUT_OF_SCOPE" ELSE r)
      BY Zenon
    <3> DEFINE v == IF r = "none" THEN "ERP_OUT_OF_SCOPE" ELSE r
               y1 == z(s, r)
               y2 == [y1 EXCEPT !.status = "NOT_CONNECTED"]
    <3>1. y2 = z("NOT_CONNECTED", r) BY SMT
    <3>2. y1.reason = r BY SMT
    <3>3. [z("NOT_CONNECTED", r) EXCEPT !.reason = v] = z("NOT_CONNECTED", v)
      <4> HIDE DEF v
      <4> QED BY SMT
    <3>4. new(y1) = [y2 EXCEPT !.reason = IF y1.reason = "none" THEN "ERP_OUT_OF_SCOPE" ELSE y1.reason]
      <4> HIDE DEF y1
      <4> QED BY Zenon
    <3> HIDE DEF y1, y2, z, new
    <3> QED BY <3>1, <3>2, <3>3, <3>4, Zenon DEF y1
  <2>3. q # "none" OBVIOUS
  <2>4. new(x) = y /\ new(y) = y
    <3> HIDE DEF new
    <3>1. new(x) = z("NOT_CONNECTED", q) 
      <4> HIDE DEF z
      <4> QED BY <2>0, <2>2, Zenon
    <3>2. y = z("NOT_CONNECTED", q) OBVIOUS
    <3> HIDE DEF z, y, q
    <3> QED BY <3>1, <3>2, <2>2, <2>3
  <2> HIDE DEF new, y
  <2> QED BY <2>4, Zenon
<1>4. m = n
  <2>1. \A c \in DOMAIN results : m[c] = n[c]
    <3> HIDE DEF n, m, new
    <3> QED BY <1>2, <1>3, Zenon
  <2>2. n = [c \in DOMAIN n |-> n[c]] BY Zenon DEF _normalize_results
  <2>3. m = [c \in DOMAIN m |-> m[c]]
    <3> HIDE DEF n
    <3> QED BY Zenon DEF _normalize_results
  <2> HIDE DEF n, m
  <2> QED BY <1>1, <2>1, <2>2, <2>3
<1>5. assemble_dcs_score(n, erp) = assemble_dcs_score(results, erp)
  BY <1>4, Zenon DEF assemble_dcs_score
<1> QED BY <1>1, <1>4, <1>5

(* The revenue that a run puts at stake is a whole number (rollup_revenue_impact).    *)
LEMMA ImpactIsInt ==
  ASSUME NEW results, \A c \in DOMAIN results : IsResult(results[c])
  PROVE  rollup_revenue_impact(results).estimate \in Int
<1> DEFINE emits == {c \in (ROLLUP_CHECK_IDS \cup CARD_ONLY_CHECK_IDS) \cap DOMAIN results :
                       results[c].status \in {"FAIL", "WARN"}}
           S == emits \cap ROLLUP_CHECK_IDS
           w == [c \in S |-> seal_revenue_on_result(results[c]).amount]
           several == Cardinality({results[c].currency : c \in emits} \ {"none"}) > 1
<1>1. rollup_revenue_impact(results).estimate = IF several THEN Mixed ELSE SumFunction(w)
  BY Zenon DEF rollup_revenue_impact, Sum
<1>2. IsFiniteSet(S)
  <2>1. IsFiniteSet(ROLLUP_CHECK_IDS)
    <3> DEFINE A == {"LE-04"} \cup {"LE-05"}
               B == {"LE-09"} \cup {"PT-04"}
    <3>1. IsFiniteSet(A) /\ IsFiniteSet(B) BY FS_Singleton, FS_Union
    <3>2. ROLLUP_CHECK_IDS = A \cup B BY DEF ROLLUP_CHECK_IDS
    <3> HIDE DEF A, B
    <3> QED BY <3>1, <3>2, FS_Union
  <2>2. S \subseteq ROLLUP_CHECK_IDS OBVIOUS
  <2> HIDE DEF S
  <2> QED BY <2>1, <2>2, FS_Subset
<1>3. \A c \in S : w[c] \in Int
  <2>1. \A r : IsResult(r) => seal_revenue_on_result(r).amount \in Int
    <3> SUFFICES ASSUME NEW r, IsResult(r) PROVE seal_revenue_on_result(r).amount \in Int
      OBVIOUS
    <3>1. "amount" \in DOMAIN r /\ r.amount \in Int BY SMT DEF IsResult
    <3> DEFINE v == IF r.status \in {"FAIL", "WARN"} THEN r.amount ELSE 0
    <3>2. v \in Int BY <3>1
    <3>3. seal_revenue_on_result(r) = [r EXCEPT !.amount = v] BY Zenon DEF seal_revenue_on_result
    <3> HIDE DEF v
    <3> QED BY <3>1, <3>2, <3>3, Zenon
  <2>2. \A c \in S : c \in DOMAIN results OBVIOUS
  <2>3. \A c \in S : w[c] = seal_revenue_on_result(results[c]).amount OBVIOUS
  <2> HIDE DEF S, w
  <2> QED BY <2>1, <2>2, <2>3, Zenon
<1>4. SumFunction(w) \in Int
  <2>1. DOMAIN w = S OBVIOUS
  <2> HIDE DEF w, S
  <2> QED BY <1>2, <1>3, <2>1, SumUnfolds, TotalIsInt
<1> HIDE DEF several, w
<1> QED BY <1>1, <1>4, NoScoreIsInt DEF Mixed

(* The results a run is scored on are records, whichever of the three they come from. *)
LEMMA ResultsAreRecords ==
  ASSUME site \in Deployments, NEW found \in site.finds, NEW measured, NEW gates
  PROVE  LET results == Overlay(DriftResults(measured), Overlay(found.results, GateResults(gates)))
         IN \A c \in DOMAIN results : IsResult(results[c])
<1> DEFINE A == DriftResults(measured)
           B == found.results
           C == GateResults(gates)
<1>0. \A s, r : IsResult([status |-> s, reason |-> r, amount |-> 0, currency |-> "none"])
  BY DEF IsResult
<1>1. \A c \in DOMAIN A : IsResult(A[c])
  <2> DEFINE s(c) == (CHOOSE d \in measured : TRUE).verdicts[c]
             r(c) == IF s(c) \in ELIGIBLE_STATUSES THEN "none" ELSE "DRIFT"
  <2> SUFFICES ASSUME NEW c \in DOMAIN A PROVE IsResult(A[c]) OBVIOUS
  <2>1. A[c] = [status |-> s(c), reason |-> r(c), amount |-> 0, currency |-> "none"]
    BY DEF DriftResults
  <2> HIDE DEF A, s, r
  <2> QED BY <1>0, <2>1, Zenon
<1>2. \A c \in DOMAIN B : IsResult(B[c]) BY DeploymentsAssumption, Zenon
<1>3. \A c \in DOMAIN C : IsResult(C[c])
  <2> DEFINE r(c) == IF gates[c] \in ELIGIBLE_STATUSES THEN "none" ELSE "GATE"
  <2> SUFFICES ASSUME NEW c \in DOMAIN C PROVE IsResult(C[c]) OBVIOUS
  <2>1. C[c] = [status |-> gates[c], reason |-> r(c), amount |-> 0, currency |-> "none"]
    BY DEF GateResults
  <2> HIDE DEF C, r
  <2> QED BY <1>0, <2>1, Zenon
<1> HIDE DEF A, B, C
<1>4. \A c \in DOMAIN Overlay(B, C) : IsResult(Overlay(B, C)[c]) BY <1>2, <1>3 DEF Overlay
<1> DEFINE D == Overlay(B, C)
<1> HIDE DEF D
<1>5. \A c \in DOMAIN Overlay(A, D) : IsResult(Overlay(A, D)[c]) BY <1>1, <1>4 DEF Overlay, D
<1> QED BY <1>5 DEF A, B, C, D

(* A run that is changed at one place, so that it stays a run and its score grows.    *)
LEMMA RunStep ==
  ASSUME RunsAreScored, DiffsTell, site' = site, NEW i \in DOMAIN runs, NEW r,
         runs' = [runs EXCEPT ![i] = r], IsRun(r, site.erp),
         runs[i].scored <= r.scored,
         runs[i].scored = r.scored => r.score = runs[i].score /\ r.results = runs[i].results,
         \A kept \in r.diff : kept \in runs[i].diff \/ IsDiff(i, kept, runs)
  PROVE  RunsAreScored' /\ DiffsTell' /\ RunsGrow(runs, runs')
<1>1. /\ IsSeq(runs') /\ DOMAIN runs' = DOMAIN runs
      /\ \A j \in DOMAIN runs : runs'[j] = IF j = i THEN r ELSE runs[j]
  BY SeqExcept, Zenon DEF RunsAreScored
<1>2. \A j \in DOMAIN runs : IsRun(runs[j], site.erp) /\ IsRun(runs'[j], site.erp)
  BY <1>1, Zenon DEF RunsAreScored
<1>3. RunsAreScored' BY <1>1, <1>2, Zenon DEF RunsAreScored
<1>4. \A j \in DOMAIN runs : runs[j].scored \in Nat /\ runs'[j].scored \in Nat
  BY <1>2, Zenon DEF IsRun
<1>5. RunsGrow(runs, runs') BY <1>1, <1>4 DEF RunsGrow
<1>6. DiffsTell'
  <2> SUFFICES ASSUME NEW j \in DOMAIN runs', NEW kept \in runs'[j].diff
               PROVE  IsDiff(j, kept, runs')
    BY Zenon DEF DiffsTell
  <2>1. j \in DOMAIN runs BY <1>1
  <2>2. kept \in runs[j].diff \/ IsDiff(j, kept, runs) BY <1>1, <2>1, Zenon
  <2>3. IsDiff(j, kept, runs) BY <2>1, <2>2, Zenon DEF DiffsTell
  <2> QED BY <1>5, <2>1, <2>3, DiffsStay, Zenon
<1> QED BY <1>3, <1>5, <1>6

(* A snapshot without data has facts: none.                                           *)
LEMMA NothingIsFacts == IsFacts(Nothing)
<1>1. IsFiniteSet({}) BY FS_EmptySet
<1>2. DOMAIN Nothing.lists = {} /\ Nothing.raw = {} /\ Nothing.identity = {} /\ Nothing.today = 0
      /\ {"lists", "raw", "identity", "today"} \subseteq DOMAIN Nothing
  BY SMT DEF Nothing
<1> QED BY <1>1, <1>2 DEF IsFacts

(* A run that begins.                                                              *)
LEMMA BeginStep ==
  ASSUME RunsAreScored, DiffsTell, Begin
  PROVE  RunsAreScored' /\ DiffsTell' /\ RunsGrow(runs, runs')
<1>1. runs' = Append(runs, NoRun) /\ site' = site BY Zenon DEF Begin
<1>2. /\ Len(runs) \in Nat /\ DOMAIN runs = 1..Len(runs)
      /\ IsSeq(runs') /\ DOMAIN runs' = 1..(Len(runs) + 1)
      /\ (\A i \in 1..Len(runs) : runs'[i] = runs[i]) /\ runs'[Len(runs) + 1] = NoRun
  BY <1>1, SeqLen, SeqAppend DEF RunsAreScored
<1>3. IsRun(NoRun, site.erp) /\ NoRun.diff = {}
  <2>1. IsFacts(Nothing) BY NothingIsFacts
  <2>2. NoRun.facts = Nothing BY SMT DEF NoRun
  <2> QED BY <2>1, <2>2, SMT DEF IsRun, NoRun, RunFields
<1>4. \A i \in DOMAIN runs : i \in DOMAIN runs' /\ runs'[i] = runs[i] BY <1>2
<1>5. \A i \in DOMAIN runs' : i \in DOMAIN runs \/ runs'[i] = NoRun BY <1>2
<1>6. RunsAreScored' BY <1>1, <1>2, <1>3, <1>4, <1>5, Zenon DEF RunsAreScored
<1>7. \A i \in DOMAIN runs : runs[i].scored \in Nat BY Zenon DEF RunsAreScored, IsRun
<1>8. RunsGrow(runs, runs') BY <1>4, <1>7 DEF RunsGrow
<1>9. DiffsTell'
  <2> SUFFICES ASSUME NEW j \in DOMAIN runs', NEW kept \in runs'[j].diff
               PROVE  IsDiff(j, kept, runs')
    BY Zenon DEF DiffsTell
  <2>1. j \in DOMAIN runs /\ kept \in runs[j].diff BY <1>3, <1>4, <1>5
  <2>2. IsDiff(j, kept, runs) BY <2>1, Zenon DEF DiffsTell
  <2> QED BY <1>8, <2>1, <2>2, DiffsStay, Zenon
<1> QED BY <1>6, <1>8, <1>9

(* The end that was last stamped on a run is not before any run's end.                *)
LEMMA LastFinishIsNat ==
  ASSUME RunsAreScored
  PROVE  LastFinish \in Nat /\ \A i \in DOMAIN runs : runs[i].at <= LastFinish
<1> DEFINE S == {runs[i].at : i \in DOMAIN runs}
           T == {0} \cup S
<1>1. \A i \in DOMAIN runs : runs[i].at \in Nat BY Zenon DEF RunsAreScored, IsRun
<1>2. IsFiniteSet(DOMAIN runs)
  BY SeqLen, FS_Interval DEF RunsAreScored
<1>3. IsFiniteSet(S)
  <2> DEFINE D == DOMAIN runs
             f == [i \in D |-> runs[i].at]
  <2>1. S = {f[i] : i \in D} OBVIOUS
  <2>2. IsFiniteSet({f[i] : i \in D})
    <3> DEFINE E == {f[i] : i \in D}
    <3>1. f \in [D -> E] /\ \A y \in E : \E i \in D : f[i] = y OBVIOUS
    <3> HIDE DEF f, E
    <3>2. f \in Surjection(D, E) BY <3>1, Zenon DEF Surjection
    <3> HIDE DEF D
    <3> QED BY <1>2, <3>2, FS_Surjection DEF D, E
  <2> HIDE DEF S, f, D
  <2> QED BY <2>1, <2>2, Zenon
<1>4. IsFiniteSet(T) /\ T \in SUBSET Int /\ T # {} /\ 0 \in T /\ T \subseteq Nat
  <2>1. S \subseteq Nat BY <1>1
  <2> HIDE DEF S
  <2>2. IsFiniteSet({0}) BY FS_Singleton
  <2>3. IsFiniteSet({0} \cup S) BY <1>3, <2>2, FS_Union
  <2> QED BY <2>1, <2>3
<1>5. Max(T) \in T /\ \A y \in T : y <= Max(T)
  <2> HIDE DEF T
  <2> QED BY <1>4, MaxOfFinite
<1>6. LastFinish = Max(T) BY Zenon DEF LastFinish
<1> QED BY <1>4, <1>5, <1>6

(* A run that is scored is a run, with one score more.                              *)
LEMMA ScoreStep ==
  ASSUME site \in Deployments, RunsAreScored, DiffsTell,
         NEW i \in DOMAIN runs, NEW found \in site.finds, Score(i, found)
  PROVE  RunsAreScored' /\ DiffsTell' /\ RunsGrow(runs, runs')
<1> DEFINE measured == Measured(found)
           gates == GatesOf(found.world, config, site.erp, site.live)
           results == Overlay(DriftResults(measured), Overlay(found.results, GateResults(gates)))
           n == _normalize_results(results, site.erp)
           s == assemble_dcs_score(results, site.erp)
           m == rollup_revenue_impact(results).estimate
           at == LastFinish + 1
           x == runs[i]
           r == [x EXCEPT !.status = "SUCCEEDED", !.tail = "scored", !.at = at,
                          !.scored = @ + 1, !.facts = found.facts, !.drift = measured,
                          !.score = s, !.results = n, !.impact = m]
<1>1. Assemblable(n) /\ runs' = [runs EXCEPT ![i] = r] /\ site' = site
  BY Zenon DEF Score
<1>2. \A c \in DOMAIN results : IsResult(results[c])
  BY ResultsAreRecords, Zenon
<1>3. /\ DOMAIN n = Checks /\ _normalize_results(n, site.erp) = n
      /\ s = assemble_dcs_score(n, site.erp) /\ m \in Int
  <2>1. DOMAIN n = Checks BY <1>1, Zenon DEF Assemblable
  <2> HIDE DEF results
  <2> QED BY <1>2, <2>1, NormalizedTwice, ImpactIsInt, Zenon
<1>4. at \in Nat BY LastFinishIsNat
<1>5. RunFields \subseteq DOMAIN x /\ x.scored \in Nat BY Zenon DEF RunsAreScored, IsRun
<1>6. /\ RunFields \subseteq DOMAIN r
      /\ r.status = "SUCCEEDED" /\ r.at = at /\ r.scored = x.scored + 1
      /\ r.score = s /\ r.results = n /\ r.impact = m /\ r.diff = x.diff /\ r.facts = found.facts
  <2> HIDE DEF x, s, n, m, at, measured
  <2> QED BY <1>5, SMT DEF RunFields
<1> HIDE DEF r, s, n, m, at, results, x
<1>7. IsAssembled(r, site.erp) BY <1>3, <1>6, Zenon DEF IsAssembled
<1>8. r.scored \in Nat /\ r.scored > 0 /\ r.scored # 0 /\ x.scored <= r.scored /\ x.scored # r.scored
  BY <1>5, <1>6
<1>9. IsRun(r, site.erp)
  <2>1. IsFacts(found.facts) BY DeploymentsAssumption, Zenon
  <2> QED BY <1>4, <1>6, <1>7, <1>8, <2>1, Zenon DEF IsRun
<1>10. \A kept \in r.diff : kept \in runs[i].diff \/ IsDiff(i, kept, runs) BY <1>6 DEF x
<1>11. runs[i].scored = r.scored => r.score = runs[i].score /\ r.results = runs[i].results
  BY <1>8 DEF x
<1>12. runs[i].scored <= r.scored BY <1>8 DEF x
<1> QED BY <1>1, <1>9, <1>10, <1>11, <1>12, RunStep, Zenon

(* A run whose score stays: what its status, its tail, its end and its diff become.   *)
LEMMA KeptScore ==
  ASSUME RunsAreScored, DiffsTell, site' = site, NEW i \in DOMAIN runs, NEW r,
         runs' = [runs EXCEPT ![i] = r], RunFields \subseteq DOMAIN r,
         r.scored = runs[i].scored, r.score = runs[i].score, r.results = runs[i].results,
         r.facts = runs[i].facts, r.impact = runs[i].impact, r.at \in Nat,
         r.status \in {"RUNNING", "FAILED"} \/ r.status = runs[i].status,
         r.tail \in {runs[i].tail, "none"} \/ runs[i].tail # "none",
         \A kept \in r.diff : kept \in runs[i].diff \/ IsDiff(i, kept, runs)
  PROVE  RunsAreScored' /\ DiffsTell' /\ RunsGrow(runs, runs')
<1>1. IsRun(runs[i], site.erp) BY Zenon DEF RunsAreScored
<1>2. r.scored > 0 => IsAssembled(r, site.erp)
  BY <1>1, Zenon DEF IsRun, IsAssembled
<1>3. IsRun(r, site.erp) BY <1>1, <1>2 DEF IsRun
<1>4. runs[i].scored <= r.scored BY <1>1 DEF IsRun
<1>5. runs[i].scored = r.scored => r.score = runs[i].score /\ r.results = runs[i].results
  OBVIOUS
<1> QED BY <1>3, <1>4, <1>5, RunStep, Zenon

(* A run that fails, or that goes on, keeps its score, its results and its diff.      *)
LEMMA FailStep ==
  ASSUME RunsAreScored, DiffsTell, site' = site, NEW i \in DOMAIN runs, NEW r,
         runs' = [runs EXCEPT ![i] = r], RunFields \subseteq DOMAIN r,
         r.scored = runs[i].scored, r.score = runs[i].score, r.results = runs[i].results,
         r.facts = runs[i].facts, r.impact = runs[i].impact, r.diff = runs[i].diff, r.at \in Nat,
         r.status \in {"RUNNING", "FAILED"}, r.tail \in {runs[i].tail, "none"}
  PROVE  RunsAreScored' /\ DiffsTell' /\ RunsGrow(runs, runs')
<1>1. /\ r.status \in {"RUNNING", "FAILED"} \/ r.status = runs[i].status
      /\ r.tail \in {runs[i].tail, "none"} \/ runs[i].tail # "none"
      /\ \A kept \in r.diff : kept \in runs[i].diff \/ IsDiff(i, kept, runs)
  OBVIOUS
<1> QED BY <1>1, KeptScore, Zenon

(* Of some runs one finished last.                                                    *)
LEMMA LastOfRuns ==
  ASSUME RunsAreScored, NEW S \in SUBSET DOMAIN runs, S # {}
  PROVE  LastFinished(S) \in S /\ \A j \in S : runs[j].at <= runs[LastFinished(S)].at
<1> DEFINE n == Len(runs)
           at == [i \in 1..n |-> runs[i].at]
<1>1. n \in Nat /\ DOMAIN runs = 1..n BY SeqLen, Zenon DEF RunsAreScored
<1>2. \A i \in 1..n : at[i] \in Int /\ at[i] = runs[i].at
  BY <1>1 DEF RunsAreScored, IsRun
<1>3. \E i \in S : \A j \in S : at[j] <= at[i]
  <2>1. S \in SUBSET (1..n) BY <1>1
  <2> HIDE DEF at, n
  <2> QED BY <1>1, <1>2, <2>1, SomeLast
<1>4. \E i \in S : \A j \in S : runs[j].at <= runs[i].at
  <2> HIDE DEF at, n
  <2> QED BY <1>1, <1>2, <1>3
<1> QED BY <1>4, Zenon DEF LastFinished

(* What a run that was scored has to tell of: whole numbers.                         *)
LEMMA ScoredRunTells ==
  ASSUME NEW erp, NEW r, IsRun(r, erp), r.scored > 0
  PROVE  /\ r.score.headline \in Int /\ r.impact \in Int
         /\ \A x \in DOMAIN r.score.dims : r.score.dims[x].score \in Int
         /\ Passed(r.results) \in Int /\ Failed(r.results) \in Int
         /\ DOMAIN r.results = Checks
         /\ r.score.headline # NoScore => Unblocked(r.results)
<1>1. IsAssembled(r, erp) BY Zenon DEF IsRun
<1>2. /\ r.score = assemble_dcs_score(r.results, erp) /\ DOMAIN r.results = Checks /\ r.impact \in Int
      /\ r.results = _normalize_results(r.results, erp)
  BY <1>1, Zenon DEF IsAssembled
<1> DEFINE results == r.results
<1>3. /\ assemble_dcs_score(results, erp).headline \in Int
      /\ \A x \in DOMAIN assemble_dcs_score(results, erp).dims :
           assemble_dcs_score(results, erp).dims[x].score \in Int
      /\ assemble_dcs_score(results, erp).headline # NoScore =>
           Unblocked(_normalize_results(results, erp))
  BY ScoreSays, Zenon
<1>4. Passed(r.results) \in Int /\ Failed(r.results) \in Int
  <2> SUFFICES ASSUME NEW st PROVE Cardinality({c \in Checks : r.results[c].status = st}) \in Int
    BY <1>2, Zenon DEF Passed, Failed
  <2> DEFINE C == {c \in Checks : r.results[c].status = st}
  <2>1. C \subseteq Checks OBVIOUS
  <2> HIDE DEF C
  <2>2. IsFiniteSet(C) BY <2>1, ScoreAssumption, FS_Subset
  <2>3. Cardinality(C) \in Int BY <2>2, FS_CardinalityType
  <2> QED BY <2>3 DEF C
<1> QED BY <1>2, <1>3, <1>4, Zenon

(* A difference of two values adds up (_delta_section).                               *)
LEMMA DeltasAddUp ==
  ASSUME NEW a \in Int, NEW b \in Int
  PROVE  AddsUp(_delta_section(a, b)) 
<1>1. CASE NoScore \in {a, b}
  <2> HIDE DEF NoScore
  <2> QED BY <1>1, SMT DEF AddsUp, _delta_section
<1>2. CASE NoScore \notin {a, b}
  <2> HIDE DEF NoScore
  <2> QED BY <1>2, SMT DEF AddsUp, _delta_section
<1> QED BY <1>1, <1>2, Zenon

(* The diff that is made of a run tells its score and that of the run before it.      *)
LEMMA DiffIsMade ==
  ASSUME RunsAreScored, NEW i \in DOMAIN runs, HasHeadline(runs[i])
  PROVE  IsDiff(i, [of |-> runs[i].scored, diff |-> DiffOf(i)], runs)
<1> DEFINE kept == [of |-> runs[i].scored, diff |-> DiffOf(i)]
           d == DiffOf(i)
           j == get_previous_scored_dcs_run(i)
           earlier == {k \in DOMAIN runs : HasHeadline(runs[k]) /\ runs[k].at < runs[i].at}
<1> SUFFICES IsDiff(i, kept, runs) OBVIOUS
<1>1. \A k \in DOMAIN runs : IsRun(runs[k], site.erp) BY Zenon DEF RunsAreScored
<1>2. kept.of = runs[i].scored /\ kept.diff = d OBVIOUS
<1>3. runs[i].scored \in Nat /\ runs[i].scored <= runs[i].scored /\ runs[i].scored > 0
  BY <1>1 DEF IsRun, HasHeadline
<1>4. CASE j = 0
  <2>1. d = Baseline BY <1>4, Zenon DEF DiffOf
  <2>2. d.baseline BY <2>1 DEF Baseline
  <2> HIDE DEF kept, d
  <2> QED BY <1>2, <1>3, <2>2, Zenon DEF IsDiff
<1>5. CASE j # 0
  <2>1. earlier # {} /\ j = LastFinished(earlier)
    BY <1>5, Zenon DEF get_previous_scored_dcs_run
  <2>2. earlier \in SUBSET DOMAIN runs OBVIOUS
  <2>3. j \in earlier
    <3> HIDE DEF j, earlier
    <3> QED BY <2>1, <2>2, LastOfRuns, Zenon
  <2>4. j \in DOMAIN runs /\ HasHeadline(runs[j]) /\ runs[j].at < runs[i].at
    <3> HIDE DEF j
    <3> QED BY <2>3
  <2>5. d = build_consecutive_run_diff(Side(i), Side(j)) BY <1>5, Zenon DEF DiffOf
  <2> HIDE DEF j, earlier, d
  <2>6. j # i BY <1>1, <2>4 DEF IsRun
  <2>7. runs[j].scored \in Nat /\ runs[j].scored <= runs[j].scored /\ runs[j].scored > 0
    BY <1>1, <2>4 DEF IsRun, HasHeadline
  <2> DEFINE s == runs[i].score
             p == runs[j].score
             a(x) == IF x \in DOMAIN p.dims THEN p.dims[x].score ELSE NoScore
             b(x) == IF x \in DOMAIN s.dims THEN s.dims[x].score ELSE NoScore
  <2>8. /\ s.headline \in Int /\ runs[i].impact \in Int
        /\ \A x \in DOMAIN s.dims : s.dims[x].score \in Int
        /\ Passed(runs[i].results) \in Int /\ Failed(runs[i].results) \in Int
    BY <1>1, <1>3, ScoredRunTells, Zenon
  <2>9. /\ p.headline \in Int /\ runs[j].impact \in Int
        /\ \A x \in DOMAIN p.dims : p.dims[x].score \in Int
        /\ Passed(runs[j].results) \in Int /\ Failed(runs[j].results) \in Int
    BY <1>1, <2>4, <2>7, ScoredRunTells, Zenon
  <2>10. /\ ~d.baseline /\ d.to = <<j, runs[j].scored>>
         /\ d.headline = _delta_section(p.headline, s.headline)
         /\ d.impact = _delta_section(runs[j].impact, runs[i].impact)
         /\ d.passed = _delta_section(Passed(runs[j].results), Passed(runs[i].results))
         /\ d.failed = _delta_section(Failed(runs[j].results), Failed(runs[i].results))
         /\ d.dims = [x \in DOMAIN p.dims \cup DOMAIN s.dims |-> _delta_section(a(x), b(x))]
    BY <2>5, SMT DEF build_consecutive_run_diff, Side
  <2>11. \A x : a(x) \in Int /\ b(x) \in Int 
    <3>1. NoScore \in Int BY NoScoreIsInt, SMT
    <3> QED BY <2>8, <2>9, <3>1, Zenon
  <2> HIDE DEF s, p, a, b
  <2>12. /\ AddsUp(d.headline) /\ AddsUp(d.impact) /\ AddsUp(d.passed) /\ AddsUp(d.failed)
         /\ \A x \in DOMAIN d.dims : AddsUp(d.dims[x])
    <3>1. AddsUp(d.headline) /\ AddsUp(d.impact) BY <2>8, <2>9, <2>10, DeltasAddUp, Zenon DEF s, p
    <3>2. AddsUp(d.passed) /\ AddsUp(d.failed) BY <2>8, <2>9, <2>10, DeltasAddUp, Zenon
    <3>3. \A x \in DOMAIN d.dims : d.dims[x] = _delta_section(a(x), b(x)) BY <2>10
    <3> QED BY <2>11, <3>1, <3>2, <3>3, DeltasAddUp, Zenon
  <2>13. d.headline.current = s.headline /\ d.headline.previous = p.headline
    BY <2>10, SMT DEF _delta_section
  <2>14. d.to[1] = j /\ d.to[2] = runs[j].scored BY <2>10
  <2> HIDE DEF kept
  <2> QED BY <1>2, <1>3, <2>4, <2>6, <2>7, <2>12, <2>13, <2>14, Zenon DEF IsDiff, s, p
<1> QED BY <1>4, <1>5

(* persist_consecutive_run_diff stores a diff that tells the scores it compares.      *)
LEMMA PersistStep ==
  ASSUME RunsAreScored, DiffsTell, NEW i \in DOMAIN runs, persist_consecutive_run_diff(i)
  PROVE  RunsAreScored' /\ DiffsTell' /\ RunsGrow(runs, runs')
<1> DEFINE x == runs[i]
           new == IF x.diff # {} \/ ~HasHeadline(x) THEN x.diff
                  ELSE {[of |-> x.scored, diff |-> DiffOf(i)]}
           r == [x EXCEPT !.tail = "told", !.diff = new]
<1>1. /\ x.tail = "scored" /\ site' = site
      /\ runs' = [runs EXCEPT ![i].tail = "told", ![i].diff = new]
  BY Zenon DEF persist_consecutive_run_diff
<1>2. IsSeq(runs) /\ IsRun(x, site.erp) BY Zenon DEF RunsAreScored
<1>3. RunFields \subseteq DOMAIN x BY <1>2, Zenon DEF IsRun
<1>4. runs' = [runs EXCEPT ![i] = r]
  <2> HIDE DEF new
  <2> QED BY <1>1, <1>2, <1>3
<1>5. /\ RunFields \subseteq DOMAIN r /\ r.status = x.status /\ r.at = x.at
      /\ r.scored = x.scored /\ r.score = x.score /\ r.results = x.results
      /\ r.impact = x.impact /\ r.diff = new /\ r.facts = x.facts
  <2> HIDE DEF x, new
  <2> QED BY <1>3, SMT DEF RunFields
<1>6. \A kept \in new : kept \in x.diff \/ IsDiff(i, kept, runs)
  <2>1. HasHeadline(x) => IsDiff(i, [of |-> x.scored, diff |-> DiffOf(i)], runs)
    BY DiffIsMade, Zenon
  <2> QED BY <2>1, Zenon
<1> HIDE DEF r, new
<1>7. r.at \in Nat BY <1>2, <1>5, Zenon DEF IsRun
<1>8. /\ r.status \in {"RUNNING", "FAILED"} \/ r.status = x.status
      /\ r.tail \in {x.tail, "none"} \/ x.tail # "none"
      /\ \A kept \in r.diff : kept \in x.diff \/ IsDiff(i, kept, runs)
  BY <1>1, <1>5, <1>6
<1> QED BY <1>1, <1>4, <1>5, <1>7, <1>8, KeptScore, Zenon DEF x

(* A request that reads the configuration is added to the others, with what it read    *)
(* and what it was answered, and changes nothing else.                               *)
IsRead == /\ \E c : calls' = calls \cup {c} /\ c.world \in Worlds /\ c.copy = config
          /\ UNCHANGED <<site, config, runs, mode, pilots>>
LEMMA ReadsAreReads ==
  /\ \A id, by, w : w \in Worlds /\ EnsureOwner(id, by, w) => IsRead
  /\ \A id, primary, w : w \in Worlds /\ ManagoOwnersView_put(id, primary, w) => IsRead
  /\ \A id, key, w : w \in Worlds /\ ManagoApiV3KeyView(id, key, w) => IsRead
  /\ \A i, w : w \in Worlds /\ StartRun(i, w) => IsRead
<1>1. ASSUME NEW id, NEW by, NEW w \in Worlds, EnsureOwner(id, by, w) PROVE IsRead
  <2> DEFINE c == Call(id, 0, by, w)
  <2>1. c.world = w /\ c.copy = config BY DEF Call
  <2>2. calls' = calls \cup {c} /\ UNCHANGED <<site, config, runs, mode, pilots>>
    BY <1>1, Zenon DEF EnsureOwner, ReadConfig
  <2> HIDE DEF c
  <2> QED BY <2>1, <2>2, Zenon DEF IsRead
<1>2. ASSUME NEW id, NEW primary, NEW w \in Worlds, ManagoOwnersView_put(id, primary, w) PROVE IsRead
  <2> DEFINE c == [Call(id, 0, "owner", w) EXCEPT !.primary = primary]
  <2>1. c.world = w /\ c.copy = config BY DEF Call
  <2>2. calls' = calls \cup {c} /\ UNCHANGED <<site, config, runs, mode, pilots>>
    BY <1>2, Zenon DEF ManagoOwnersView_put, ReadConfig
  <2> HIDE DEF c
  <2> QED BY <2>1, <2>2, Zenon DEF IsRead
<1>3. ASSUME NEW id, NEW key, NEW w \in Worlds, ManagoApiV3KeyView(id, key, w) PROVE IsRead
  <2> DEFINE c == [Call(id, 0, "key", w) EXCEPT !.key = key]
  <2>1. c.world = w /\ c.copy = config BY DEF Call
  <2>2. calls' = calls \cup {c} /\ UNCHANGED <<site, config, runs, mode, pilots>>
    BY <1>3, Zenon DEF ManagoApiV3KeyView, ReadConfig
  <2> HIDE DEF c
  <2> QED BY <2>1, <2>2, Zenon DEF IsRead
<1>4. ASSUME NEW i, NEW w \in Worlds, StartRun(i, w) PROVE IsRead
  <2> DEFINE c == Call(0, i, "run", w)
  <2>1. c.world = w /\ c.copy = config BY DEF Call
  <2>2. calls' = calls \cup {c} /\ UNCHANGED <<site, config, runs, mode, pilots>>
    BY <1>4, Zenon DEF StartRun, ReadConfig
  <2> HIDE DEF c
  <2> QED BY <2>1, <2>2, Zenon DEF IsRead
<1> QED BY <1>1, <1>2, <1>3, <1>4, Zenon

(* A configuration step reads or saves, and a scoring step that starts a run reads.    *)
LEMMA ConfiguringStep ==
  /\ Configuring => IsRead \/ \E c \in calls : SaveConfig(c)
  /\ Scoring => \/ IsRead \/ Begin
                \/ \E i \in DOMAIN runs :
                     \/ \E found \in site.finds : Score(i, found)
                     \/ FailRun(i) \/ persist_consecutive_run_diff(i) \/ FailAfterwards(i)
                \/ \E m : Assess(m)
BY ReadsAreReads, Zenon DEF Configuring, Scoring

(* Every step of a configuration or a scoring keeps the runs what they are, and leaves *)
(* the pilots alone.                                                                 *)
LEMMA ScoringRuns ==
  ASSUME IInv, Configuring \/ Scoring
  PROVE  /\ RunsAreScored' /\ DiffsTell' /\ RunsGrow(runs, runs')
         /\ UNCHANGED <<site, bundles, evals, builds, packages, qas, posts, handoffs>>
<1>0. RunsAreScored /\ DiffsTell /\ site \in Deployments BY Zenon DEF IInv
<1> DEFINE Same == UNCHANGED <<site, bundles, evals, builds, packages, qas, posts, handoffs>>
           Goal == RunsAreScored' /\ DiffsTell' /\ RunsGrow(runs, runs') /\ Same
<1>a. IsSeq(runs) /\ \A i \in DOMAIN runs : RunFields \subseteq DOMAIN runs[i] /\ runs[i].at \in Nat /\ runs[i].scored \in Nat
  BY <1>0, Zenon DEF RunsAreScored, IsRun
<1>b. ASSUME UNCHANGED runs, UNCHANGED site PROVE RunsAreScored' /\ DiffsTell' /\ RunsGrow(runs, runs')
  <2>1. RunsAreScored' BY <1>0, <1>b, Zenon DEF RunsAreScored
  <2>2. DiffsTell' BY <1>0, <1>b, Zenon DEF DiffsTell
  <2>3. RunsGrow(runs, runs') BY <1>a, <1>b DEF RunsGrow
  <2> QED BY <2>1, <2>2, <2>3
<1>1. CASE Begin
  <2>1. Same BY <1>1, Zenon DEF Begin, pilots
  <2> QED BY <1>0, <1>1, <2>1, BeginStep, Zenon
<1>2. CASE IsRead
  <2>1. Same /\ UNCHANGED runs /\ UNCHANGED site BY <1>2, Zenon DEF IsRead, pilots
  <2> QED BY <2>1, <1>b, Zenon
<1>3. ASSUME NEW m, Assess(m) PROVE Goal
  <2>1. Same /\ UNCHANGED runs /\ UNCHANGED site BY <1>3, Zenon DEF Assess, pilots
  <2> QED BY <2>1, <1>b, Zenon
<1>4. ASSUME NEW c, SaveConfig(c), c.run \notin DOMAIN runs \/ c.run = 0 PROVE Goal
  <2>1. Same /\ runs' = IF c.run = 0 THEN runs
                        ELSE [runs EXCEPT ![c.run].status = "RUNNING", ![c.run].tail = "none"]
    BY <1>4, Zenon DEF SaveConfig, pilots
  <2>2. UNCHANGED runs
    <3>1. CASE c.run = 0 BY <2>1, <3>1
    <3>2. CASE c.run # 0
      <4>1. runs' = [runs EXCEPT ![c.run].status = "RUNNING", ![c.run].tail = "none"] BY <2>1, <3>2
      <4> QED BY <1>a, <1>4, <3>2, <4>1, ExceptElsewhere, Zenon
    <3> QED BY <3>1, <3>2
  <2> QED BY <2>1, <2>2, <1>b, Zenon
<1>10. ASSUME NEW c, SaveConfig(c), c.run \in DOMAIN runs, c.run # 0 PROVE Goal
  <2> DEFINE i == c.run
             x == runs[i]
             r == [x EXCEPT !.status = "RUNNING", !.tail = "none"]
  <2>1. Same /\ runs' = [runs EXCEPT ![i].status = "RUNNING", ![i].tail = "none"]
    BY <1>10, Zenon DEF SaveConfig, pilots
  <2>0. i \in DOMAIN runs BY <1>10
  <2> HIDE DEF i
  <2>2. runs' = [runs EXCEPT ![i] = r] BY <1>a, <2>0, <2>1
  <2>3. /\ RunFields \subseteq DOMAIN r /\ r.status = "RUNNING" /\ r.tail = "none" /\ r.at = x.at
        /\ r.scored = x.scored /\ r.score = x.score /\ r.results = x.results
        /\ r.impact = x.impact /\ r.diff = x.diff /\ r.facts = x.facts
    <3>1. RunFields \subseteq DOMAIN x BY <1>a, <2>0
    <3> HIDE DEF x
    <3> QED BY <3>1, SMT DEF RunFields
  <2> HIDE DEF r
  <2>4. r.status \in {"RUNNING", "FAILED"} /\ r.tail \in {runs[i].tail, "none"} /\ r.at \in Nat
    BY <1>a, <2>0, <2>3
  <2> QED BY <1>0, <2>0, <2>1, <2>2, <2>3, <2>4, FailStep, Zenon
<1>5. ASSUME NEW i \in DOMAIN runs, FailRun(i) PROVE Goal
  <2> DEFINE at == LastFinish + 1
             x == runs[i]
             r == [x EXCEPT !.status = "FAILED", !.at = at]
  <2>0. at \in Nat BY <1>0, LastFinishIsNat
  <2>1. Same /\ runs' = [runs EXCEPT ![i].status = "FAILED", ![i].at = at]
    BY <1>5, Zenon DEF FailRun, pilots
  <2> HIDE DEF at
  <2>2. runs' = [runs EXCEPT ![i] = r] BY <1>a, <2>1
  <2>3. /\ RunFields \subseteq DOMAIN r /\ r.status = "FAILED" /\ r.tail = x.tail /\ r.at = at
        /\ r.scored = x.scored /\ r.score = x.score /\ r.results = x.results
        /\ r.impact = x.impact /\ r.diff = x.diff /\ r.facts = x.facts
    <3>1. RunFields \subseteq DOMAIN x BY <1>a
    <3> HIDE DEF x
    <3> QED BY <3>1, SMT DEF RunFields
  <2> HIDE DEF r
  <2>4. r.status \in {"RUNNING", "FAILED"} /\ r.tail \in {runs[i].tail, "none"} /\ r.at \in Nat
    BY <2>0, <2>3
  <2> QED BY <1>0, <2>1, <2>2, <2>3, <2>4, FailStep, Zenon
<1>6. ASSUME NEW i \in DOMAIN runs, FailAfterwards(i) PROVE Goal
  <2> DEFINE at == LastFinish + 1
             x == runs[i]
             r == [x EXCEPT !.status = "FAILED", !.tail = "none", !.at = at]
  <2>0. at \in Nat BY <1>0, LastFinishIsNat
  <2>1. Same /\ runs' = [runs EXCEPT ![i].status = "FAILED", ![i].tail = "none", ![i].at = at]
    BY <1>6, Zenon DEF FailAfterwards, pilots
  <2> HIDE DEF at
  <2>2. runs' = [runs EXCEPT ![i] = r] BY <1>a, <2>1
  <2>3. /\ RunFields \subseteq DOMAIN r /\ r.status = "FAILED" /\ r.tail = "none" /\ r.at = at
        /\ r.scored = x.scored /\ r.score = x.score /\ r.results = x.results
        /\ r.impact = x.impact /\ r.diff = x.diff /\ r.facts = x.facts
    <3>1. RunFields \subseteq DOMAIN x BY <1>a
    <3> HIDE DEF x
    <3> QED BY <3>1, SMT DEF RunFields
  <2> HIDE DEF r
  <2>4. r.status \in {"RUNNING", "FAILED"} /\ r.tail \in {runs[i].tail, "none"} /\ r.at \in Nat
    BY <2>0, <2>3
  <2> QED BY <1>0, <2>1, <2>2, <2>3, <2>4, FailStep, Zenon
<1>7. ASSUME NEW i \in DOMAIN runs, NEW found \in site.finds, Score(i, found) PROVE Goal
  <2>1. Same BY <1>7, Zenon DEF Score, pilots
  <2> QED BY <1>0, <1>7, <2>1, ScoreStep, Zenon
<1>8. ASSUME NEW i \in DOMAIN runs, persist_consecutive_run_diff(i) PROVE Goal
  <2>1. Same BY <1>8, Zenon DEF persist_consecutive_run_diff, pilots
  <2> QED BY <1>0, <1>8, <2>1, PersistStep, Zenon
<1> HIDE DEF Goal
<1>11. \A c : SaveConfig(c) => Goal BY <1>4, <1>10, Zenon
<1>9. Goal
  <2>1. CASE Scoring
    BY <1>1, <1>2, <1>3, <1>5, <1>6, <1>7, <1>8, <2>1, ConfiguringStep, Zenon DEF Goal
  <2>2. CASE Configuring BY <1>2, <1>11, <2>2, ConfiguringStep, Zenon DEF Goal
  <2> QED BY <2>1, <2>2
<1> QED BY <1>9 DEF Goal

(* So every such step keeps the invariant.                                            *)
LEMMA ScoringKeeps ==
  ASSUME IInv, Configuring \/ Scoring
  PROVE  IInv'
<1>1. /\ RunsAreScored' /\ DiffsTell' /\ RunsGrow(runs, runs')
      /\ UNCHANGED <<site, bundles, evals, builds, packages, qas, posts, handoffs>>
  BY ScoringRuns, Zenon
<1>2. RowsAreJudged' BY <1>1, Zenon DEF IInv, RowsAreJudged
<1>3. PackagesAreFounded'
  <2>1. \A c \in builds : IsContext(c, runs', bundles)
    BY <1>1, ContextsStay, Zenon DEF IInv, PackagesAreFounded
  <2>2. \A p \in DOMAIN packages : IsPackage(packages[p], site, runs', bundles)
    BY <1>1, PackagesStay, Zenon DEF IInv, PackagesAreFounded
  <2>3. IsSeq(packages) BY Zenon DEF IInv, PackagesAreFounded
  <2> QED BY <1>1, <2>1, <2>2, <2>3, Zenon DEF PackagesAreFounded
<1>4. QasAreOfPackages' /\ HandoffsGoTheirWay'
  BY <1>1, HandoffsKept, Zenon DEF IInv
<1>5. site' \in Deployments BY <1>1, Zenon DEF IInv
<1> QED BY <1>1, <1>2, <1>3, <1>4, <1>5, Zenon DEF IInv

-----------------------------------------------------------------------------
(* Evaluations of the supplemental gates.                                          *)

(* A bundle that is appended leaves what contexts and packages read of the older      *)
(* ones.                                                                              *)
LEMMA BundleAppended ==
  ASSUME NEW rs, NEW bs, NEW new, IsSeq(bs)
  PROVE  /\ \A b \in 0..Len(bs) : b \in 0..Len(Append(bs, new)) /\ StoredAt(b, Append(bs, new)) = StoredAt(b, bs)
         /\ \A c : IsContext(c, rs, bs) => IsContext(c, rs, Append(bs, new))
         /\ \A p, d : IsPackage(p, d, rs, bs) => IsPackage(p, d, rs, Append(bs, new))
<1> DEFINE bt == Append(bs, new)
<1>1. /\ Len(bs) \in Nat /\ Len(bt) = Len(bs) + 1
      /\ \A b \in 1..Len(bs) : bt[b] = bs[b]
  BY SeqLen, SeqAppend
<1> HIDE DEF bt
<1>2. \A b \in 0..Len(bs) : b \in 0..Len(bt) /\ StoredAt(b, bt) = StoredAt(b, bs)
  BY <1>1 DEF StoredAt
<1>3. ASSUME NEW c, IsContext(c, rs, bs) PROVE IsContext(c, rs, bt)
  BY <1>2, <1>3, Zenon DEF IsContext
<1>4. ASSUME NEW p, NEW d, IsPackage(p, d, rs, bs) PROVE IsPackage(p, d, rs, bt)
  <2>1. p.bundle \in 0..Len(bs) BY <1>4, Zenon DEF IsPackage
  <2>2. p.bundle \in 0..Len(bt) /\ StoredAt(p.bundle, bt) = StoredAt(p.bundle, bs) BY <1>2, <2>1
  <2> QED BY <1>4, <2>2, Zenon DEF IsPackage
<1> QED BY <1>2, <1>3, <1>4 DEF bt

(* The facts an evaluation reads are of its run, with the contacts of the newest      *)
(* import.                                                                         *)
LEMMA ContextFacts ==
  ASSUME RunsAreScored, NEW r, r = 0 \/ r \in DOMAIN runs
  PROVE  IsFacts(build_supplemental_gate_context(r))
<1> DEFINE base == IF r = 0 THEN Nothing ELSE runs[r].facts
           raw == NewestImport
           those == {i \in DOMAIN runs : runs[i].scored > 0}
           f == [base EXCEPT !.raw = raw]
<1>1. \A i \in DOMAIN runs : IsFacts(runs[i].facts) BY Zenon DEF RunsAreScored, IsRun
<1>2. IsFacts(base) BY <1>1, NothingIsFacts, Zenon
<1>3. IsFiniteSet(raw) /\ \A c \in raw : c.created \in Int
  <2>1. CASE those = {}
    <3>1. raw = {} BY <2>1, Zenon DEF NewestImport
    <3> HIDE DEF raw
    <3> QED BY <3>1, FS_EmptySet
  <2>2. CASE those # {}
    <3>1. DOMAIN runs = 1..Len(runs) /\ Len(runs) \in Nat BY SeqLen DEF RunsAreScored
    <3>2. IsFiniteSet(DOMAIN runs) BY <3>1, FS_Interval
    <3>3. those \subseteq DOMAIN runs OBVIOUS
    <3>4. raw = runs[Max(those)].facts.raw BY <2>2, Zenon DEF NewestImport
    <3> HIDE DEF those, raw
    <3>5. IsFiniteSet(those) BY <3>2, <3>3, FS_Subset
    <3>6. those \in SUBSET Int BY <3>1, <3>3
    <3>7. Max(those) \in DOMAIN runs BY <2>2, <3>3, <3>5, <3>6, MaxOfFinite
    <3> QED BY <1>1, <3>4, <3>7, Zenon DEF IsFacts
  <2> QED BY <2>1, <2>2
<1>4. {"lists", "raw", "identity", "today"} \subseteq DOMAIN base BY <1>2, Zenon DEF IsFacts
<1>5. /\ {"lists", "raw", "identity", "today"} \subseteq DOMAIN f
      /\ f.lists = base.lists /\ f.raw = raw /\ f.identity = base.identity /\ f.today = base.today
  <2> HIDE DEF base, raw
  <2> QED BY <1>4, SMT
<1>6. build_supplemental_gate_context(r) = f BY Zenon DEF build_supplemental_gate_context
<1> HIDE DEF base, raw, f
<1>7. IsFacts(f) BY <1>2, <1>3, <1>5, Zenon DEF IsFacts
<1> QED BY <1>6, <1>7

(* An evaluation starts on the facts of a run that was scored (evaluate_pilot_gates). *)
LEMMA EvaluationStep ==
  ASSUME RunsAreScored, RowsAreJudged, NEW r, NEW checks, NEW erp, StartEvaluation(r, checks, erp)
  PROVE  RowsAreJudged'
<1> DEFINE f == build_supplemental_gate_context(r)
           answers == run_supplemental_checks(checks, erp, f)
           rows == [c \in DOMAIN answers |-> [status |-> answers[c], facts |-> f, erp |-> erp]]
           e == [id |-> Len(bundles) + Cardinality(evals), run |-> r, seen |-> 0,
                 read |-> FALSE, erp |-> erp, rows |-> rows]
<1>1. evals' = evals \cup {e} /\ bundles' = bundles BY Zenon DEF StartEvaluation
<1>2. \A c \in DOMAIN rows : IsRow(c, rows[c])
  <2>1. r = 0 \/ r \in DOMAIN runs BY Zenon DEF StartEvaluation, resolve_dcs_score_run, Succeeded
  <2>2. IsFacts(f) BY <2>1, ContextFacts, Zenon
  <2> HIDE DEF f
  <2> QED BY <2>2 DEF IsRow, run_supplemental_checks
<1>3. Len(bundles) \in Nat BY SeqLen DEF RowsAreJudged
<1>4. e.seen \in 0..Len(bundles) /\ e.rows = rows /\ {"read", "seen"} \subseteq DOMAIN e
  <2> HIDE DEF rows
  <2> QED BY <1>3
<1> HIDE DEF e, rows
<1>5. \A x \in evals' : /\ {"read", "seen"} \subseteq DOMAIN x
                        /\ x.seen \in 0..Len(bundles')
                        /\ \A c \in DOMAIN x.rows : IsRow(c, x.rows[c])
  BY <1>1, <1>2, <1>4, Zenon DEF RowsAreJudged
<1> QED BY <1>1, <1>5, Zenon DEF RowsAreJudged

(* It reads the newest bundle, whose rows were judged.                                *)
LEMMA ReadStep ==
  ASSUME RowsAreJudged, NEW e \in evals, ReadBundle(e)
  PROVE  RowsAreJudged'
<1> DEFINE n == [e EXCEPT !.read = TRUE, !.seen = Len(bundles)]
<1>1. evals' = (evals \ {e}) \cup {n} /\ bundles' = bundles BY Zenon DEF ReadBundle
<1>2. Len(bundles) \in Nat BY SeqLen DEF RowsAreJudged
<1>3. {"read", "seen"} \subseteq DOMAIN e /\ \A c \in DOMAIN e.rows : IsRow(c, e.rows[c])
  BY Zenon DEF RowsAreJudged
<1>4. n.seen = Len(bundles) /\ n.rows = e.rows /\ {"read", "seen"} \subseteq DOMAIN n
  BY <1>3, SMT
<1>5. n.seen \in 0..Len(bundles) BY <1>2, <1>4
<1> HIDE DEF n
<1>6. \A x \in evals' : /\ {"read", "seen"} \subseteq DOMAIN x
                        /\ x.seen \in 0..Len(bundles')
                        /\ \A c \in DOMAIN x.rows : IsRow(c, x.rows[c])
  BY <1>1, <1>3, <1>4, <1>5, Zenon DEF RowsAreJudged
<1> QED BY <1>1, <1>6, Zenon DEF RowsAreJudged

(* save_pilot_gate_eval merges judged rows with judged rows.                          *)
LEMMA SaveStep ==
  ASSUME RowsAreJudged, NEW e \in evals, save_pilot_gate_eval(e)
  PROVE  RowsAreJudged' /\ \E new : bundles' = Append(bundles, new)
<1> DEFINE before == IF e.seen = 0 THEN [run |-> 0, rows |-> <<>>] ELSE bundles[e.seen]
           rows == _merge_results(before.rows, e.rows)
           new == [run |-> IF e.run = 0 THEN before.run ELSE e.run, erp |-> e.erp, rows |-> rows]
<1>1. evals' = evals \ {e} /\ bundles' = Append(bundles, new) BY Zenon DEF save_pilot_gate_eval
<1>2. new.rows = rows OBVIOUS
<1> HIDE DEF new
<1>3. /\ Len(bundles) \in Nat /\ DOMAIN bundles = 1..Len(bundles)
      /\ IsSeq(bundles') /\ DOMAIN bundles' = 1..(Len(bundles) + 1) /\ Len(bundles') = Len(bundles) + 1
      /\ (\A b \in 1..Len(bundles) : bundles'[b] = bundles[b]) /\ bundles'[Len(bundles) + 1] = new
  BY <1>1, SeqLen, SeqAppend DEF RowsAreJudged
<1>4. \A c \in DOMAIN before.rows : IsRow(c, before.rows[c])
  <2>1. CASE e.seen = 0
    BY <2>1
  <2>2. CASE e.seen # 0
    <3>1. before = bundles[e.seen] BY <2>2
    <3>2. e.seen \in 0..Len(bundles) BY Zenon DEF RowsAreJudged
    <3>3. e.seen \in DOMAIN bundles BY <1>3, <2>2, <3>2
    <3> HIDE DEF before
    <3> QED BY <3>1, <3>3, Zenon DEF RowsAreJudged
  <2> QED BY <2>1, <2>2
<1>5. \A c \in DOMAIN e.rows : IsRow(c, e.rows[c]) BY Zenon DEF RowsAreJudged
<1>6. \A c \in DOMAIN rows : IsRow(c, rows[c])
  <2> HIDE DEF before
  <2> QED BY <1>4, <1>5 DEF _merge_results, Overlay
<1> HIDE DEF rows, before
<1>7. \A b \in DOMAIN bundles' : (b \in DOMAIN bundles /\ bundles'[b] = bundles[b]) \/ bundles'[b] = new
  BY <1>3
<1>8. \A b \in DOMAIN bundles' : \A c \in DOMAIN bundles'[b].rows : IsRow(c, bundles'[b].rows[c])
  BY <1>2, <1>6, <1>7, Zenon DEF RowsAreJudged
<1>9. \A x \in evals' : /\ {"read", "seen"} \subseteq DOMAIN x
                        /\ x.seen \in 0..Len(bundles')
                        /\ \A c \in DOMAIN x.rows : IsRow(c, x.rows[c])
  <2> SUFFICES ASSUME NEW x \in evals'
               PROVE  /\ {"read", "seen"} \subseteq DOMAIN x
                      /\ x.seen \in 0..Len(bundles')
                      /\ \A c \in DOMAIN x.rows : IsRow(c, x.rows[c])
    OBVIOUS
  <2>1. x \in evals BY <1>1
  <2>2. /\ {"read", "seen"} \subseteq DOMAIN x /\ x.seen \in 0..Len(bundles)
        /\ \A c \in DOMAIN x.rows : IsRow(c, x.rows[c])
    BY <2>1, Zenon DEF RowsAreJudged
  <2>3. x.seen \in 0..Len(bundles') BY <1>3, <2>2
  <2> QED BY <2>2, <2>3
<1>10. RowsAreJudged' BY <1>3, <1>8, <1>9, Zenon DEF RowsAreJudged
<1> QED BY <1>1, <1>10

(* Every step of an evaluation keeps the invariant.                                   *)
LEMMA EvaluatingKeeps ==
  ASSUME IInv, Evaluating
  PROVE  IInv'
<1>0. RunsAreScored /\ RowsAreJudged BY Zenon DEF IInv
<1>1. /\ RowsAreJudged'
      /\ bundles' = bundles \/ \E new : bundles' = Append(bundles, new)
      /\ UNCHANGED <<site, runs, builds, packages, qas, posts, handoffs>>
  <2>1. ASSUME NEW r, NEW checks, NEW erp, StartEvaluation(r, checks, erp)
        PROVE  RowsAreJudged' /\ UNCHANGED <<bundles, site, runs, builds, packages, qas, posts, handoffs>>
    <3>1. UNCHANGED <<bundles, site, runs, builds, packages, qas, posts, handoffs>>
      BY <2>1, Zenon DEF StartEvaluation
    <3> QED BY <1>0, <2>1, <3>1, EvaluationStep, Zenon
  <2>2. ASSUME NEW e \in evals, ReadBundle(e)
        PROVE  RowsAreJudged' /\ UNCHANGED <<bundles, site, runs, builds, packages, qas, posts, handoffs>>
    <3>1. UNCHANGED <<bundles, site, runs, builds, packages, qas, posts, handoffs>>
      BY <2>2, Zenon DEF ReadBundle
    <3> QED BY <1>0, <2>2, <3>1, ReadStep, Zenon
  <2>3. ASSUME NEW e \in evals, save_pilot_gate_eval(e)
        PROVE  /\ RowsAreJudged' /\ \E new : bundles' = Append(bundles, new)
               /\ UNCHANGED <<site, runs, builds, packages, qas, posts, handoffs>>
    <3>1. UNCHANGED <<site, runs, builds, packages, qas, posts, handoffs>>
      BY <2>3, Zenon DEF save_pilot_gate_eval
    <3> QED BY <1>0, <2>3, <3>1, SaveStep, Zenon
  <2> QED BY <2>1, <2>2, <2>3, Zenon DEF Evaluating
<1>2. RunsAreScored' BY <1>1, Zenon DEF IInv, RunsAreScored
<1>3. DiffsTell' BY <1>1, Zenon DEF IInv, DiffsTell
<1>4. QasAreOfPackages' /\ HandoffsGoTheirWay' BY <1>1, HandoffsKept, Zenon DEF IInv
<1>5. /\ IsSeq(packages) /\ \A c \in builds : IsContext(c, runs, bundles)
      /\ \A p \in DOMAIN packages : IsPackage(packages[p], site, runs, bundles)
  BY Zenon DEF IInv, PackagesAreFounded
<1>6. PackagesAreFounded'
  <2>1. CASE bundles' = bundles BY <1>1, <1>5, <2>1, Zenon DEF PackagesAreFounded
  <2>2. ASSUME NEW new, bundles' = Append(bundles, new) PROVE PackagesAreFounded'
    <3>1. IsSeq(bundles) BY <1>0, Zenon DEF RowsAreJudged
    <3>2. /\ \A c \in builds : IsContext(c, runs, bundles')
          /\ \A p \in DOMAIN packages : IsPackage(packages[p], site, runs, bundles')
      BY <1>5, <2>2, <3>1, BundleAppended, Zenon
    <3> QED BY <1>1, <1>5, <3>2, Zenon DEF PackagesAreFounded
  <2> QED BY <1>1, <2>1, <2>2, Zenon
<1>7. site' \in Deployments BY <1>1, Zenon DEF IInv
<1> QED BY <1>1, <1>2, <1>3, <1>4, <1>6, <1>7, Zenon DEF IInv

-----------------------------------------------------------------------------
(* What a supplemental gate answers. A gate passes by the last of its rules only.    *)

Verdicts == {"PASS", "FAIL", "UNKNOWN", "NOT_CONNECTED"}

(* So a gate that passes has no earlier rule that applies.                            *)
LEMMA PassIsLast ==
  ASSUME NEW rules, NEW n \in Nat, n # 0, DOMAIN rules = 1..n, rules[n][1], rules[n][2] = "PASS",
         \A k \in 1..(n - 1) : rules[k][2] \in Verdicts \ {"PASS"}
  PROVE  /\ FirstRule(rules) \in Verdicts
         /\ FirstRule(rules) = "PASS" => \A k \in 1..(n - 1) : ~rules[k][1]
<1>2. PICK k \in 1..n : /\ rules[k][1]
                        /\ \A j \in 1..(k - 1) : ~rules[j][1]
                        /\ FirstRule(rules) = rules[k][2]
  BY RuleChosen, Zenon
<1>3. CASE k = n BY <1>2, <1>3 DEF Verdicts
<1>4. CASE k # n
  <2>1. k \in 1..(n - 1) BY <1>2, <1>4
  <2> QED BY <1>2, <2>1
<1> QED BY <1>3, <1>4

(* Missing data never passes.                                                         *)
LEMMA AbsentSays ==
  ASSUME NEW f, NEW a, NEW b
  PROVE  /\ Absent(f, a) \in Verdicts \ {"PASS"}
         /\ OneAbsent(f, a, b) \in Verdicts \ {"PASS"}
BY DEF Absent, OneAbsent, Verdicts

(* A gate that asks two questions before it passes, answered no to both.              *)
LEMMA TwoBefore ==
  ASSUME NEW a, NEW b, NEW u \in Verdicts \ {"PASS"}, NEW v \in Verdicts \ {"PASS"},
         NEW s, s = FirstRule(<< <<a, u>>, <<b, v>>, <<TRUE, "PASS">> >>)
  PROVE  s \in Verdicts /\ (s = "PASS" => ~a /\ ~b)
<1> DEFINE r == << <<a, u>>, <<b, v>>, <<TRUE, "PASS">> >>
<1>1. 3 \in Nat /\ 3 # 0 /\ DOMAIN r = 1..3 /\ r[3][2] = "PASS" OBVIOUS
<1>0. r[3][1]
  <2>1. r[3][1] = TRUE BY Zenon
  <2> QED BY <2>1, Zenon
<1>2. r[1][1] = a /\ r[2][1] = b /\ r[1][2] = u /\ r[2][2] = v OBVIOUS
<1>3. \A k \in 1..(3 - 1) : r[k][2] \in Verdicts \ {"PASS"} BY <1>2
<1> HIDE DEF r
<1>4. FirstRule(r) \in Verdicts /\ (FirstRule(r) = "PASS" => \A k \in 1..(3 - 1) : ~r[k][1])
  BY <1>0, <1>1, <1>3, PassIsLast, Zenon
<1>5. 1 \in 1..(3 - 1) /\ 2 \in 1..(3 - 1) OBVIOUS
<1>6. s = FirstRule(r) BY DEF r
<1> QED BY <1>2, <1>4, <1>5, <1>6, Zenon

(* The same for three questions.                                                      *)
LEMMA ThreeBefore ==
  ASSUME NEW a, NEW b, NEW c, NEW u \in Verdicts \ {"PASS"}, NEW v \in Verdicts \ {"PASS"},
         NEW w \in Verdicts \ {"PASS"},
         NEW s, s = FirstRule(<< <<a, u>>, <<b, v>>, <<c, w>>, <<TRUE, "PASS">> >>)
  PROVE  s \in Verdicts /\ (s = "PASS" => ~a /\ ~b /\ ~c)
<1> DEFINE r == << <<a, u>>, <<b, v>>, <<c, w>>, <<TRUE, "PASS">> >>
<1>1. 4 \in Nat /\ 4 # 0 /\ DOMAIN r = 1..4 /\ r[4][2] = "PASS" OBVIOUS
<1>0. r[4][1]
  <2>1. r[4][1] = TRUE BY Zenon
  <2> QED BY <2>1, Zenon
<1>2. r[1][1] = a /\ r[2][1] = b /\ r[3][1] = c /\ r[1][2] = u /\ r[2][2] = v /\ r[3][2] = w OBVIOUS
<1>3. \A k \in 1..(4 - 1) : r[k][2] \in Verdicts \ {"PASS"} BY <1>2
<1> HIDE DEF r
<1>4. FirstRule(r) \in Verdicts /\ (FirstRule(r) = "PASS" => \A k \in 1..(4 - 1) : ~r[k][1])
  BY <1>0, <1>1, <1>3, PassIsLast, Zenon
<1>5. 1 \in 1..(4 - 1) /\ 2 \in 1..(4 - 1) /\ 3 \in 1..(4 - 1) OBVIOUS
<1>6. s = FirstRule(r) BY DEF r
<1> QED BY <1>2, <1>4, <1>5, <1>6, Zenon

(* The same for six, as LE-07 asks them.                                              *)
LEMMA SixBefore ==
  ASSUME NEW a, NEW b, NEW c, NEW d, NEW e, NEW g, NEW t \in Verdicts \ {"PASS"},
         NEW s, s = FirstRule(<< <<a, t>>, <<b, "UNKNOWN">>, <<c, "UNKNOWN">>, <<d, "UNKNOWN">>,
                                 <<e, "FAIL">>, <<g, "UNKNOWN">>, <<TRUE, "PASS">> >>)
  PROVE  s \in Verdicts /\ (s = "PASS" => ~a /\ ~b /\ ~c /\ ~d /\ ~e /\ ~g)
<1> DEFINE r == << <<a, t>>, <<b, "UNKNOWN">>, <<c, "UNKNOWN">>, <<d, "UNKNOWN">>,
                   <<e, "FAIL">>, <<g, "UNKNOWN">>, <<TRUE, "PASS">> >>
<1>0. r[7][1]
  <2>1. r[7][1] = TRUE BY Zenon
  <2> QED BY <2>1, Zenon
<1>1. 7 \in Nat /\ 7 # 0 /\ DOMAIN r = 1..7 /\ r[7][2] = "PASS" OBVIOUS
<1>2. /\ r[1][1] = a /\ r[2][1] = b /\ r[3][1] = c /\ r[4][1] = d /\ r[5][1] = e /\ r[6][1] = g
      /\ r[1][2] = t /\ \A k \in {2, 3, 4, 6} : r[k][2] = "UNKNOWN"
      /\ r[5][2] = "FAIL"
  OBVIOUS
<1>3. \A k \in 1..(7 - 1) : r[k][2] \in Verdicts \ {"PASS"} BY <1>2 DEF Verdicts
<1> HIDE DEF r
<1>4. FirstRule(r) \in Verdicts /\ (FirstRule(r) = "PASS" => \A k \in 1..(7 - 1) : ~r[k][1])
  BY <1>0, <1>1, <1>3, PassIsLast, Zenon
<1>5. /\ 1 \in 1..(7 - 1) /\ 2 \in 1..(7 - 1) /\ 3 \in 1..(7 - 1)
      /\ 4 \in 1..(7 - 1) /\ 5 \in 1..(7 - 1) /\ 6 \in 1..(7 - 1)
  OBVIOUS
<1>6. s = FirstRule(r) BY DEF r
<1> QED BY <1>2, <1>4, <1>5, <1>6, Zenon

(* A gate whose rows are clean keeps what it tolerates.                             *)
Clean(c, f) ==
  LET bad == {x \in Judged(c, f) : Blemished(c, f, x)}
  IN /\ ListsOf(c) \subseteq DOMAIN f.lists
     /\ c \in {"CI-08", "CC-06"} => Judged(c, f) # {}
     /\ 100 * Cardinality(bad) <= Tolerated(c) * Cardinality(Judged(c, f))

(* No bad row is within every tolerance.                                              *)
LEMMA Spotless ==
  ASSUME NEW S, IsFiniteSet(S), NEW bad, bad = {}, NEW t \in Nat
  PROVE  100 * Cardinality(bad) <= t * Cardinality(S)
<1>1. Cardinality(bad) = 0 BY FS_EmptySet
<1>2. Cardinality(S) \in Nat BY FS_CardinalityType
<1> DEFINE n == Cardinality(S)
<1> HIDE DEF n
<1>3. t * n \in Nat BY <1>2, SMT DEF n
<1> QED BY <1>1, <1>3, SMT DEF n

(* A list that was given is the list the gate reads.                                  *)
LEMMA GivenList ==
  ASSUME NEW f, IsFacts(f), NEW name, Given(f, name)
  PROVE  /\ name \in DOMAIN f.lists /\ _load_list_input(f, name) = f.lists[name]
         /\ IsFiniteSet(f.lists[name])
BY Zenon DEF Given, _load_list_input, IsFacts

-----------------------------------------------------------------------------
(* The contacts a gate reads: the list that was given, or the raw rows, or the        *)
(* identities (_load_manago_contacts).                                                *)
LEMMA ContactsAreLoaded ==
  ASSUME NEW f, IsFacts(f), _load_manago_contacts(f) # {}
  PROVE  /\ Contacts(f) = _load_manago_contacts(f) /\ IsFiniteSet(_load_manago_contacts(f))
         /\ ContactSource(f) # "identity" => \A c \in _load_manago_contacts(f) : c.created \in Int
<1> DEFINE a == Given(f, "manago_contacts") \/ "manago_contacts" \in f.malformed
           b == f.raw # {}
           c == f.identity # {}
           r == << <<a, "snapshot">>, <<b, "import">>, <<c, "identity">>, <<TRUE, "none">> >>
<1>1. ContactSource(f) = FirstRule(r) BY Zenon DEF ContactSource
<1>2. ContactSource(f) = IF a THEN "snapshot" ELSE IF b THEN "import" ELSE IF c THEN "identity" ELSE "none"
  <2> HIDE DEF a, b, c
  <2>1. r[4][1]
    <3>1. r[4][1] = TRUE BY Zenon
    <3> QED BY <3>1, Zenon
  <2>2. DOMAIN r = 1..4 OBVIOUS
  <2>3. /\ r[1][1] = a /\ r[2][1] = b /\ r[3][1] = c
        /\ r[1][2] = "snapshot" /\ r[2][2] = "import" /\ r[3][2] = "identity" /\ r[4][2] = "none"
    OBVIOUS
  <2> HIDE DEF r
  <2>4. FirstRule(r) = IF r[1][1] THEN r[1][2] ELSE IF r[2][1] THEN r[2][2]
                        ELSE IF r[3][1] THEN r[3][2] ELSE r[4][2]
    BY <2>1, <2>2, FourRules, Zenon
  <2> QED BY <1>1, <2>3, <2>4, Zenon
<1>3. /\ ContactSource(f) = "snapshot" => _load_manago_contacts(f) = _load_list_input(f, "manago_contacts")
      /\ ContactSource(f) = "import" => _load_manago_contacts(f) = f.raw
      /\ ContactSource(f) \notin {"snapshot", "import"} => _load_manago_contacts(f) = f.identity
  BY SMT DEF _load_manago_contacts
<1>4. CASE a
  <2>1. _load_manago_contacts(f) = _load_list_input(f, "manago_contacts") /\ ContactSource(f) = "snapshot"
    BY <1>2, <1>3, <1>4
  <2>2. Given(f, "manago_contacts") BY <2>1, Zenon DEF _load_list_input, Given
  <2>3. _load_manago_contacts(f) = f.lists["manago_contacts"] /\ "manago_contacts" \in DOMAIN f.lists
    BY <2>1, <2>2, GivenList, Zenon
  <2> QED BY <2>3, Zenon DEF IsFacts, Contacts
<1>5. CASE ~a
  <2>1. "manago_contacts" \notin DOMAIN f.lists BY <1>5, Zenon DEF Given
  <2>2. CASE b
    <3>1. _load_manago_contacts(f) = f.raw /\ Contacts(f) = f.raw
      BY <1>2, <1>3, <1>5, <2>1, <2>2, Zenon DEF Contacts
    <3> QED BY <3>1, Zenon DEF IsFacts
  <2>3. CASE ~b
    <3>1. ContactSource(f) = IF c THEN "identity" ELSE "none" BY <1>2, <1>5, <2>3, Zenon
    <3>2. _load_manago_contacts(f) = f.identity BY <1>3, <3>1
    <3>3. Contacts(f) = f.identity BY <2>1, <2>3, Zenon DEF Contacts
    <3>4. c BY <3>2
    <3>5. ContactSource(f) = "identity" BY <3>1, <3>4, Zenon
    <3> QED BY <3>2, <3>3, <3>5, Zenon DEF IsFacts
  <2> QED BY <2>2, <2>3
<1> QED BY <1>4, <1>5

(* evaluate_ci08 passes when contacts are there and no address is bad.                *)
LEMMA Ci08Answers ==
  ASSUME NEW f
  PROVE  /\ evaluate_ci08(f) \in Verdicts
         /\ evaluate_ci08(f) = "PASS" =>
              /\ _load_manago_contacts(f) # {}
              /\ \A c \in _load_manago_contacts(f) : c.mail # "none" => _classify_email(c) # "bad"
<1> DEFINE contacts == _load_manago_contacts(f)
           mailed == {c \in contacts : c.mail # "none"}
           a == contacts = {}
           b == mailed = {}
           d == \E c \in mailed : _classify_email(c) = "bad"
           u == Absent(f, "manago")
<1>1. evaluate_ci08(f) = FirstRule(<< <<a, u>>, <<b, "UNKNOWN">>, <<d, "FAIL">>, <<TRUE, "PASS">> >>)
  BY Zenon DEF evaluate_ci08
<1>2. u \in Verdicts \ {"PASS"} /\ "UNKNOWN" \in Verdicts \ {"PASS"} /\ "FAIL" \in Verdicts \ {"PASS"}
  BY AbsentSays DEF Verdicts
<1>3. ~a /\ ~d => /\ contacts # {} /\ \A c \in contacts : c.mail # "none" => _classify_email(c) # "bad"
  <2> HIDE DEF contacts
  <2> QED BY Zenon
<1> HIDE DEF a, b, d, u, contacts
<1>4. evaluate_ci08(f) \in Verdicts /\ (evaluate_ci08(f) = "PASS" => ~a /\ ~b /\ ~d)
  BY <1>1, <1>2, ThreeBefore, Zenon
<1> QED BY <1>3, <1>4, Zenon DEF contacts

(* CI-08 passes on plain addresses only.                                              *)
LEMMA Ci08Clean ==
  ASSUME NEW f, IsFacts(f), evaluate_ci08(f) = "PASS"
  PROVE  Clean("CI-08", f)
<1> DEFINE contacts == _load_manago_contacts(f)
           bad == {x \in Judged("CI-08", f) : Blemished("CI-08", f, x)}
<1>1. contacts # {} /\ \A c \in contacts : c.mail # "none" => _classify_email(c) # "bad"
  BY Ci08Answers, Zenon
<1>2. Judged("CI-08", f) = Contacts(f) /\ ListsOf("CI-08") = {} /\ Tolerated("CI-08") = 0
  BY SMT DEF Judged, ListsOf, Tolerated
<1>3. Contacts(f) = contacts /\ IsFiniteSet(contacts) BY <1>1, ContactsAreLoaded, Zenon
<1>4. \A c \in contacts : ~Blemished("CI-08", f, c)
  <2> SUFFICES ASSUME NEW c \in contacts PROVE ~Blemished("CI-08", f, c) OBVIOUS
  <2>1. c.mail # "none" => _classify_email(c) # "bad" BY <1>1
  <2>2. c.mail # "none" => ~c.invalid /\ c.mail = "plain" BY <2>1, Zenon DEF _classify_email
  <2>3. Blemished("CI-08", f, c) <=> (c.mail \notin {"none", "plain"} \/ (c.mail = "plain" /\ c.invalid))
    BY Zenon DEF Blemished
  <2> QED BY <2>2, <2>3, Zenon
<1>5. bad = {} BY <1>2, <1>3, <1>4
<1>6. 100 * Cardinality(bad) <= 0 * Cardinality(Judged("CI-08", f))
  <2> HIDE DEF bad
  <2>1. 0 \in Nat OBVIOUS
  <2> QED BY <1>2, <1>3, <1>5, <2>1, Spotless, Zenon
<1> QED BY <1>1, <1>2, <1>3, <1>6, SMT DEF Clean

(* Share of a list that a gate tolerates.                                          *)
LEMMA ShareTolerated ==
  ASSUME NEW part, NEW whole, NEW limit, ~(~Percent(Cardinality(part), Cardinality(whole), limit))
  PROVE  100 * Cardinality(part) <= limit * Cardinality(whole)
BY SMT DEF Percent

(* The two verdicts most rules give are not PASS.                                     *)
LEMMA OtherVerdicts ==
  "UNKNOWN" \in Verdicts \ {"PASS"} /\ "FAIL" \in Verdicts \ {"PASS"}
BY DEF Verdicts

(* SP-10 passes when no more than a tenth of the buyers lack an RFM segment.          *)
LEMMA Sp10Clean ==
  ASSUME NEW f
  PROVE  evaluate_sp10(f) \in Verdicts /\ (IsFacts(f) /\ evaluate_sp10(f) = "PASS" => Clean("SP-10", f))
<1> DEFINE contacts == _load_list_input(f, "manago_contacts")
           buyers == {c \in contacts : c.buys = "yes"}
           missing == {c \in buyers : ~c.rfm}
           a == ~Given(f, "manago_contacts")
           b == contacts # {} /\ \A c \in contacts : c.buys = "unsaid"
           d == ~Percent(Cardinality(missing), Cardinality(buyers), SP10_FAIL_MISSING_RFM_SHARE)
           u == Absent(f, "manago")
<1>1. evaluate_sp10(f) = FirstRule(<< <<a, u>>, <<b, "UNKNOWN">>, <<d, "FAIL">>, <<TRUE, "PASS">> >>)
  BY Zenon DEF evaluate_sp10
<1>2. u \in Verdicts \ {"PASS"} BY AbsentSays
<1>3. evaluate_sp10(f) \in Verdicts /\ (evaluate_sp10(f) = "PASS" => ~a /\ ~b /\ ~d)
  <2> HIDE DEF a, b, d, u
  <2> QED BY <1>1, <1>2, OtherVerdicts, ThreeBefore, Zenon
<1>4. ASSUME IsFacts(f), evaluate_sp10(f) = "PASS" PROVE Clean("SP-10", f)
  <2>1. Given(f, "manago_contacts") /\ ~d BY <1>3, <1>4, Zenon
  <2>2. contacts = f.lists["manago_contacts"] /\ "manago_contacts" \in DOMAIN f.lists
    BY <1>4, <2>1, GivenList, Zenon
  <2> DEFINE bad == {x \in Judged("SP-10", f) : Blemished("SP-10", f, x)}
  <2>3. Judged("SP-10", f) = buyers
    <3> HIDE DEF contacts
    <3> QED BY <2>2, SMT DEF Judged
  <2>4. ListsOf("SP-10") = {"manago_contacts"} /\ Tolerated("SP-10") = 10
    BY SMT DEF ListsOf, Tolerated
  <2>5. \A x : Blemished("SP-10", f, x) <=> ~x.rfm BY Zenon DEF Blemished
  <2>6. bad = missing
    <3> HIDE DEF contacts
    <3> QED BY <2>3, <2>5, Zenon
  <2>7. 100 * Cardinality(bad) <= 10 * Cardinality(Judged("SP-10", f))
    <3>1. 100 * Cardinality(missing) <= SP10_FAIL_MISSING_RFM_SHARE * Cardinality(buyers)
      <4> HIDE DEF missing, buyers
      <4> QED BY <2>1, ShareTolerated
    <3> HIDE DEF bad, missing, buyers
    <3> QED BY <2>3, <2>6, <3>1 DEF SP10_FAIL_MISSING_RFM_SHARE
  <2> QED BY <2>2, <2>4, <2>7, SMT DEF Clean
<1> HIDE DEF Clean
<1> QED BY <1>3, <1>4

(* SP-04 passes when no contact has a bad date.                                       *)
LEMMA Sp04Clean ==
  ASSUME NEW f
  PROVE  evaluate_sp04(f) \in Verdicts /\ (IsFacts(f) /\ evaluate_sp04(f) = "PASS" => Clean("SP-04", f))
<1> DEFINE contacts == _load_list_input(f, "manago_contacts")
           a == ~Given(f, "manago_contacts")
           b == \E c \in contacts : "bad" \in c.dates
           d == contacts # {} /\ \A c \in contacts : c.dates = {}
           u == Absent(f, "manago")
<1>1. evaluate_sp04(f) = FirstRule(<< <<a, u>>, <<b, "FAIL">>, <<d, "UNKNOWN">>, <<TRUE, "PASS">> >>)
  BY Zenon DEF evaluate_sp04
<1>2. u \in Verdicts \ {"PASS"} BY AbsentSays
<1>3. evaluate_sp04(f) \in Verdicts /\ (evaluate_sp04(f) = "PASS" => ~a /\ ~b /\ ~d)
  <2> HIDE DEF a, b, d, u
  <2> QED BY <1>1, <1>2, OtherVerdicts, ThreeBefore, Zenon
<1>4. ASSUME IsFacts(f), evaluate_sp04(f) = "PASS" PROVE Clean("SP-04", f)
  <2>1. Given(f, "manago_contacts") /\ ~b BY <1>3, <1>4, Zenon
  <2>2. /\ contacts = f.lists["manago_contacts"] /\ "manago_contacts" \in DOMAIN f.lists
        /\ IsFiniteSet(contacts)
    BY <1>4, <2>1, GivenList, Zenon
  <2> DEFINE bad == {x \in Judged("SP-04", f) : Blemished("SP-04", f, x)}
  <2>3. Judged("SP-04", f) = contacts BY <2>2, SMT DEF Judged
  <2>4. ListsOf("SP-04") = {"manago_contacts"} /\ Tolerated("SP-04") = 0
    BY SMT DEF ListsOf, Tolerated
  <2>5. \A x : Blemished("SP-04", f, x) <=> "bad" \in x.dates BY Zenon DEF Blemished
  <2>6. bad = {}
    <3> HIDE DEF contacts
    <3> QED BY <2>1, <2>3, <2>5
  <2>7. 100 * Cardinality(bad) <= 0 * Cardinality(Judged("SP-04", f))
    <3>1. 0 \in Nat OBVIOUS
    <3> HIDE DEF bad, contacts
    <3> QED BY <2>2, <2>3, <2>6, <3>1, Spotless, Zenon
  <2> QED BY <2>2, <2>4, <2>7, SMT DEF Clean
<1> QED BY <1>3, <1>4, Zenon

(* LE-10 passes when no more than a quarter of the events are of no known type.       *)
LEMMA Le10Clean ==
  ASSUME NEW f
  PROVE  evaluate_le10(f) \in Verdicts /\ (IsFacts(f) /\ evaluate_le10(f) = "PASS" => Clean("LE-10", f))
<1> DEFINE events == _load_list_input(f, "manago_events")
           other == {e \in events : e.type = "OTHER"}
           a == ~Given(f, "manago_events")
           b == ~Percent(Cardinality(other), Cardinality(events), LE10_FAIL_OTHER_SHARE)
           d == \E e \in events : e.changed \/ (e.type = "PURCHASE" /\ e.reservation)
           u == Absent(f, "manago")
<1>1. evaluate_le10(f) = FirstRule(<< <<a, u>>, <<b, "FAIL">>, <<d, "FAIL">>, <<TRUE, "PASS">> >>)
  BY Zenon DEF evaluate_le10
<1>2. u \in Verdicts \ {"PASS"} BY AbsentSays
<1>3. evaluate_le10(f) \in Verdicts /\ (evaluate_le10(f) = "PASS" => ~a /\ ~b /\ ~d)
  <2> HIDE DEF a, b, d, u
  <2> QED BY <1>1, <1>2, OtherVerdicts, ThreeBefore, Zenon
<1>4. ASSUME IsFacts(f), evaluate_le10(f) = "PASS" PROVE Clean("LE-10", f)
  <2>1. Given(f, "manago_events") /\ ~b BY <1>3, <1>4, Zenon
  <2>2. events = f.lists["manago_events"] /\ "manago_events" \in DOMAIN f.lists
    BY <1>4, <2>1, GivenList, Zenon
  <2> DEFINE bad == {x \in Judged("LE-10", f) : Blemished("LE-10", f, x)}
  <2>3. Judged("LE-10", f) = events BY <2>2, SMT DEF Judged
  <2>4. ListsOf("LE-10") = {"manago_events"} /\ Tolerated("LE-10") = 25
    BY SMT DEF ListsOf, Tolerated
  <2>5. \A x : Blemished("LE-10", f, x) <=> x.type = "OTHER" BY Zenon DEF Blemished
  <2>6. bad = other
    <3> HIDE DEF events
    <3> QED BY <2>3, <2>5, Zenon
  <2>7. 100 * Cardinality(bad) <= 25 * Cardinality(Judged("LE-10", f))
    <3>1. 100 * Cardinality(other) <= LE10_FAIL_OTHER_SHARE * Cardinality(events)
      <4> HIDE DEF other, events
      <4> QED BY <2>1, ShareTolerated
    <3> HIDE DEF bad, other, events
    <3> QED BY <2>3, <2>6, <3>1 DEF LE10_FAIL_OTHER_SHARE
  <2> QED BY <2>2, <2>4, <2>7, SMT DEF Clean
<1> QED BY <1>3, <1>4, Zenon

(* PT-11 passes when no more than a tenth of the products are incomplete.             *)
LEMMA Pt11Clean ==
  ASSUME NEW f
  PROVE  evaluate_pt11(f) \in Verdicts /\ (IsFacts(f) /\ evaluate_pt11(f) = "PASS" => Clean("PT-11", f))
<1> DEFINE products == _load_list_input(f, "manago_products")
           partial == {p \in products : ~p.whole}
           a == ~Given(f, "manago_products")
           b == TooManyPartial(products, PT11_FAIL_INCOMPLETE_SHARE)
           u == Absent(f, "manago")
<1>1. evaluate_pt11(f) = FirstRule(<< <<a, u>>, <<b, "FAIL">>, <<TRUE, "PASS">> >>)
  BY Zenon DEF evaluate_pt11
<1>2. u \in Verdicts \ {"PASS"} BY AbsentSays
<1>3. evaluate_pt11(f) \in Verdicts /\ (evaluate_pt11(f) = "PASS" => ~a /\ ~b)
  <2> HIDE DEF a, b, u
  <2> QED BY <1>1, <1>2, OtherVerdicts, TwoBefore, Zenon
<1>4. ASSUME IsFacts(f), evaluate_pt11(f) = "PASS" PROVE Clean("PT-11", f)
  <2>1. Given(f, "manago_products") /\ ~b BY <1>3, <1>4, Zenon
  <2>2. products = f.lists["manago_products"] /\ "manago_products" \in DOMAIN f.lists
    BY <1>4, <2>1, GivenList, Zenon
  <2> DEFINE bad == {x \in Judged("PT-11", f) : Blemished("PT-11", f, x)}
  <2>3. Judged("PT-11", f) = products BY <2>2, SMT DEF Judged
  <2>4. ListsOf("PT-11") = {"manago_products"} /\ Tolerated("PT-11") = 10
    BY SMT DEF ListsOf, Tolerated
  <2>5. \A x : Blemished("PT-11", f, x) <=> ~x.whole BY SMT DEF Blemished
  <2>6. bad = partial
    <3> HIDE DEF products
    <3> QED BY <2>3, <2>5, Zenon
  <2>7. 100 * Cardinality(bad) <= 10 * Cardinality(Judged("PT-11", f))
    <3>1. 100 * Cardinality(partial) <= PT11_FAIL_INCOMPLETE_SHARE * Cardinality(products)
      <4>1. ~(~Percent(Cardinality(partial), Cardinality(products), PT11_FAIL_INCOMPLETE_SHARE))
        BY <2>1, Zenon DEF TooManyPartial
      <4> HIDE DEF partial, products
      <4> QED BY <4>1, ShareTolerated
    <3> HIDE DEF bad, partial, products
    <3> QED BY <2>3, <2>6, <3>1 DEF PT11_FAIL_INCOMPLETE_SHARE
  <2> QED BY <2>2, <2>4, <2>7, SMT DEF Clean
<1> QED BY <1>3, <1>4, Zenon

(* BR-09 passes when no more than a tenth of the products to replenish are            *)
(* incomplete.                                                                        *)
LEMMA Br09Clean ==
  ASSUME NEW f
  PROVE  evaluate_br09(f) \in Verdicts /\ (IsFacts(f) /\ evaluate_br09(f) = "PASS" => Clean("BR-09", f))
<1> DEFINE products == _load_list_input(f, "replenishment_products")
           partial == {p \in products : ~p.whole}
           a == ~Given(f, "replenishment_products")
           b == TooManyPartial(products, BR09_FAIL_MISSING_INPUT_SHARE)
<1>1. evaluate_br09(f) = FirstRule(<< <<a, "UNKNOWN">>, <<b, "FAIL">>, <<TRUE, "PASS">> >>)
  BY Zenon DEF evaluate_br09
<1>3. evaluate_br09(f) \in Verdicts /\ (evaluate_br09(f) = "PASS" => ~a /\ ~b)
  <2> HIDE DEF a, b
  <2> QED BY <1>1, OtherVerdicts, TwoBefore, Zenon
<1>4. ASSUME IsFacts(f), evaluate_br09(f) = "PASS" PROVE Clean("BR-09", f)
  <2>1. Given(f, "replenishment_products") /\ ~b BY <1>3, <1>4, Zenon
  <2>2. products = f.lists["replenishment_products"] /\ "replenishment_products" \in DOMAIN f.lists
    BY <1>4, <2>1, GivenList, Zenon
  <2> DEFINE bad == {x \in Judged("BR-09", f) : Blemished("BR-09", f, x)}
  <2>3. Judged("BR-09", f) = products BY <2>2, SMT DEF Judged
  <2>4. ListsOf("BR-09") = {"replenishment_products"} /\ Tolerated("BR-09") = 10
    BY SMT DEF ListsOf, Tolerated
  <2>5. \A x : Blemished("BR-09", f, x) <=> ~x.whole BY SMT DEF Blemished
  <2>6. bad = partial
    <3> HIDE DEF products
    <3> QED BY <2>3, <2>5, Zenon
  <2>7. 100 * Cardinality(bad) <= 10 * Cardinality(Judged("BR-09", f))
    <3>1. 100 * Cardinality(partial) <= BR09_FAIL_MISSING_INPUT_SHARE * Cardinality(products)
      <4>1. ~(~Percent(Cardinality(partial), Cardinality(products), BR09_FAIL_MISSING_INPUT_SHARE))
        BY <2>1, Zenon DEF TooManyPartial
      <4> HIDE DEF partial, products
      <4> QED BY <4>1, ShareTolerated
    <3> HIDE DEF bad, partial, products
    <3> QED BY <2>3, <2>6, <3>1 DEF BR09_FAIL_MISSING_INPUT_SHARE
  <2> QED BY <2>2, <2>4, <2>7, SMT DEF Clean
<1> QED BY <1>3, <1>4, Zenon

(* BR-03 passes when everything on an active surface is in stock.                     *)
LEMMA Br03Clean ==
  ASSUME NEW f
  PROVE  evaluate_br03(f) \in Verdicts /\ (IsFacts(f) /\ evaluate_br03(f) = "PASS" => Clean("BR-03", f))
<1> DEFINE shown == _load_list_input(f, "active_surface_products")
           a == ~Given(f, "active_surface_products")
           b == \E p \in shown : p.stock # Unknown /\ p.stock <= 0
           d == \E p \in shown : p.stock = Unknown
           u == Absent(f, "manago")
<1>1. evaluate_br03(f) = FirstRule(<< <<a, u>>, <<b, "FAIL">>, <<d, "UNKNOWN">>, <<TRUE, "PASS">> >>)
  BY Zenon DEF evaluate_br03
<1>2. u \in Verdicts \ {"PASS"} BY AbsentSays
<1>3. evaluate_br03(f) \in Verdicts /\ (evaluate_br03(f) = "PASS" => ~a /\ ~b /\ ~d)
  <2> HIDE DEF a, b, d, u
  <2> QED BY <1>1, <1>2, OtherVerdicts, ThreeBefore, Zenon
<1>4. ASSUME IsFacts(f), evaluate_br03(f) = "PASS" PROVE Clean("BR-03", f)
  <2>1. Given(f, "active_surface_products") /\ ~b /\ ~d BY <1>3, <1>4, Zenon
  <2>2. /\ shown = f.lists["active_surface_products"] /\ "active_surface_products" \in DOMAIN f.lists
        /\ IsFiniteSet(shown)
    BY <1>4, <2>1, GivenList, Zenon
  <2> DEFINE bad == {x \in Judged("BR-03", f) : Blemished("BR-03", f, x)}
  <2>3. Judged("BR-03", f) = shown BY <2>2, SMT DEF Judged
  <2>4. ListsOf("BR-03") = {"active_surface_products"} /\ Tolerated("BR-03") = 0
    BY SMT DEF ListsOf, Tolerated
  <2>5. \A x : Blemished("BR-03", f, x) <=> x.stock <= 0 \/ x.stock = Unknown BY SMT DEF Blemished
  <2>6. bad = {}
    <3> HIDE DEF shown
    <3> QED BY <2>1, <2>3, <2>5
  <2>7. 100 * Cardinality(bad) <= 0 * Cardinality(Judged("BR-03", f))
    <3>1. 0 \in Nat OBVIOUS
    <3> HIDE DEF bad, shown
    <3> QED BY <2>2, <2>3, <2>6, <3>1, Spotless, Zenon
  <2> QED BY <2>2, <2>4, <2>7, SMT DEF Clean
<1> QED BY <1>3, <1>4, Zenon

(* The last row of a list that is not empty.                                        *)
LEMMA NewestIsThere ==
  ASSUME NEW S, IsFiniteSet(S), S # {}, \A x \in S : x.id \in Int
  PROVE  Newest(S) \in S
<1> DEFINE f == [x \in S |-> x.id]
           T == {f[x] : x \in S}
<1>1. f \in [S -> T] /\ \A y \in T : \E x \in S : f[x] = y OBVIOUS
<1>2. T \subseteq Int /\ T # {} OBVIOUS
<1>3. \A x \in S : f[x] = x.id OBVIOUS
<1> HIDE DEF f, T
<1>4. IsFiniteSet(T)
  <2>1. f \in Surjection(S, T) BY <1>1, Zenon DEF Surjection
  <2> QED BY <2>1, FS_Surjection
<1>5. Max(T) \in T /\ \A y \in T : y <= Max(T) BY <1>2, <1>4, MaxOfFinite
<1>6. PICK x \in S : f[x] = Max(T) BY <1>1, <1>5
<1>7. \A y \in S : f[y] <= f[x] BY <1>1, <1>5, <1>6
<1>8. \E z \in S : \A y \in S : y.id <= z.id BY <1>3, <1>7
<1> QED BY <1>8 DEF Newest

(* CC-06 passes when no more than five in a hundred wait for a confirmation.          *)
LEMMA Cc06Clean ==
  ASSUME NEW f
  PROVE  evaluate_cc06(f) \in Verdicts /\ (IsFacts(f) /\ evaluate_cc06(f) = "PASS" => Clean("CC-06", f))
<1> DEFINE contacts == _load_manago_contacts(f)
           waiting == {c \in contacts : _is_not_confirmed(c)}
           undated == {c \in waiting : c.created = 0}
           stuck == {c \in waiting : Stuck(f, c)}
           a == contacts = {}
           b == ContactSource(f) = "identity"
           c0 == \A c \in contacts : ~_is_not_confirmed(c) /\ ~_is_confirmed(c)
           d == waiting # {} /\ undated = waiting
           e == ~Percent(Cardinality(stuck), Cardinality(contacts), CC06_FAIL_STUCK_SHARE)
           g == undated # {}
           u == Absent(f, "manago")
<1>1. evaluate_cc06(f) = FirstRule(<< <<a, u>>, <<b, "UNKNOWN">>, <<c0, "UNKNOWN">>, <<d, "UNKNOWN">>,
                                      <<e, "FAIL">>, <<g, "UNKNOWN">>, <<TRUE, "PASS">> >>)
  BY Zenon DEF evaluate_cc06
<1>2. u \in Verdicts \ {"PASS"} BY AbsentSays
<1>3. evaluate_cc06(f) \in Verdicts /\ (evaluate_cc06(f) = "PASS" => ~a /\ ~b /\ ~e /\ ~g)
  <2> HIDE DEF a, b, c0, d, e, g, u
  <2> QED BY <1>1, <1>2, SixBefore, Zenon
<1>4. ASSUME IsFacts(f), evaluate_cc06(f) = "PASS" PROVE Clean("CC-06", f)
  <2>1. contacts # {} /\ ~b /\ ~e /\ undated = {} BY <1>3, <1>4, Zenon
  <2>2. /\ Contacts(f) = contacts /\ IsFiniteSet(contacts)
        /\ \A c \in contacts : c.created \in Int
    BY <1>4, <2>1, ContactsAreLoaded, Zenon
  <2> DEFINE bad == {x \in Judged("CC-06", f) : Blemished("CC-06", f, x)}
  <2>3. Judged("CC-06", f) = contacts /\ ListsOf("CC-06") = {} /\ Tolerated("CC-06") = 5
    BY <2>2, SMT DEF Judged, ListsOf, Tolerated
  <2>5. \A x : Blemished("CC-06", f, x) <=>
                 ("not_confirmed" \in x.doi /\ (x.created = 0 \/ f.today - x.created > 1))
    BY Zenon DEF Blemished
  <2>6. bad = stuck
    <3>1. f.today \in Int BY <1>4 DEF IsFacts
    <3>2. ASSUME NEW x \in contacts PROVE Blemished("CC-06", f, x) <=> x \in stuck
      <4>1. x.created \in Int BY <2>2
      <4>2. "not_confirmed" \in x.doi => x.created # 0 BY <2>1 DEF _is_not_confirmed
      <4>3. x \in stuck <=> "not_confirmed" \in x.doi /\ Stuck(f, x) BY DEF _is_not_confirmed
      <4>4. Stuck(f, x) <=> x.created # 0 /\ x.created + 2 <= f.today
        BY SMT DEF Stuck, CC06_CONFIRMATION_WINDOW_DAYS
      <4>5. x.created # 0 => (x.created + 2 <= f.today <=> f.today - x.created > 1) BY <3>1, <4>1
      <4> HIDE DEF stuck, contacts
      <4>6. Blemished("CC-06", f, x) <=>
                 ("not_confirmed" \in x.doi /\ (x.created = 0 \/ f.today - x.created > 1))
        BY <2>5
      <4> QED BY <4>2, <4>3, <4>4, <4>5, <4>6, Zenon
    <3>3. stuck \subseteq contacts OBVIOUS
    <3> HIDE DEF stuck, contacts
    <3> QED BY <2>3, <3>2, <3>3
  <2>7. 100 * Cardinality(bad) <= 5 * Cardinality(Judged("CC-06", f))
    <3>1. 100 * Cardinality(stuck) <= CC06_FAIL_STUCK_SHARE * Cardinality(contacts)
      <4> HIDE DEF stuck, contacts
      <4> QED BY <2>1, ShareTolerated
    <3> HIDE DEF bad, stuck, contacts
    <3> QED BY <2>3, <2>6, <3>1 DEF CC06_FAIL_STUCK_SHARE
  <2> HIDE DEF bad
  <2>8. Judged("CC-06", f) # {} /\ ListsOf("CC-06") \subseteq DOMAIN f.lists BY <2>1, <2>3
  <2> QED BY <2>3, <2>7, <2>8, SMT DEF Clean, bad
<1> HIDE DEF Clean
<1> QED BY <1>3, <1>4, Zenon

(* PT-13 passes when every coupon has a code that can be used.                        *)
LEMMA Pt13Clean ==
  ASSUME NEW f
  PROVE  evaluate_pt13(f) \in Verdicts /\ (IsFacts(f) /\ evaluate_pt13(f) = "PASS" => Clean("PT-13", f))
<1> DEFINE coupons == _load_list_input(f, "manago_coupons")
           codes == _load_list_input(f, "shopify_discount_codes")
           rows(code) == {x \in codes : x.code = code /\ code # 0}
           sound(c) == rows(c.code) # {} /\ Newest(rows(c.code)).usable
           a == ~Given(f, "manago_coupons") \/ ~Given(f, "shopify_discount_codes")
           b == \E c \in coupons : ~sound(c)
           u == OneAbsent(f, "shopify_discount_codes", "manago_coupons")
<1>1. evaluate_pt13(f) = FirstRule(<< <<a, u>>, <<b, "FAIL">>, <<TRUE, "PASS">> >>)
  BY Zenon DEF evaluate_pt13
<1>2. u \in Verdicts \ {"PASS"} BY AbsentSays
<1>3. evaluate_pt13(f) \in Verdicts /\ (evaluate_pt13(f) = "PASS" => ~a /\ ~b)
  <2> HIDE DEF a, b, u
  <2> QED BY <1>1, <1>2, OtherVerdicts, TwoBefore, Zenon
<1>4. ASSUME IsFacts(f), evaluate_pt13(f) = "PASS" PROVE Clean("PT-13", f)
  <2>1. Given(f, "manago_coupons") /\ Given(f, "shopify_discount_codes") /\ ~b
    BY <1>3, <1>4, Zenon
  <2>2. /\ coupons = f.lists["manago_coupons"] /\ codes = f.lists["shopify_discount_codes"]
        /\ {"manago_coupons", "shopify_discount_codes"} \subseteq DOMAIN f.lists
        /\ IsFiniteSet(coupons) /\ IsFiniteSet(codes)
    <3>1. /\ coupons = f.lists["manago_coupons"] /\ "manago_coupons" \in DOMAIN f.lists
          /\ IsFiniteSet(coupons)
      BY <1>4, <2>1, GivenList, Zenon
    <3>2. /\ codes = f.lists["shopify_discount_codes"] /\ "shopify_discount_codes" \in DOMAIN f.lists
          /\ IsFiniteSet(codes)
      BY <1>4, <2>1, GivenList, Zenon
    <3> HIDE DEF codes, coupons
    <3> QED BY <3>1, <3>2
  <2>3. \A x \in codes : x.id \in Int
    <3>1. \A x \in f.lists["shopify_discount_codes"] : x.id \in Int
      BY <1>4, <2>2 DEF IsFacts
    <3> QED BY <2>2, <3>1, Zenon
  <2> DEFINE bad == {x \in Judged("PT-13", f) : Blemished("PT-13", f, x)}
  <2>4. Judged("PT-13", f) = coupons
    <3> HIDE DEF coupons
    <3> QED BY <2>2, SMT DEF Judged
  <2>5. ListsOf("PT-13") = {"manago_coupons", "shopify_discount_codes"} /\ Tolerated("PT-13") = 0
    BY SMT DEF ListsOf, Tolerated
  <2>6. \A c \in coupons : ~Blemished("PT-13", f, c)
    <3> SUFFICES ASSUME NEW c \in coupons PROVE ~Blemished("PT-13", f, c) OBVIOUS
    <3>1. rows(c.code) # {} /\ Newest(rows(c.code)).usable BY <2>1
    <3>2. IsFiniteSet(rows(c.code)) /\ \A x \in rows(c.code) : x.id \in Int
      <4>1. rows(c.code) \subseteq codes OBVIOUS
      <4> DEFINE R == rows(c.code)
      <4> HIDE DEF R
      <4>2. R \subseteq codes BY <4>1 DEF R
      <4> HIDE DEF codes
      <4>3. IsFiniteSet(R) BY <2>2, <4>2, FS_Subset
      <4> QED BY <2>3, <4>2, <4>3 DEF R
    <3>3. Newest(rows(c.code)) \in rows(c.code)
      <4> DEFINE R == rows(c.code)
      <4>1. R # {} /\ IsFiniteSet(R) /\ \A x \in R : x.id \in Int BY <3>1, <3>2
      <4> HIDE DEF R
      <4>2. Newest(R) \in R BY <4>1, NewestIsThere
      <4> QED BY <4>2 DEF R
    <3> DEFINE y == Newest(rows(c.code))
    <3>4. y \in codes /\ y.code = c.code /\ y.usable BY <3>1, <3>3
    <3> HIDE DEF y
    <3>5. Blemished("PT-13", f, c) =
            (\A z \in f.lists["shopify_discount_codes"] : z.code = c.code => ~z.usable)
      BY Zenon DEF Blemished
    <3> QED BY <2>2, <3>4, <3>5, Zenon
  <2>7. bad = {}
    <3> HIDE DEF coupons
    <3> QED BY <2>4, <2>6
  <2>8. 100 * Cardinality(bad) <= 0 * Cardinality(Judged("PT-13", f))
    <3>1. 0 \in Nat OBVIOUS
    <3> HIDE DEF bad, coupons
    <3> QED BY <2>2, <2>4, <2>7, <3>1, Spotless, Zenon
  <2> QED BY <2>2, <2>5, <2>8, SMT DEF Clean
<1> QED BY <1>3, <1>4, Zenon

(* LE-07 passes when the carts of the abandoned checkouts were captured, up to three  *)
(* tenths.                                                                            *)
LEMMA Le07Clean ==
  ASSUME NEW f
  PROVE  evaluate_le07(f) \in Verdicts /\ (IsFacts(f) /\ evaluate_le07(f) = "PASS" => Clean("LE-07", f))
<1> DEFINE abandoned == _load_list_input(f, "shopify_abandoned_checkouts")
           events == _load_list_input(f, "manago_cart_events")
           seen == {e.email : e \in {x \in events : x.cart}}
           asked == {a.email : a \in abandoned}
           emails == asked \ {NoEmail}
           captured == Cardinality(emails \cap seen)
           a == ~Given(f, "shopify_abandoned_checkouts") \/ ~Given(f, "manago_cart_events")
           b == \E c \in abandoned : c.email = NoEmail
           d == 100 * captured < LE07_FAIL_CAPTURE_RATE * Cardinality(emails)
           u == OneAbsent(f, "shopify_abandoned_checkouts", "manago_cart_events")
<1>1. evaluate_le07(f) = FirstRule(<< <<a, u>>, <<b, "FAIL">>, <<d, "FAIL">>, <<TRUE, "PASS">> >>)
  BY Zenon DEF evaluate_le07
<1>2. u \in Verdicts \ {"PASS"} BY AbsentSays
<1>3. evaluate_le07(f) \in Verdicts /\ (evaluate_le07(f) = "PASS" => ~a /\ ~b /\ ~d)
  <2> HIDE DEF a, b, d, u
  <2> QED BY <1>1, <1>2, OtherVerdicts, ThreeBefore, Zenon
<1>4. ASSUME IsFacts(f), evaluate_le07(f) = "PASS" PROVE Clean("LE-07", f)
  <2>1. Given(f, "shopify_abandoned_checkouts") /\ Given(f, "manago_cart_events") /\ ~b /\ ~d
    BY <1>3, <1>4, Zenon
  <2>2. /\ abandoned = f.lists["shopify_abandoned_checkouts"]
        /\ events = f.lists["manago_cart_events"]
        /\ {"shopify_abandoned_checkouts", "manago_cart_events"} \subseteq DOMAIN f.lists
        /\ IsFiniteSet(abandoned)
    <3>1. /\ abandoned = f.lists["shopify_abandoned_checkouts"]
          /\ "shopify_abandoned_checkouts" \in DOMAIN f.lists /\ IsFiniteSet(abandoned)
      BY <1>4, <2>1, GivenList, Zenon
    <3>2. events = f.lists["manago_cart_events"] /\ "manago_cart_events" \in DOMAIN f.lists
      BY <1>4, <2>1, GivenList, Zenon
    <3> HIDE DEF abandoned, events
    <3> QED BY <3>1, <3>2
  <2> DEFINE bad == {x \in Judged("LE-07", f) : Blemished("LE-07", f, x)}
  <2>3. Judged("LE-07", f) = asked
    <3>1. Judged("LE-07", f) = {x.email : x \in f.lists["shopify_abandoned_checkouts"]}
      BY SMT DEF Judged
    <3> QED BY <2>2, <3>1, Zenon
  <2>4. /\ ListsOf("LE-07") = {"shopify_abandoned_checkouts", "manago_cart_events"}
        /\ Tolerated("LE-07") = 30
    BY SMT DEF ListsOf, Tolerated
  <2>5. emails = asked /\ NoEmail \notin asked BY <2>1
  <2>6. \A x : Blemished("LE-07", f, x) <=>
                 (x = NoEmail \/ \A y \in f.lists["manago_cart_events"] : y.email = x => ~y.cart)
    BY Zenon DEF Blemished
  <2>7. bad = emails \ seen
    <3>1. \A x : x \in seen <=> \E y \in events : y.cart /\ y.email = x
      <4> HIDE DEF events
      <4> QED OBVIOUS
    <3> HIDE DEF events, seen, asked
    <3>2. \A x \in asked : Blemished("LE-07", f, x) <=> x \notin seen
      <4> SUFFICES ASSUME NEW x \in asked PROVE Blemished("LE-07", f, x) <=> x \notin seen
        OBVIOUS
      <4>1. x # NoEmail BY <2>5, Zenon
      <4>2. Blemished("LE-07", f, x) <=>
              (x = NoEmail \/ \A y \in events : y.email = x => ~y.cart)
        BY <2>2, <2>6, Zenon
      <4>3. x \in seen <=> \E y \in events : y.cart /\ y.email = x BY <3>1
      <4> QED BY <4>1, <4>2, <4>3, Zenon
    <3>3. \A x \in asked : x # NoEmail BY <2>5
    <3>4. bad = {x \in asked : Blemished("LE-07", f, x)} BY <2>3, Zenon
    <3>5. \A x : x \in emails \ seen <=> x \in asked /\ x \notin seen BY <2>5, Zenon
    <3> HIDE DEF emails, bad
    <3> QED BY <3>2, <3>4, <3>5
  <2>8. IsFiniteSet(emails)
    <3> DEFINE g == [x \in abandoned |-> x.email]
    <3>1. g \in [abandoned -> asked] /\ \A y \in asked : \E x \in abandoned : g[x] = y
      <4> HIDE DEF abandoned
      <4> QED OBVIOUS
    <3> HIDE DEF g, abandoned, asked
    <3>2. g \in Surjection(abandoned, asked) BY <3>1, Zenon DEF Surjection
    <3>3. IsFiniteSet(asked) BY <2>2, <3>2, FS_Surjection
    <3> QED BY <2>5, <3>3
  <2>9. 100 * Cardinality(bad) <= 30 * Cardinality(Judged("LE-07", f))
    <3> HIDE DEF emails, seen
    <3>1. /\ Cardinality(emails \ seen) = Cardinality(emails) - Cardinality(emails \cap seen)
          /\ Cardinality(emails) \in Nat /\ Cardinality(emails \cap seen) \in Nat
      <4>1. Cardinality(emails \ seen) = Cardinality(emails) - Cardinality(emails \cap seen)
        BY <2>8, FS_Difference
      <4>2. IsFiniteSet(emails \cap seen) BY <2>8, FS_Intersection
      <4> QED BY <2>8, <4>1, <4>2, FS_CardinalityType
    <3>2. ~(100 * Cardinality(emails \cap seen) < 70 * Cardinality(emails))
      BY <2>1 DEF LE07_FAIL_CAPTURE_RATE
    <3> DEFINE m == Cardinality(emails)
               n == Cardinality(emails \cap seen)
    <3>3. m \in Nat /\ n \in Nat /\ ~(100 * n < 70 * m) BY <3>1, <3>2
    <3> HIDE DEF m, n
    <3>4. 100 * (m - n) <= 30 * m BY <3>3
    <3>5. Cardinality(bad) = m - n
      <4> HIDE DEF bad
      <4> QED BY <2>7, <3>1 DEF m, n
    <3>6. Cardinality(Judged("LE-07", f)) = m
      <4> HIDE DEF asked
      <4> QED BY <2>3, <2>5 DEF m
    <3> HIDE DEF bad
    <3> QED BY <3>4, <3>5, <3>6
  <2> QED BY <2>2, <2>4, <2>9, SMT DEF Clean
<1> QED BY <1>3, <1>4, Zenon

(* PT-05 passes when no discount is above its price.                                  *)
LEMMA Pt05Clean ==
  ASSUME NEW f
  PROVE  evaluate_pt05(f) \in Verdicts /\ (IsFacts(f) /\ evaluate_pt05(f) = "PASS" => Clean("PT-05", f))
<1> DEFINE manago == _load_list_input(f, "manago_products")
           shopify == _load_list_input(f, "shopify_products")
           priced(p) == {s \in Joined(shopify, p) : p.price # Unknown /\ s.price # Unknown}
           upside(p) == Unknown \notin {p.price, p.discount} /\ p.discount > p.price
           away(p) == \E s \in priced(p) :
                   ~Percent(Apart(p.price, s.price), Above(s.price, 1), PT05_FAIL_PRICE_REL_DIFF)
           a == ~Given(f, "manago_products") \/ ~Given(f, "shopify_products")
           b == \E p \in manago : upside(p) \/ away(p)
           d == manago \cup shopify # {} /\ \A p \in manago : priced(p) = {}
           u == OneAbsent(f, "shopify_products", "manago_products")
<1>1. evaluate_pt05(f) = FirstRule(<< <<a, u>>, <<b, "FAIL">>, <<d, "UNKNOWN">>, <<TRUE, "PASS">> >>)
  BY Zenon DEF evaluate_pt05
<1>2. u \in Verdicts \ {"PASS"} BY AbsentSays
<1>3. evaluate_pt05(f) \in Verdicts /\ (evaluate_pt05(f) = "PASS" => ~a /\ ~b)
  <2> HIDE DEF a, b, d, u
  <2> QED BY <1>1, <1>2, OtherVerdicts, ThreeBefore, Zenon
<1>4. ASSUME IsFacts(f), evaluate_pt05(f) = "PASS" PROVE Clean("PT-05", f)
  <2>1. Given(f, "manago_products") /\ Given(f, "shopify_products") /\ \A p \in manago : ~upside(p)
    BY <1>3, <1>4, Zenon
  <2>2. /\ manago = f.lists["manago_products"] /\ "manago_products" \in DOMAIN f.lists
        /\ IsFiniteSet(manago)
    BY <1>4, <2>1, GivenList, Zenon
  <2>3. "shopify_products" \in DOMAIN f.lists BY <1>4, <2>1, GivenList, Zenon
  <2> DEFINE bad == {x \in Judged("PT-05", f) : Blemished("PT-05", f, x)}
  <2>4. Judged("PT-05", f) = manago BY <2>2, SMT DEF Judged
  <2>5. ListsOf("PT-05") = {"manago_products", "shopify_products"} /\ Tolerated("PT-05") = 0
    BY SMT DEF ListsOf, Tolerated
  <2>6. \A x : Blemished("PT-05", f, x) <=>
                 (x.price # Unknown /\ x.discount # Unknown /\ x.price < x.discount)
    BY Zenon DEF Blemished
  <2>7. bad = {}
    <3>1. \A x \in manago : ~Blemished("PT-05", f, x) BY <2>1, <2>6
    <3> HIDE DEF manago
    <3> QED BY <2>4, <3>1
  <2>8. 100 * Cardinality(bad) <= 0 * Cardinality(Judged("PT-05", f))
    <3>1. 0 \in Nat OBVIOUS
    <3> HIDE DEF bad, manago
    <3> QED BY <2>2, <2>4, <2>7, <3>1, Spotless, Zenon
  <2> QED BY <2>2, <2>3, <2>5, <2>8, SMT DEF Clean
<1> QED BY <1>3, <1>4, Zenon

(* PT-06 passes when no stock is below zero.                                          *)
LEMMA Pt06Clean ==
  ASSUME NEW f
  PROVE  evaluate_pt06(f) \in Verdicts /\ (IsFacts(f) /\ evaluate_pt06(f) = "PASS" => Clean("PT-06", f))
<1> DEFINE manago == _load_list_input(f, "manago_products")
           inventory == _load_list_input(f, "shopify_inventory")
           stocked(p) == Joined({s \in inventory : s.qty # Unknown}, p)
           compared(p) == p.qty # Unknown /\ stocked(p) # {}
           wrong(p) == \/ p.qty # Unknown /\ p.qty < 0
                       \/ \E s \in stocked(p) : s.qty < 0 \/ (compared(p) /\ p.qty # s.qty)
           a == ~Given(f, "manago_products") \/ ~Given(f, "shopify_inventory")
           b == \E p \in manago : wrong(p)
           d == manago \cup inventory # {} /\ \A p \in manago : ~compared(p)
           u == OneAbsent(f, "shopify_inventory", "manago_products")
<1>1. evaluate_pt06(f) = FirstRule(<< <<a, u>>, <<b, "FAIL">>, <<d, "UNKNOWN">>, <<TRUE, "PASS">> >>)
  BY Zenon DEF evaluate_pt06
<1>2. u \in Verdicts \ {"PASS"} BY AbsentSays
<1>3. evaluate_pt06(f) \in Verdicts /\ (evaluate_pt06(f) = "PASS" => ~a /\ ~b)
  <2> HIDE DEF a, b, d, u
  <2> QED BY <1>1, <1>2, OtherVerdicts, ThreeBefore, Zenon
<1>4. ASSUME IsFacts(f), evaluate_pt06(f) = "PASS" PROVE Clean("PT-06", f)
  <2>1. /\ Given(f, "manago_products") /\ Given(f, "shopify_inventory")
        /\ \A p \in manago : ~(p.qty # Unknown /\ p.qty < 0)
    BY <1>3, <1>4, Zenon
  <2>2. /\ manago = f.lists["manago_products"] /\ "manago_products" \in DOMAIN f.lists
        /\ IsFiniteSet(manago)
    BY <1>4, <2>1, GivenList, Zenon
  <2>3. "shopify_inventory" \in DOMAIN f.lists BY <1>4, <2>1, GivenList, Zenon
  <2> DEFINE bad == {x \in Judged("PT-06", f) : Blemished("PT-06", f, x)}
  <2>4. Judged("PT-06", f) = manago BY <2>2, SMT DEF Judged
  <2>5. ListsOf("PT-06") = {"manago_products", "shopify_inventory"} /\ Tolerated("PT-06") = 0
    BY SMT DEF ListsOf, Tolerated
  <2>6. \A x : Blemished("PT-06", f, x) <=> (x.qty # Unknown /\ x.qty < 0)
    BY Zenon DEF Blemished
  <2>7. bad = {}
    <3>1. \A x \in manago : ~Blemished("PT-06", f, x) BY <2>1, <2>6, Zenon
    <3> HIDE DEF manago
    <3> QED BY <2>4, <3>1
  <2>8. 100 * Cardinality(bad) <= 0 * Cardinality(Judged("PT-06", f))
    <3>1. 0 \in Nat OBVIOUS
    <3> HIDE DEF bad, manago
    <3> QED BY <2>2, <2>4, <2>7, <3>1, Spotless, Zenon
  <2> QED BY <2>2, <2>3, <2>5, <2>8, SMT DEF Clean
<1> QED BY <1>3, <1>4, Zenon

(* Whatever gate is asked, whatever it reads.                                        *)
LEMMA AnswersAreVerdicts ==
  ASSUME NEW c \in Supplementals, NEW erp, NEW f
  PROVE  /\ run_supplemental_check(c, erp, f) \in Verdicts
         /\ IsFacts(f) /\ run_supplemental_check(c, erp, f) = "PASS" => Clean(c, f)
<1>1. Evaluated(c, f) \in Verdicts /\ (IsFacts(f) /\ Evaluated(c, f) = "PASS" => Clean(c, f))
  <2>1. CASE c = "BR-03"
    <3>1. Evaluated(c, f) = evaluate_br03(f) BY <2>1, SMT DEF Evaluated
    <3> QED BY <2>1, <3>1, Br03Clean, Zenon
  <2>2. CASE c = "BR-09"
    <3>1. Evaluated(c, f) = evaluate_br09(f) BY <2>2, SMT DEF Evaluated
    <3> QED BY <2>2, <3>1, Br09Clean, Zenon
  <2>3. CASE c = "CC-06"
    <3>1. Evaluated(c, f) = evaluate_cc06(f) BY <2>3, SMT DEF Evaluated
    <3> QED BY <2>3, <3>1, Cc06Clean, Zenon
  <2>4. CASE c = "CI-08"
    <3>1. Evaluated(c, f) = evaluate_ci08(f) BY <2>4, SMT DEF Evaluated
    <3> QED BY <2>4, <3>1, Ci08Answers, Ci08Clean, Zenon
  <2>5. CASE c = "LE-07"
    <3>1. Evaluated(c, f) = evaluate_le07(f) BY <2>5, SMT DEF Evaluated
    <3> QED BY <2>5, <3>1, Le07Clean, Zenon
  <2>6. CASE c = "LE-10"
    <3>1. Evaluated(c, f) = evaluate_le10(f) BY <2>6, SMT DEF Evaluated
    <3> QED BY <2>6, <3>1, Le10Clean, Zenon
  <2>7. CASE c = "PT-05"
    <3>1. Evaluated(c, f) = evaluate_pt05(f) BY <2>7, SMT DEF Evaluated
    <3> QED BY <2>7, <3>1, Pt05Clean, Zenon
  <2>8. CASE c = "PT-06"
    <3>1. Evaluated(c, f) = evaluate_pt06(f) BY <2>8, SMT DEF Evaluated
    <3> QED BY <2>8, <3>1, Pt06Clean, Zenon
  <2>9. CASE c = "PT-11"
    <3>1. Evaluated(c, f) = evaluate_pt11(f) BY <2>9, SMT DEF Evaluated
    <3> QED BY <2>9, <3>1, Pt11Clean, Zenon
  <2>10. CASE c = "PT-13"
    <3>1. Evaluated(c, f) = evaluate_pt13(f) BY <2>10, SMT DEF Evaluated
    <3> QED BY <2>10, <3>1, Pt13Clean, Zenon
  <2>11. CASE c = "SP-04"
    <3>1. Evaluated(c, f) = evaluate_sp04(f) BY <2>11, SMT DEF Evaluated
    <3> QED BY <2>11, <3>1, Sp04Clean, Zenon
  <2>12. CASE c = "SP-10"
    <3>1. Evaluated(c, f) = evaluate_sp10(f) BY <2>12, SMT DEF Evaluated
    <3> QED BY <2>12, <3>1, Sp10Clean, Zenon
  <2> QED BY <2>1, <2>2, <2>3, <2>4, <2>5, <2>6, <2>7, <2>8, <2>9, <2>10, <2>11, <2>12, Zenon
          DEF Supplementals
<1>2. CASE c \in ErpSensitive /\ ~erp
  <2>1. run_supplemental_check(c, erp, f) = "NOT_CONNECTED" BY <1>2, Zenon DEF run_supplemental_check
  <2> QED BY <2>1 DEF Verdicts
<1>3. CASE ~(c \in ErpSensitive /\ ~erp)
  <2>1. run_supplemental_check(c, erp, f) = Evaluated(c, f) BY <1>3, Zenon DEF run_supplemental_check
  <2> QED BY <1>1, <1>3, <2>1, Zenon
<1> QED BY <1>2, <1>3

-----------------------------------------------------------------------------
(* Building a package.                                                             *)

(* The context that is read is of a run that was scored and of the newest bundle.    *)
LEMMA ContextIsRead ==
  ASSUME RunsAreScored, RowsAreJudged
  PROVE  IsContext(resolve_recommendation_context, runs, bundles)
<1> DEFINE named == IF ScoredRuns = {} THEN 0 ELSE LastFinished(ScoredRuns)
           run == IF named = 0 THEN NoRun ELSE runs[named]
           ctx == [run |-> named, scored |-> named # 0, headline |-> run.score.headline,
                   results |-> [x \in DOMAIN run.results |-> run.results[x].status],
                   mode |-> mode, stored |-> get_latest_supplemental_status_map, bundle |-> Len(bundles)]
<1>1. resolve_recommendation_context = ctx BY Zenon DEF resolve_recommendation_context
<1>2. IsSeq(bundles) /\ Len(bundles) \in 0..Len(bundles) BY SeqLen DEF RowsAreJudged
<1>3. get_latest_supplemental_status_map = StoredAt(Len(bundles), bundles)
  <2>1. bundles = <<>> <=> Len(bundles) = 0
    BY <1>2, EmptySeq DEF IsSeq
  <2>2. CASE bundles = <<>>
    BY <2>1, <2>2, Zenon DEF get_latest_supplemental_status_map, StoredAt
  <2>3. CASE bundles # <<>>
    BY <2>1, <2>3, Zenon DEF get_latest_supplemental_status_map, StoredAt, StatusesOf
  <2> QED BY <2>2, <2>3
<1>4. /\ ctx.run = named /\ ctx.scored = (named # 0) /\ ctx.headline = run.score.headline
      /\ ctx.results = [x \in DOMAIN run.results |-> run.results[x].status]
      /\ ctx.stored = get_latest_supplemental_status_map /\ ctx.bundle = Len(bundles)
  <2> HIDE DEF named, run
  <2> QED OBVIOUS
<1>5. ASSUME named # 0
      PROVE  /\ named \in DOMAIN runs /\ runs[named].scored > 0
             /\ runs[named].score.headline \in Int /\ runs[named].score.headline # NoScore
             /\ Unblocked(runs[named].results)
  <2>1. ScoredRuns # {} /\ named = LastFinished(ScoredRuns) BY <1>5
  <2>2. ScoredRuns \subseteq DOMAIN runs BY DEF ScoredRuns
  <2>3. named \in ScoredRuns
    <3>1. LastFinished(ScoredRuns) \in ScoredRuns BY <2>1, <2>2, LastOfRuns
    <3> HIDE DEF named
    <3> QED BY <2>1, <3>1
  <2> HIDE DEF named
  <2>4. named \in DOMAIN runs /\ runs[named].score.headline # NoScore
    BY <2>3 DEF ScoredRuns, HasHeadline
  <2>5. IsRun(runs[named], site.erp) BY <2>4, Zenon DEF RunsAreScored
  <2>6. runs[named].scored > 0 BY <2>4, <2>5, Zenon DEF IsRun
  <2>7. runs[named].score.headline \in Int /\ Unblocked(runs[named].results)
    BY <2>4, <2>5, <2>6, ScoredRunTells, Zenon
  <2> QED BY <2>4, <2>6, <2>7
<1>6. named # 0 => run = runs[named] BY Zenon
<1> HIDE DEF named, run, ctx
<1>7. IsContext(ctx, runs, bundles)
  <2>1. ctx.scored => named # 0 BY <1>4, Zenon
  <2>2. named # 0 => ctx.results = StatusesOf(runs[named].results)
    BY <1>4, <1>6, Zenon DEF StatusesOf
  <2> QED BY <1>2, <1>3, <1>4, <1>5, <1>6, <2>1, <2>2, Zenon DEF IsContext
<1> QED BY <1>1, <1>7, Zenon

(* A pilot is buildable only where its gates allow it.                               *)
LEMMA BuildableMeans ==
  ASSUME NEW b, NEW c, NEW require, is_buildable_status(evaluate_pilot(b, c, require))
  PROVE  /\ c.scored /\ ~(c.headline < 1000 * b.min_dcs)
         /\ require.architecture => c.mode \in b.modes \ {"INCOMPLETE"}
         /\ require.checks => _evaluate_gating_checks(b, c) = {}
<1> DEFINE a1 == ~c.scored \/ c.headline < 1000 * b.min_dcs
           a2 == require.architecture /\ c.mode \notin b.modes \ {"INCOMPLETE"}
           a3 == require.checks /\ _evaluate_gating_checks(b, c) # {}
           a4 == Unevaluated(b, c) # {}
           r == << <<a1, "blocked_dcs_score">>, <<a2, "blocked_mode">>, <<a3, "blocked_checks">>,
                   <<a4, "ready_provisional">>, <<TRUE, "ready">> >>
<1>1. evaluate_pilot(b, c, require) = FirstRule(r) BY Zenon DEF evaluate_pilot
<1>2. ~a1 /\ ~a2 /\ ~a3
  <2> HIDE DEF a1, a2, a3, a4
  <2>1. r[5][1]
    <3>1. r[5][1] = TRUE BY Zenon
    <3> QED BY <3>1, Zenon
  <2>2. DOMAIN r = 1..5 OBVIOUS
  <2>3. /\ r[1][1] = a1 /\ r[2][1] = a2 /\ r[3][1] = a3
        /\ r[1][2] = "blocked_dcs_score" /\ r[2][2] = "blocked_mode" /\ r[3][2] = "blocked_checks"
    OBVIOUS
  <2> HIDE DEF r
  <2>4. FirstRule(r) = IF r[1][1] THEN r[1][2] ELSE IF r[2][1] THEN r[2][2]
                        ELSE IF r[3][1] THEN r[3][2] ELSE IF r[4][1] THEN r[4][2] ELSE r[5][2]
    BY <2>1, <2>2, FiveRules, Zenon
  <2>5. FirstRule(r) \notin {"blocked_dcs_score", "blocked_mode", "blocked_checks"}
    BY <1>1 DEF is_buildable_status
  <2> QED BY <2>3, <2>4, <2>5
<1> QED BY <1>2, Zenon

(* A package stands on the context it was built from.                                *)
LEMMA PackageStands ==
  ASSUME NEW d \in Deployments, NEW rs, NEW bs, NEW c, IsContext(c, rs, bs),
         \A i \in DOMAIN rs : IsRun(rs[i], d.erp),
         \A x \in DOMAIN c.stored : c.stored[x] # "missing",
         NEW status, status = evaluate_pilot(d.blueprint, c, d.require), is_buildable_status(status),
         NEW p, p = [gates |-> build_gates_snapshot(d.blueprint, c, status), run |-> c.run, bundle |-> c.bundle]
  PROVE  IsPackage(p, d, rs, bs)
<1> DEFINE b == d.blueprint
           g == p.gates
<1>1. /\ g = build_gates_snapshot(b, c, status) /\ p.run = c.run /\ p.bundle = c.bundle
  OBVIOUS
<1>2. /\ g.headline = c.headline /\ g.mode = c.mode
      /\ g.checks = [x \in b.checks |-> _gate_result_label(c, x)]
  BY <1>1 DEF build_gates_snapshot
<1>3. /\ c.scored /\ ~(c.headline < 1000 * b.min_dcs)
      /\ d.require.architecture => c.mode \in b.modes \ {"INCOMPLETE"}
      /\ d.require.checks => _evaluate_gating_checks(b, c) = {}
  <2> DEFINE require == d.require
  <2>1. is_buildable_status(evaluate_pilot(b, c, require)) OBVIOUS
  <2> HIDE DEF b, require
  <2>2. /\ c.scored /\ ~(c.headline < 1000 * b.min_dcs)
        /\ require.architecture => c.mode \in b.modes \ {"INCOMPLETE"}
        /\ require.checks => _evaluate_gating_checks(b, c) = {}
    BY <2>1, BuildableMeans
  <2> QED BY <2>2, Zenon DEF require
<1>4. /\ c.run \in DOMAIN rs /\ rs[c.run].scored > 0
      /\ c.headline \in Int /\ c.headline # NoScore
      /\ rs[c.run].scored = 1 => /\ c.results = StatusesOf(rs[c.run].results)
                                 /\ Unblocked(rs[c.run].results)
      /\ c.bundle \in 0..Len(bs) /\ c.stored = StoredAt(c.bundle, bs)
  BY <1>3, Zenon DEF IsContext
<1>5. c.headline >= 1000 * b.min_dcs
  <2>1. b.min_dcs \in Int BY DeploymentsAssumption
  <2> HIDE DEF b
  <2> QED BY <2>1, <1>3, <1>4
<1> HIDE DEF g, b
<1>6. DOMAIN g.checks = b.checks /\ \A x \in b.checks : g.checks[x] = _gate_result_label(c, x)
  BY <1>2
<1>7. ASSUME NEW x \in Hard(b)
      PROVE  /\ d.require.checks => g.checks[x] = "PASS"
             /\ rs[p.run].scored = 1 /\ g.checks[x] # "UNKNOWN" =>
                  g.checks[x] = rs[p.run].results[x].status
  <2>1. x \in b.checks /\ ~is_supplemental_gate(x) BY DEF Hard
  <2>2. g.checks[x] = IF _raw_gate_status(c, x) # "missing" THEN _raw_gate_status(c, x) ELSE "UNKNOWN"
    BY <1>6, <2>1, Zenon DEF _gate_result_label
  <2>3. _raw_gate_status(c, x) = IF x \in DOMAIN c.results THEN c.results[x] ELSE "missing"
    BY <2>1, Zenon DEF _raw_gate_status, Answers
  <2>4. ASSUME d.require.checks PROVE g.checks[x] = "PASS"
    <3>1. x \notin Unevaluated(b, c) BY <2>1, Zenon DEF Unevaluated, Supplemental
    <3>2. _raw_gate_status(c, x) = "PASS" BY <1>3, <2>1, <2>4, <3>1 DEF _evaluate_gating_checks
    <3> QED BY <2>2, <3>2
  <2>5. ASSUME rs[p.run].scored = 1, g.checks[x] # "UNKNOWN"
        PROVE  g.checks[x] = rs[p.run].results[x].status
    <3>1. c.results = StatusesOf(rs[p.run].results) BY <1>1, <1>4, <2>5, Zenon
    <3>2. x \in DOMAIN c.results /\ g.checks[x] = c.results[x] BY <2>2, <2>3, <2>5
    <3> QED BY <3>1, <3>2 DEF StatusesOf
  <2> QED BY <2>4, <2>5
<1>8. ASSUME NEW x \in Supplemental(b) \cap DOMAIN StoredAt(p.bundle, bs)
      PROVE  g.checks[x] = StoredAt(p.bundle, bs)[x]
  <2>1. /\ x \in b.checks /\ is_supplemental_gate(x)
        /\ x \in DOMAIN c.stored /\ c.stored = StoredAt(p.bundle, bs)
    BY <1>1, <1>4 DEF Supplemental
  <2>2. _raw_gate_status(c, x) = c.stored[x]
    <3>1. Answers(c, x) = c.stored BY <2>1, Zenon DEF Answers
    <3> QED BY <2>1, <3>1, Zenon DEF _raw_gate_status
  <2>3. g.checks[x] = c.stored[x]
    <3>1. c.stored[x] # "missing" BY <2>1
    <3>2. _gate_result_label(c, x) = c.stored[x]
      <4>1. _raw_gate_status(c, x) # "missing" => _gate_result_label(c, x) = _raw_gate_status(c, x)
        BY Zenon DEF _gate_result_label
      <4> QED BY <2>2, <3>1, <4>1
    <3> QED BY <1>6, <2>1, <3>2
  <2> QED BY <2>1, <2>3, Zenon
<1>9. /\ p.bundle \in 0..Len(bs) /\ p.run \in DOMAIN rs /\ rs[p.run].scored > 0
      /\ g.headline \in Int /\ g.headline # NoScore /\ g.headline >= 1000 * b.min_dcs
      /\ rs[p.run].scored = 1 => Unblocked(rs[p.run].results)
  <2> HIDE DEF NoScore
  <2> QED BY <1>1, <1>2, <1>4, <1>5
<1>10. d.require.architecture => g.mode \in b.modes \ {"INCOMPLETE"} BY <1>2, <1>3
<1>11. /\ \A x \in Hard(b) : /\ d.require.checks => g.checks[x] = "PASS"
                             /\ rs[p.run].scored = 1 /\ g.checks[x] # "UNKNOWN" =>
                                  g.checks[x] = rs[p.run].results[x].status
       /\ \A x \in Supplemental(b) \cap DOMAIN StoredAt(p.bundle, bs) :
            g.checks[x] = StoredAt(p.bundle, bs)[x]
  BY <1>7, <1>8, Zenon
<1> QED BY <1>6, <1>9, <1>10, <1>11, Zenon DEF IsPackage, g, b

(* A status that was stored is a verdict.                                            *)
LEMMA StoredVerdicts ==
  ASSUME RowsAreJudged, NEW b \in 0..Len(bundles), NEW x \in DOMAIN StoredAt(b, bundles)
  PROVE  /\ b \in DOMAIN bundles /\ x \in DOMAIN bundles[b].rows
         /\ StoredAt(b, bundles)[x] = bundles[b].rows[x].status
         /\ IsRow(x, bundles[b].rows[x]) /\ StoredAt(b, bundles)[x] \in Verdicts
<1>1. b # 0
  <2>1. ASSUME b = 0 PROVE FALSE
    <3>1. StoredAt(b, bundles) = <<>> BY <2>1, Zenon DEF StoredAt
    <3> QED BY <3>1
  <2> QED BY <2>1
<1>2. b \in DOMAIN bundles BY <1>1, SeqLen DEF RowsAreJudged
<1>3. StoredAt(b, bundles) = StatusesOf(bundles[b].rows) BY <1>1, Zenon DEF StoredAt
<1>4. x \in DOMAIN bundles[b].rows /\ StoredAt(b, bundles)[x] = bundles[b].rows[x].status
  BY <1>3 DEF StatusesOf
<1>5. IsRow(x, bundles[b].rows[x]) BY <1>2, <1>4, Zenon DEF RowsAreJudged
<1>6. bundles[b].rows[x].status \in Verdicts BY <1>5, AnswersAreVerdicts, Zenon DEF IsRow
<1> QED BY <1>2, <1>4, <1>5, <1>6, Zenon

(* generate_build_package appends a package that stands on the context it was built   *)
(* from.                                                                              *)
LEMMA BuildStep ==
  ASSUME IInv, NEW c \in builds, generate_build_package(c)
  PROVE  PackagesAreFounded' /\ QasAreOfPackages' /\ HandoffsGoTheirWay'
<1> DEFINE status == evaluate_pilot(site.blueprint, c, site.require)
           p == [gates |-> build_gates_snapshot(site.blueprint, c, status), run |-> c.run, bundle |-> c.bundle]
<1>1. /\ builds' = builds \ {c}
      /\ packages' = IF ~is_buildable_status(status) THEN packages ELSE Append(packages, p)
      /\ UNCHANGED <<site, runs, bundles, qas, posts, handoffs>>
  BY Zenon DEF generate_build_package
<1>2. /\ IsSeq(packages) /\ \A x \in builds : IsContext(x, runs, bundles)
      /\ \A x \in DOMAIN packages : IsPackage(packages[x], site, runs, bundles)
  BY Zenon DEF IInv, PackagesAreFounded
<1>3. \A x \in builds' : IsContext(x, runs, bundles) BY <1>1, <1>2
<1>4. CASE ~is_buildable_status(status)
  <2>1. packages' = packages BY <1>1, <1>4, Zenon
  <2>2. PackagesAreFounded' BY <1>1, <1>2, <1>3, <2>1, Zenon DEF PackagesAreFounded
  <2>3. QasAreOfPackages' /\ HandoffsGoTheirWay' BY <1>1, <2>1, HandoffsKept, Zenon DEF IInv
  <2> QED BY <2>2, <2>3
<1>5. CASE is_buildable_status(status)
  <2>1. packages' = Append(packages, p) BY <1>1, <1>5, Zenon
  <2>2. IsPackage(p, site, runs, bundles)
    <3>1. IsContext(c, runs, bundles) BY <1>2
    <3>2. \A i \in DOMAIN runs : IsRun(runs[i], site.erp) BY Zenon DEF IInv, RunsAreScored
    <3>3. \A x \in DOMAIN c.stored : c.stored[x] # "missing"
      <4> SUFFICES ASSUME NEW x \in DOMAIN c.stored PROVE c.stored[x] # "missing" OBVIOUS
      <4>1. c.bundle \in 0..Len(bundles) /\ c.stored = StoredAt(c.bundle, bundles)
        BY <3>1, Zenon DEF IsContext
      <4>2. c.stored[x] \in Verdicts BY <4>1, StoredVerdicts, Zenon DEF IInv
      <4> QED BY <4>2 DEF Verdicts
    <3>4. site \in Deployments BY Zenon DEF IInv
    <3> QED BY <1>5, <3>1, <3>2, <3>3, <3>4, PackageStands, Zenon
  <2> HIDE DEF p, status
  <2>3. /\ Len(packages) \in Nat /\ DOMAIN packages = 1..Len(packages)
        /\ IsSeq(packages') /\ DOMAIN packages' = 1..(Len(packages) + 1)
        /\ (\A x \in 1..Len(packages) : packages'[x] = packages[x])
        /\ packages'[Len(packages) + 1] = p
    BY <1>2, <2>1, SeqLen, SeqAppend
  <2>4. \A x \in DOMAIN packages' : IsPackage(packages'[x], site, runs, bundles)
    BY <1>2, <2>2, <2>3
  <2>5. PackagesAreFounded' BY <1>1, <1>3, <2>3, <2>4, Zenon DEF PackagesAreFounded
  <2>6. QasAreOfPackages' /\ HandoffsGoTheirWay' BY <1>1, <1>2, <2>1, QasKept, Zenon DEF IInv
  <2> QED BY <2>5, <2>6
<1> QED BY <1>4, <1>5

(* Building, testing and handing over keep the invariant.                             *)
LEMMA HandingKeeps ==
  ASSUME IInv, Handing
  PROVE  IInv'
<1> DEFINE Goal == /\ PackagesAreFounded' /\ QasAreOfPackages' /\ HandoffsGoTheirWay'
                   /\ UNCHANGED <<site, runs, bundles, evals>>
<1>0. /\ RunsAreScored /\ RowsAreJudged /\ QasAreOfPackages /\ HandoffsGoTheirWay /\ PackagesAreFounded
  BY Zenon DEF IInv
<1>1. ASSUME UNCHANGED <<site, runs, bundles, builds, packages>> PROVE PackagesAreFounded'
  BY <1>0, <1>1, Zenon DEF PackagesAreFounded
<1> SUFFICES Goal
  <2>1. ASSUME Goal PROVE IInv'
    <3>1. UNCHANGED <<site, runs, bundles, evals>> BY <2>1, Zenon
    <3>2. RunsAreScored' BY <3>1, Zenon DEF IInv, RunsAreScored
    <3>3. DiffsTell' BY <3>1, Zenon DEF IInv, DiffsTell
    <3>4. RowsAreJudged' BY <3>1, Zenon DEF IInv, RowsAreJudged
    <3>5. site' \in Deployments BY <3>1, Zenon DEF IInv
    <3> QED BY <2>1, <3>2, <3>3, <3>4, <3>5, Zenon DEF IInv
  <2> QED BY <2>1, Zenon
<1>2. CASE StartBuild
  <2> DEFINE ctx == resolve_recommendation_context
  <2>1. /\ builds' = builds \cup {ctx}
        /\ UNCHANGED <<site, runs, bundles, evals, packages, qas, posts, handoffs>>
    BY <1>2, Zenon DEF StartBuild
  <2>2. IsContext(ctx, runs, bundles) BY <1>0, ContextIsRead
  <2> HIDE DEF ctx
  <2>3. \A x \in builds' : IsContext(x, runs, bundles) BY <1>0, <2>1, <2>2 DEF PackagesAreFounded
  <2>4. PackagesAreFounded' BY <1>0, <2>1, <2>3, Zenon DEF PackagesAreFounded
  <2>5. QasAreOfPackages' /\ HandoffsGoTheirWay' BY <1>0, <2>1, HandoffsKept, Zenon
  <2> QED BY <2>1, <2>4, <2>5, Zenon
<1>3. ASSUME NEW c \in builds, generate_build_package(c) PROVE Goal
  <2>1. UNCHANGED <<site, runs, bundles, evals>> BY <1>3, Zenon DEF generate_build_package
  <2> QED BY <1>3, <2>1, BuildStep, Zenon
<1>4. ASSUME NEW p \in DOMAIN packages, run_qa_for_package(p) PROVE Goal
  <2>1. UNCHANGED <<site, runs, bundles, evals, builds, packages>> BY <1>4, Zenon DEF run_qa_for_package
  <2> QED BY <1>0, <1>1, <1>4, <2>1, QaStep, Zenon
<1>5. ASSUME NEW p, NEW q, NEW id, StageLookup(p, q, id) PROVE Goal
  <2>1. UNCHANGED <<site, runs, bundles, evals, builds, packages>> BY <1>5, Zenon DEF StageLookup
  <2> QED BY <1>0, <1>1, <1>5, <2>1, LookupStep, Zenon
<1>6. ASSUME NEW x \in posts, StageInsert(x) PROVE Goal
  <2>1. UNCHANGED <<site, runs, bundles, evals, builds, packages>> BY <1>6, Zenon DEF StageInsert
  <2> QED BY <1>0, <1>1, <1>6, <2>1, InsertStep, Zenon
<1>7. ASSUME NEW h \in DOMAIN handoffs,
             approve_handoff_for_activation(h) \/ reject_handoff(h) \/ confirm_handoff_activated(h)
      PROVE  Goal
  <2>1. \E to : Move(h, to)
    BY <1>7, Zenon DEF approve_handoff_for_activation, reject_handoff, confirm_handoff_activated
  <2>2. UNCHANGED <<site, runs, bundles, evals, builds, packages>> BY <2>1, Zenon DEF Move
  <2> QED BY <1>0, <1>1, <1>7, <2>2, MovesStep, Zenon
<1> HIDE DEF Goal
<1> QED BY <1>2, <1>3, <1>4, <1>5, <1>6, <1>7, Zenon DEF Handing

(* A deployment with empty tables satisfies the invariant.                            *)
LEMMA InitHolds == ASSUME Init PROVE IInv
<1> USE DEF Init
<1>0. IsSeq(<<>>) /\ DOMAIN <<>> = {} /\ Len(<<>>) = 0 BY DEF IsSeq
<1>1. RunsAreScored /\ DiffsTell BY <1>0 DEF RunsAreScored, DiffsTell
<1>2. RowsAreJudged BY <1>0 DEF RowsAreJudged
<1>3. PackagesAreFounded BY <1>0 DEF PackagesAreFounded
<1>4. QasAreOfPackages BY <1>0 DEF QasAreOfPackages
<1>5. HandoffsGoTheirWay BY <1>0 DEF HandoffsGoTheirWay, AreHandoffs
<1> QED BY <1>1, <1>2, <1>3, <1>4, <1>5 DEF IInv

(* A step that changes nothing keeps it.                                              *)
LEMMA StutterKeeps == ASSUME IInv, UNCHANGED vars PROVE IInv'
<1>1. UNCHANGED <<site, runs, bundles, evals, builds, packages, qas, posts, handoffs>> BY DEF vars
<1>2. RunsAreScored' BY <1>1, Zenon DEF IInv, RunsAreScored
<1>3. DiffsTell' BY <1>1, Zenon DEF IInv, DiffsTell
<1>4. RowsAreJudged' BY <1>1, Zenon DEF IInv, RowsAreJudged
<1>5. PackagesAreFounded' BY <1>1, Zenon DEF IInv, PackagesAreFounded
<1>6. QasAreOfPackages' /\ HandoffsGoTheirWay' BY <1>1, HandoffsKept, Zenon DEF IInv
<1>7. site' \in Deployments BY <1>1, Zenon DEF IInv
<1> QED BY <1>2, <1>3, <1>4, <1>5, <1>6, <1>7, Zenon DEF IInv

(* In every reachable state runs keep the results their score was assembled from,     *)
(* diffs tell the scores they compare, rows of supplemental gates are what their      *)
(* evaluator says of the facts they keep, packages stand on the context they were     *)
(* built from, and QAs and handoffs are of packages that are there (execute_dcs_run,  *)
(* save_pilot_gate_eval, generate_build_package, create_or_get_handoff_package).      *)
THEOREM Invariance == Spec => []IInv
<1>1. Init => IInv BY InitHolds
<1>2. IInv /\ [Next]_vars => IInv'
  <2> SUFFICES ASSUME IInv, [Next]_vars PROVE IInv' OBVIOUS
  <2>1. CASE Next BY <2>1, ScoringKeeps, EvaluatingKeeps, HandingKeeps, Zenon DEF Next
  <2>2. CASE UNCHANGED vars BY <2>2, StutterKeeps, Zenon
  <2> QED BY <2>1, <2>2
<1> QED BY <1>1, <1>2, PTL DEF Spec

-----------------------------------------------------------------------------
(* What a run checks follows from the invariant.                                    *)

(* The way of a handoff, and the pair it is of.                                       *)
LEMMA TrailsFollow == ASSUME IInv PROVE HandoffTrail
<1> SUFFICES ASSUME NEW h \in DOMAIN handoffs
             PROVE  /\ handoffs[h].trail \in Trails
                    /\ handoffs[h].status = handoffs[h].trail[Len(handoffs[h].trail)]
                    /\ qas[handoffs[h].qa].package = handoffs[h].package
                    /\ site.require.qa => qas[handoffs[h].qa].status = "PASS"
                    /\ \A g \in DOMAIN handoffs :
                         handoffs[g].package = handoffs[h].package /\ handoffs[g].qa = handoffs[h].qa => g = h
  BY Zenon DEF HandoffTrail
<1>1. AreHandoffs(handoffs, site, qas) BY Zenon DEF IInv, HandoffsGoTheirWay
<1>2. IsHandoff(handoffs[h], site, qas) BY <1>1, Zenon DEF AreHandoffs
<1>3. Fits(handoffs[h].package, handoffs[h].qa, site, qas) /\ handoffs[h].trail \in Ways
      /\ handoffs[h].status = handoffs[h].trail[Len(handoffs[h].trail)]
  BY <1>2, Zenon DEF IsHandoff
<1> QED BY <1>1, <1>3, TrailsAreWays, Zenon DEF Fits, AreHandoffs

(* However many requests stage, approve, reject and confirm at once, a pair of        *)
(* package and QA has one handoff, it goes its way once and, where QA is enforced, it *)
(* is of a QA that passed (create_or_get_handoff_package, handoff_activation).        *)
THEOREM HandoffTrailHolds == Spec => []HandoffTrail
<1>1. IInv => HandoffTrail BY TrailsFollow
<1> QED BY <1>1, Invariance, PTL

(* A diff made for the score a run has.                                               *)
LEMMA DiffsTellTruth == ASSUME IInv PROVE DiffTellsTruth
<1> SUFFICES ASSUME NEW i \in DOMAIN runs, NEW kept \in runs[i].diff,
                    kept.of = runs[i].scored, ~kept.diff.baseline
             PROVE  LET d == kept.diff
                    IN /\ d.to[1] # i
                       /\ d.headline.current = runs[i].score.headline
                       /\ runs[d.to[1]].scored = d.to[2] => d.headline.previous = runs[d.to[1]].score.headline
                       /\ AddsUp(d.headline) /\ AddsUp(d.impact) /\ AddsUp(d.passed) /\ AddsUp(d.failed)
                       /\ \A x \in DOMAIN d.dims : AddsUp(d.dims[x])
  BY Zenon DEF DiffTellsTruth
<1>1. IsDiff(i, kept, runs) BY Zenon DEF IInv, DiffsTell
<1> QED BY <1>1, Zenon DEF IsDiff

(* A diff that was made for the score a run still has tells that score and the score  *)
(* of another run, and its differences add up (persist_consecutive_run_diff).         *)
THEOREM DiffTellsTruthHolds == Spec => []DiffTellsTruth
<1>1. IInv => DiffTellsTruth BY DiffsTellTruth
<1> QED BY <1>1, Invariance, PTL

(* The row of a gate that passed, gate by gate.                                       *)
LEMMA PassedGatesClean == ASSUME IInv PROVE PassedGatesAreClean
<1> SUFFICES ASSUME NEW b \in DOMAIN bundles, NEW c \in DOMAIN bundles[b].rows,
                    bundles[b].rows[c].status = "PASS"
             PROVE  LET row == bundles[b].rows[c]
                        bad == {x \in Judged(c, row.facts) : Blemished(c, row.facts, x)}
                    IN /\ ListsOf(c) \subseteq DOMAIN row.facts.lists
                       /\ c \in {"CI-08", "CC-06"} => Judged(c, row.facts) # {}
                       /\ 100 * Cardinality(bad) <= Tolerated(c) * Cardinality(Judged(c, row.facts))
                       /\ c \in {"BR-09", "PT-06"} => row.erp
  BY Zenon DEF PassedGatesAreClean
<1> DEFINE row == bundles[b].rows[c]
<1>1. IsRow(c, row) BY Zenon DEF IInv, RowsAreJudged
<1>2. /\ c \in Supplementals /\ IsFacts(row.facts)
      /\ run_supplemental_check(c, row.erp, row.facts) = "PASS"
  BY <1>1, Zenon DEF IsRow
<1>3. Clean(c, row.facts) /\ (c \in ErpSensitive => row.erp)
  <2> DEFINE erp == row.erp
             f == row.facts
  <2>1. IsFacts(f) /\ run_supplemental_check(c, erp, f) = "PASS" BY <1>2
  <2> HIDE DEF erp, f
  <2>2. Clean(c, f) BY <1>2, <2>1, AnswersAreVerdicts, Zenon
  <2>3. ASSUME c \in ErpSensitive, ~erp PROVE FALSE
    <3>1. run_supplemental_check(c, erp, f) = "NOT_CONNECTED" BY <2>3, Zenon DEF run_supplemental_check
    <3> QED BY <2>1, <3>1
  <2> QED BY <2>2, <2>3, Zenon DEF erp, f
<1> HIDE DEF row
<1>4. Clean(c, row.facts) /\ (c \in {"BR-09", "PT-06"} => row.erp)
  BY <1>3, Zenon DEF ErpSensitive
<1> QED BY <1>4, Zenon DEF Clean, row

(* A stored PASS of a supplemental gate was given on data that was there, with no     *)
(* more bad rows than the gate tolerates, however bundles were merged (the twelve     *)
(* evaluators, save_pilot_gate_eval).                                                 *)
THEOREM PassedGatesAreCleanHolds == Spec => []PassedGatesAreClean
<1>1. IInv => PassedGatesAreClean BY PassedGatesClean
<1> QED BY <1>1, Invariance, PTL

-----------------------------------------------------------------------------
(* A QA that passed, passed every test of its blueprint.                             *)
LEMMA PassedQa ==
  ASSUME NEW b, IsFiniteSet(b.tests), NEW g, evaluate_hard_tests(b, g) = "PASS", NEW t \in b.tests
  PROVE  evaluate_hard_test(t, b, g)
<1> DEFINE passed == {x \in b.tests : evaluate_hard_test(x, b, g)}
<1>1. passed \subseteq b.tests OBVIOUS
<1>2. Cardinality(passed) = Cardinality(b.tests)
  BY SMT DEF evaluate_hard_tests, compute_qa_score
<1>3. t \in passed
  <2> HIDE DEF passed
  <2>1. passed = b.tests BY <1>1, <1>2, FS_Subset
  <2> QED BY <2>1
<1> QED BY <1>3

(* The QA of a handoff, and the package it is of.                                    *)
LEMMA HandoffIsOf ==
  ASSUME IInv, NEW h \in DOMAIN handoffs
  PROVE  LET p == handoffs[h].package
             q == handoffs[h].qa
         IN /\ q \in DOMAIN qas /\ qas[q].package = p /\ p \in DOMAIN packages
            /\ qas[q].status = evaluate_hard_tests(site.blueprint, packages[p].gates)
            /\ site.require.qa => qas[q].status = "PASS"
            /\ IsPackage(packages[p], site, runs, bundles)
            /\ site \in Deployments
<1> DEFINE p == handoffs[h].package
           q == handoffs[h].qa
<1>1. Fits(p, q, site, qas) BY Zenon DEF IInv, HandoffsGoTheirWay, AreHandoffs, IsHandoff
<1> HIDE DEF p, q
<1>2. q \in DOMAIN qas /\ qas[q].package = p /\ (site.require.qa => qas[q].status = "PASS")
  BY <1>1, Zenon DEF Fits
<1>3. p \in DOMAIN packages /\ qas[q].status = evaluate_hard_tests(site.blueprint, packages[p].gates)
  BY <1>2, Zenon DEF IInv, QasAreOfPackages
<1>4. IsPackage(packages[p], site, runs, bundles) BY <1>3, Zenon DEF IInv, PackagesAreFounded
<1>5. site \in Deployments BY Zenon DEF IInv
<1> QED BY <1>2, <1>3, <1>4, <1>5, Zenon DEF p, q

(* From the handoff to its QA, from the QA to its package, and from there to the      *)
(* context.                                                                           *)
LEMMA HandoffsStand == ASSUME IInv PROVE HandoffStandsOnEvidence
<1> SUFFICES ASSUME NEW h \in DOMAIN handoffs,
                    site.require.qa, "data_gates_pass" \in site.blueprint.tests
             PROVE  LET p == handoffs[h].package
                        g == packages[p].gates
                    IN /\ g.headline # NoScore /\ g.headline >= 1000 * site.blueprint.min_dcs
                       /\ HardGatesHeld(p) /\ SupplementalsHeld(p)
                       /\ site.require.architecture => g.mode \in site.blueprint.modes \ {"INCOMPLETE"}
                       /\ runs[packages[p].run].scored = 1 =>
                            \A gate \in BLOCKING_GATE_IDS : runs[packages[p].run].results[gate].status # "FAIL"
  BY Zenon DEF HandoffStandsOnEvidence
<1> DEFINE p == handoffs[h].package
           g == packages[p].gates
           b == site.blueprint
           r == packages[p].run
<1> SUFFICES /\ g.headline # NoScore /\ g.headline >= 1000 * b.min_dcs
             /\ HardGatesHeld(p) /\ SupplementalsHeld(p)
             /\ site.require.architecture => g.mode \in b.modes \ {"INCOMPLETE"}
             /\ runs[r].scored = 1 => \A gate \in BLOCKING_GATE_IDS : runs[r].results[gate].status # "FAIL"
  BY Zenon
<1>1. /\ evaluate_hard_tests(b, g) = "PASS" /\ IsPackage(packages[p], site, runs, bundles)
      /\ site \in Deployments
  BY HandoffIsOf, Zenon
<1>2. IsFiniteSet(b.tests) BY <1>1, DeploymentsAssumption
<1>3. data_gates_blocking_checks(g) = {}
  <2> HIDE DEF b, g
  <2>1. evaluate_hard_test("data_gates_pass", b, g) BY <1>1, <1>2, PassedQa, Zenon DEF b
  <2>2. evaluate_hard_test("data_gates_pass", b, g) = evaluate_data_gates_pass(g)
    BY Zenon DEF evaluate_hard_test
  <2>3. evaluate_data_gates_pass(g) BY <2>1, <2>2, Zenon
  <2> QED BY <2>3, Zenon DEF evaluate_data_gates_pass
<1>4. /\ packages[p].bundle \in 0..Len(bundles)
      /\ g.headline # NoScore /\ g.headline >= 1000 * b.min_dcs
      /\ site.require.architecture => g.mode \in b.modes \ {"INCOMPLETE"}
      /\ DOMAIN g.checks = b.checks
      /\ \A x \in Hard(b) :
           /\ site.require.checks => g.checks[x] = "PASS"
           /\ runs[r].scored = 1 /\ g.checks[x] # "UNKNOWN" => g.checks[x] = runs[r].results[x].status
      /\ \A x \in Supplemental(b) \cap DOMAIN StoredAt(packages[p].bundle, bundles) :
           g.checks[x] = StoredAt(packages[p].bundle, bundles)[x]
      /\ runs[r].scored = 1 => Unblocked(runs[r].results)
  BY <1>1, Zenon DEF IsPackage
<1> DEFINE bundle == packages[p].bundle
<1> HIDE DEF p, g, b, r, bundle
<1>5. HardGatesHeld(p)
  <2> SUFFICES ASSUME NEW x \in Hard(b)
               PROVE  LET label == g.checks[x]
                      IN /\ label = "PASS" \/ (label = "WARN" /\ ~site.require.checks)
                         /\ runs[r].scored = 1 => runs[r].results[x].status = label
    BY Zenon DEF HardGatesHeld, b, g, r
  <2>1. x \in DOMAIN g.checks /\ ~is_supplemental_gate(x) BY <1>4 DEF Hard
  <2>2. ~hard_gate_blocks_data_gates_pass(g.checks[x])
    BY <1>3, <2>1, SMT DEF data_gates_blocking_checks
  <2>3. g.checks[x] \in {"PASS", "WARN"} BY <2>2, Zenon DEF hard_gate_blocks_data_gates_pass
  <2> QED BY <1>4, <2>3
<1>6. SupplementalsHeld(p)
  <2> DEFINE stored == [x \in DOMAIN StoredFor(p) |-> StoredFor(p)[x].status]
  <2>1. ASSUME NEW x \in Supplemental(b), x \in DOMAIN StoredFor(p) PROVE StoredFor(p)[x].status = "PASS"
    <3>1. bundle # 0
      <4>1. ASSUME bundle = 0 PROVE FALSE
        <5>1. StoredFor(p) = <<>> BY <4>1, Zenon DEF StoredFor, bundle
        <5> QED BY <2>1, <5>1
      <4> QED BY <4>1
    <3>2. StoredFor(p) = bundles[bundle].rows BY <3>1, Zenon DEF StoredFor, bundle
    <3>3. StoredAt(bundle, bundles) = StatusesOf(bundles[bundle].rows) BY <3>1, Zenon DEF StoredAt
    <3>4. x \in DOMAIN StoredAt(bundle, bundles)
          /\ StoredAt(bundle, bundles)[x] = StoredFor(p)[x].status
      BY <2>1, <3>2, <3>3 DEF StatusesOf
    <3>5. StoredAt(bundle, bundles)[x] \in Verdicts
      BY <1>4, <3>4, StoredVerdicts, Zenon DEF IInv, bundle
    <3>6. g.checks[x] = StoredFor(p)[x].status BY <1>4, <2>1, <3>4 DEF bundle
    <3>7. x \in DOMAIN g.checks /\ is_supplemental_gate(x) BY <1>4, <2>1 DEF Supplemental
    <3>8. ~supplemental_gate_blocks_data_gates_pass(g.checks[x], g.provisional)
      BY <1>3, <3>7, SMT DEF data_gates_blocking_checks
    <3>9. g.checks[x] = "PASS" \/ g.checks[x] = "NOT_EVALUATED"
      BY <3>8, Zenon DEF supplemental_gate_blocks_data_gates_pass
    <3> QED BY <3>4, <3>5, <3>6, <3>9 DEF Verdicts
  <2>2. DOMAIN stored = DOMAIN StoredFor(p)
        /\ \A x \in DOMAIN StoredFor(p) : stored[x] = StoredFor(p)[x].status
    OBVIOUS
  <2>3. SupplementalsHeld(p) =
          (supplemental_readiness_for_use_case(Supplemental(b), stored).blocked_by = {})
    BY Zenon DEF SupplementalsHeld, b
  <2>4. supplemental_readiness_for_use_case(Supplemental(b), stored).blocked_by
          = {x \in Supplemental(b) \cap DOMAIN stored : stored[x] # "PASS"}
    <3> HIDE DEF stored
    <3> QED BY DEF supplemental_readiness_for_use_case
  <2> HIDE DEF stored
  <2> QED BY <2>1, <2>2, <2>3, <2>4
<1>7. runs[r].scored = 1 => \A gate \in BLOCKING_GATE_IDS : runs[r].results[gate].status # "FAIL"
  BY <1>4, Zenon DEF Unblocked
<1> QED BY <1>4, <1>5, <1>6, <1>7

(* Where QA is enforced and tests the data gates, every handoff goes back to one      *)
(* context whose headline, hard gates and supplemental gates allowed it               *)
(* (evaluate_pilot, data_gates_pass).                                                 *)
THEOREM HandoffStandsOnEvidenceHolds == Spec => []HandoffStandsOnEvidence
<1>1. IInv => HandoffStandsOnEvidence BY HandoffsStand
<1> QED BY <1>1, Invariance, PTL

(* The newest of a set of runs.                                                    *)
LEMMA LatestIsIn ==
  ASSUME RunsAreScored, NEW S \in SUBSET DOMAIN runs, S # {}
  PROVE  Latest(S) = Max(S) /\ Latest(S) \in S /\ \A i \in S : i <= Latest(S)
<1>1. DOMAIN runs = 1..Len(runs) /\ Len(runs) \in Nat BY SeqLen DEF RunsAreScored
<1>2. IsFiniteSet(S)
  <2>1. IsFiniteSet(DOMAIN runs) BY <1>1, FS_Interval
  <2> QED BY <2>1, FS_Subset
<1>3. S \in SUBSET Int BY <1>1
<1>4. Max(S) \in S /\ \A i \in S : i <= Max(S) BY <1>2, <1>3, MaxOfFinite
<1>5. Latest(S) = Max(S) BY Zenon DEF Latest
<1> QED BY <1>4, <1>5

(* Latest finds a run whenever there is one.                                          *)
LEMMA LatestOrNone ==
  ASSUME RunsAreScored, NEW S \in SUBSET DOMAIN runs
  PROVE  Latest(S) # 0 <=> S # {}
<1>1. CASE S = {} BY <1>1 DEF Latest
<1>2. CASE S # {}
  <2>1. Latest(S) \in DOMAIN runs BY <1>2, LatestIsIn
  <2>2. DOMAIN runs = 1..Len(runs) /\ Len(runs) \in Nat BY SeqLen DEF RunsAreScored
  <2> QED BY <1>2, <2>1, <2>2
<1> QED BY <1>1, <1>2

(* What the shell shows and what the pilots read are the same run.                    *)
LEMMA ShellAgrees == ASSUME IInv PROVE ShellAgreesWithPilots
<1> DEFINE c == resolve_recommendation_context
           S == WithHeadline(runs)
<1>0. RunsAreScored /\ \A i \in DOMAIN runs : IsRun(runs[i], site.erp)
  BY Zenon DEF IInv, RunsAreScored
<1>1. S = ScoredRuns /\ S \in SUBSET DOMAIN runs BY DEF WithHeadline, ScoredRuns
<1>2. /\ c.scored <=> S # {}
      /\ S # {} => c.headline = runs[LastFinished(S)].score.headline
  <2> DEFINE named == IF S = {} THEN 0 ELSE LastFinished(S)
             run == IF named = 0 THEN NoRun ELSE runs[named]
             ctx == [run |-> named, scored |-> named # 0, headline |-> run.score.headline,
                     results |-> [x \in DOMAIN run.results |-> run.results[x].status],
                     mode |-> mode, stored |-> get_latest_supplemental_status_map, bundle |-> Len(bundles)]
  <2>1. c = ctx BY <1>1, Zenon DEF resolve_recommendation_context
  <2>2. ctx.scored = (named # 0) /\ ctx.headline = run.score.headline
    <3> HIDE DEF named, run
    <3> QED OBVIOUS
  <2>3. S # {} => named # 0 /\ named = LastFinished(S)
    <3> SUFFICES ASSUME S # {} PROVE named # 0 /\ named = LastFinished(S) OBVIOUS
    <3>1. named = LastFinished(S) OBVIOUS
    <3> HIDE DEF S, named
    <3>2. LastFinished(S) \in S BY <1>0, <1>1, LastOfRuns
    <3>3. DOMAIN runs = 1..Len(runs) /\ Len(runs) \in Nat BY SeqLen DEF RunsAreScored, IInv
    <3> QED BY <1>1, <3>1, <3>2, <3>3
  <2>4. S = {} => named = 0 OBVIOUS
  <2>5. named # 0 => run = runs[named] BY Zenon
  <2> HIDE DEF ctx, named, run, S, c
  <2> QED BY <2>1, <2>2, <2>3, <2>4, <2>5, Zenon
<1>3. app_access(runs) = "unlocked" <=> S # {}
  <2> DEFINE a == Latest(S) # 0
             b == \E i \in DOMAIN runs : runs[i].status \in ACTIVE_STATUSES
             r == << <<a, "unlocked">>, <<b, "soft_locked_running">>, <<TRUE, "hard_locked">> >>
  <2>1. app_access(runs) = FirstRule(r) BY Zenon DEF app_access
  <2>2. a <=> S # {} BY <1>0, <1>1, LatestOrNone
  <2> HIDE DEF a, b
  <2>3. r[3][1]
    <3>1. r[3][1] = TRUE BY Zenon
    <3> QED BY <3>1, Zenon
  <2>4. DOMAIN r = 1..3 OBVIOUS
  <2>5. /\ r[1][1] = a /\ r[2][1] = b
        /\ r[1][2] = "unlocked" /\ r[2][2] = "soft_locked_running" /\ r[3][2] = "hard_locked"
    OBVIOUS
  <2> HIDE DEF r
  <2>6. FirstRule(r) = IF r[1][1] THEN r[1][2] ELSE IF r[2][1] THEN r[2][2] ELSE r[3][2]
    BY <2>3, <2>4, ThreeRules, Zenon
  <2>7. a => FirstRule(r) = "unlocked" BY <2>5, <2>6, Zenon
  <2>8. ~a => FirstRule(r) \in {"soft_locked_running", "hard_locked"} BY <2>5, <2>6, Zenon
  <2> HIDE DEF S
  <2> QED BY <2>1, <2>2, <2>7, <2>8
<1> HIDE DEF c, S
<1>4. (app_access(runs) = "unlocked") = c.scored
  <2>1. c.scored \in BOOLEAN
    <3>1. c.scored = ((IF ScoredRuns = {} THEN 0 ELSE LastFinished(ScoredRuns)) # 0)
      BY DEF c, resolve_recommendation_context
    <3> QED BY <3>1
  <2> QED BY <1>2, <1>3, <2>1, Zenon
<1>5. ASSUME InOrderOfScore, score_display(runs) # NoScore
      PROVE  score_display(runs) = c.headline
  <2> DEFINE m == Latest(S)
  <2>1. m # 0 /\ score_display(runs) = runs[m].score.headline
    BY <1>5, Zenon DEF score_display, S
  <2>2. S # {} BY <1>0, <1>1, <2>1, LatestOrNone
  <2>3. m \in S /\ \A i \in S : i <= m BY <1>0, <1>1, <2>2, LatestIsIn
  <2>4. LastFinished(S) \in S /\ \A j \in S : runs[j].at <= runs[LastFinished(S)].at
    BY <1>0, <1>1, <2>2, LastOfRuns
  <2> DEFINE l == LastFinished(S)
  <2> HIDE DEF m, l
  <2>5. l = m
    <3>1. l \in DOMAIN runs /\ m \in DOMAIN runs /\ HasHeadline(runs[l]) /\ HasHeadline(runs[m])
      BY <1>1, <2>3, <2>4 DEF l, ScoredRuns
    <3>2. DOMAIN runs = 1..Len(runs) /\ Len(runs) \in Nat BY <1>0, SeqLen DEF RunsAreScored
    <3>3. l < m => runs[l].at < runs[m].at BY <1>5, <3>1 DEF InOrderOfScore
    <3>4. runs[m].at <= runs[l].at BY <2>3, <2>4 DEF l
    <3>5. runs[m].at \in Nat /\ runs[l].at \in Nat BY <1>0, <3>1, Zenon DEF IsRun
    <3>6. l <= m BY <2>3, <2>4 DEF l
    <3> QED BY <3>1, <3>2, <3>3, <3>4, <3>5, <3>6
  <2> QED BY <1>2, <2>1, <2>2, <2>5 DEF m, l
<1>6. ASSUME lock_reason(runs) = "incomplete_no_score",
             NEW x \in Checks, Weight[x] > 0, Dimension[x] \in ScoredDimensions(site.erp)
      PROVE  runs[StateRun(runs)].results[x].status \notin {"PASS", "WARN", "FAIL"}
  <2> DEFINE s == StateRun(runs)
             state == IF s = 0 THEN [status |-> "none"] ELSE runs[s]
  <2>1. /\ app_access(runs) # "unlocked" /\ state.status # "none" /\ state.status # "FAILED"
        /\ ~is_effectively_blocked(state)
    <3>1. lock_reason(runs) =
            IF app_access(runs) = "unlocked" THEN "none"
            ELSE IF app_access(runs) = "soft_locked_running" THEN "running_no_score"
            ELSE IF state.status = "none" THEN "no_run"
            ELSE IF state.status = "FAILED" THEN "failed"
            ELSE IF is_effectively_blocked(state) THEN "blocked"
            ELSE "incomplete_no_score"
      BY Zenon DEF lock_reason
    <3> HIDE DEF state
    <3> QED BY <1>6, <3>1
  <2>2. s # 0 /\ state = runs[s]
    <3>1. ASSUME s = 0 PROVE FALSE
      <4>1. state = [status |-> "none"] BY <3>1, Zenon
      <4> HIDE DEF state
      <4> QED BY <2>1, <4>1
    <3> QED BY <3>1, Zenon
  <2> HIDE DEF state
  <2>3. s \in DOMAIN runs /\ runs[s].status \notin ACTIVE_STATUSES
    <3>1. IsSeq(runs) /\ Len(runs) \in Nat /\ DOMAIN runs = 1..Len(runs)
      BY <1>0, SeqLen DEF RunsAreScored
    <3>2. CASE runs # <<>> /\ runs[Len(runs)].status \notin ACTIVE_STATUSES
      <4>1. s = Len(runs) BY <3>2, Zenon DEF StateRun
      <4>2. Len(runs) # 0 BY <3>1, <3>2, EmptySeq DEF IsSeq
      <4> HIDE DEF s
      <4> QED BY <3>1, <3>2, <4>1, <4>2 DEF ACTIVE_STATUSES
    <3>3. CASE ~(runs # <<>> /\ runs[Len(runs)].status \notin ACTIVE_STATUSES)
      <4> DEFINE T == {i \in DOMAIN runs : runs[i].status \in TERMINAL_STATUSES}
      <4>1. s = Latest(T) BY <3>3, Zenon DEF StateRun
      <4>2. T \in SUBSET DOMAIN runs /\ \A i \in T : runs[i].status \in TERMINAL_STATUSES OBVIOUS
      <4> HIDE DEF T, s
      <4>3. T # {} BY <1>0, <2>2, <4>1, <4>2, LatestOrNone, Zenon
      <4>4. s \in T BY <1>0, <4>1, <4>2, <4>3, LatestIsIn, Zenon
      <4> QED BY <4>2, <4>4 DEF TERMINAL_STATUSES, ACTIVE_STATUSES
    <3> QED BY <3>2, <3>3
  <2> HIDE DEF s
  <2>4. IsRun(runs[s], site.erp) /\ runs[s].status = "SUCCEEDED"
    <3>1. IsRun(runs[s], site.erp) BY <1>0, <2>3
    <3>2. runs[s].status \in {"QUEUED", "RUNNING", "SUCCEEDED", "FAILED"} BY <3>1, Zenon DEF IsRun
    <3> QED BY <2>1, <2>2, <2>3, <3>1, <3>2 DEF ACTIVE_STATUSES
  <2>5. IsAssembled(runs[s], site.erp) BY <2>4, Zenon DEF IsRun
  <2>6. runs[s].score.headline = NoScore
    <3>1. s \notin S BY <1>2, <1>3, <2>1
    <3> HIDE DEF NoScore
    <3> QED BY <2>3, <2>4, <3>1, Zenon DEF S, WithHeadline, HasHeadline
  <2> DEFINE results == runs[s].results
  <2>7. /\ runs[s].score = assemble_dcs_score(results, site.erp)
        /\ results = _normalize_results(results, site.erp) /\ DOMAIN results = Checks
    BY <2>5, Zenon DEF IsAssembled
  <2> HIDE DEF results
  <2>8. \/ _blocking_gate_failures(results, site.erp) # {}
        \/ \A d \in ScoredDimensions(site.erp) : Eligible(results, d) = {}
    BY <2>6, <2>7, ScoreSays, Zenon
  <2>9. _blocking_gate_failures(results, site.erp) = {}
    <3> SUFFICES ASSUME NEW y \in _blocking_gate_failures(results, site.erp) PROVE FALSE OBVIOUS
    <3>1. /\ y \in Checks \ Optional /\ results[y].status = "FAIL"
          /\ y \in BLOCKING_GATE_IDS_ERP
      BY DEF _blocking_gate_failures, BLOCKING_GATE_IDS_ERP
    <3>2. y \in Gates BY <3>1 DEF BLOCKING_GATE_IDS_ERP, BLOCKING_GATE_IDS, Gates
    <3>3. y \in (DOMAIN results \cap Gates) \ Optional BY <2>7, <3>1, <3>2
    <3>4. is_effectively_blocked(state)
      BY <2>2, <2>6, <3>1, <3>3, Zenon DEF is_effectively_blocked, results
    <3> QED BY <2>1, <3>4
  <2>10. Eligible(results, Dimension[x]) = {} BY <1>6, <2>8, <2>9
  <2>11. results[x].status \notin ELIGIBLE_STATUSES
    BY <1>6, <2>10 DEF Eligible, Scored
  <2> QED BY <2>11, Zenon DEF ELIGIBLE_STATUSES, results, s
<1> HIDE DEF NoScore
<1> QED BY <1>4, <1>5, <1>6, Zenon DEF ShellAgreesWithPilots, c

(* The company shell and the pilots never show two runs at once                       *)
(* (resolve_dcs_app_status, resolve_recommendation_context).                          *)
THEOREM ShellAgreesWithPilotsHolds == Spec => []ShellAgreesWithPilots
<1>1. IInv => ShellAgreesWithPilots BY ShellAgrees
<1> QED BY <1>1, Invariance, PTL

-----------------------------------------------------------------------------
(* The graph of a workflow. Both of its walks are functions that are defined by       *)
(* recursion: they exist, and so they say what their definition says.               *)

(* From place at, with the nodes at[1] behind it, every way on ends.                  *)
Places(D) == (SUBSET D) \X D
Ends(nodes, X, at) ==
  /\ at[2] \notin at[1]
  /\ \/ is_terminal_node(nodes[at[2]])
     \/ \A x \in Targets(nodes[at[2]]) :
          x \in DOMAIN nodes /\ <<at[1] \cup {at[2]}, x>> \in X
IsWalk(walk, nodes) ==
  walk = [at \in (SUBSET DOMAIN nodes) \X DOMAIN nodes |->
            /\ at[2] \notin at[1]
            /\ \/ is_terminal_node(nodes[at[2]])
               \/ \A x \in Targets(nodes[at[2]]) :
                    x \in DOMAIN nodes /\ walk[<<at[1] \cup {at[2]}, x>>]]
Walk(nodes) == CHOOSE walk : IsWalk(walk, nodes)

(* The places from which every way on ends are the least set that has every place     *)
(* that leads to its own places only.                                              *)
LEMMA WalkExists ==
  ASSUME NEW nodes
  PROVE  \E walk : IsWalk(walk, nodes)
<1> DEFINE P == Places(DOMAIN nodes)
           G == {at \in P : \A X \in SUBSET P :
                              (\A a \in P : Ends(nodes, X, a) => a \in X) => at \in X}
           w == [at \in P |-> at \in G]
<1>1. ASSUME NEW X, NEW Y, X \subseteq Y, NEW at, Ends(nodes, X, at)
      PROVE  Ends(nodes, Y, at)
  BY <1>1 DEF Ends
<1>2. \A at \in P : Ends(nodes, G, at) => at \in G
  <2> SUFFICES ASSUME NEW at \in P, Ends(nodes, G, at),
                      NEW X \in SUBSET P, \A a \in P : Ends(nodes, X, a) => a \in X
               PROVE  at \in X
    BY Zenon
  <2>1. G \subseteq X OBVIOUS
  <2> HIDE DEF G
  <2>2. Ends(nodes, X, at) BY <1>1, <2>1
  <2> QED BY <2>2
<1>3. \A at \in G : Ends(nodes, G, at)
  <2> SUFFICES ASSUME NEW at \in G PROVE Ends(nodes, G, at) OBVIOUS
  <2> DEFINE X == {a \in P : Ends(nodes, G, a)}
  <2>1. X \in SUBSET P OBVIOUS
  <2>2. \A a \in P : Ends(nodes, X, a) => a \in X
    <3>1. X \subseteq G BY <1>2
    <3> HIDE DEF G
    <3> SUFFICES ASSUME NEW a \in P, Ends(nodes, X, a) PROVE Ends(nodes, G, a) OBVIOUS
    <3> QED BY <1>1, <3>1
  <2>3. at \in X
    <3> HIDE DEF X
    <3> QED BY <2>1, <2>2
  <2> HIDE DEF G
  <2> QED BY <2>3
<1>4. G \subseteq P OBVIOUS
<1> HIDE DEF G
<1>5. ASSUME NEW at \in P
      PROVE  (at \in G) =
               (/\ at[2] \notin at[1]
                /\ \/ is_terminal_node(nodes[at[2]])
                   \/ \A x \in Targets(nodes[at[2]]) :
                        x \in DOMAIN nodes /\ w[<<at[1] \cup {at[2]}, x>>])
  <2>1. at \in G <=> Ends(nodes, G, at) BY <1>2, <1>3
  <2>2. \A x \in DOMAIN nodes : w[<<at[1] \cup {at[2]}, x>>] <=> <<at[1] \cup {at[2]}, x>> \in G
    <3> SUFFICES ASSUME NEW x \in DOMAIN nodes
                 PROVE  w[<<at[1] \cup {at[2]}, x>>] <=> <<at[1] \cup {at[2]}, x>> \in G
      OBVIOUS
    <3>1. <<at[1] \cup {at[2]}, x>> \in P BY DEF Places
    <3> HIDE DEF P
    <3> QED BY <3>1
  <2> HIDE DEF w, G
  <2> DEFINE A == \A x \in Targets(nodes[at[2]]) : x \in DOMAIN nodes /\ <<at[1] \cup {at[2]}, x>> \in G
             B == \A x \in Targets(nodes[at[2]]) : x \in DOMAIN nodes /\ w[<<at[1] \cup {at[2]}, x>>]
  <2>3. A <=> B
    <3>1. ASSUME A PROVE B
      <4> SUFFICES ASSUME NEW x \in Targets(nodes[at[2]])
                   PROVE  x \in DOMAIN nodes /\ w[<<at[1] \cup {at[2]}, x>>]
        OBVIOUS
      <4>1. x \in DOMAIN nodes /\ <<at[1] \cup {at[2]}, x>> \in G BY <3>1
      <4> QED BY <4>1, <2>2
    <3>2. ASSUME B PROVE A
      <4> SUFFICES ASSUME NEW x \in Targets(nodes[at[2]])
                   PROVE  x \in DOMAIN nodes /\ <<at[1] \cup {at[2]}, x>> \in G
        OBVIOUS
      <4>1. x \in DOMAIN nodes /\ w[<<at[1] \cup {at[2]}, x>>] BY <3>2
      <4> QED BY <4>1, <2>2
    <3> QED BY <3>1, <3>2
  <2>4. at \in G <=> (/\ at[2] \notin at[1] /\ \/ is_terminal_node(nodes[at[2]]) \/ A)
    BY <2>1, Zenon DEF Ends
  <2> HIDE DEF A
  <2>5. at \in G <=> (/\ at[2] \notin at[1] /\ \/ is_terminal_node(nodes[at[2]]) \/ B)
    BY <2>3, <2>4, Zenon
  <2> HIDE DEF B
  <2> DEFINE C == /\ at[2] \notin at[1] /\ \/ is_terminal_node(nodes[at[2]]) \/ B
  <2>6. (at \in G) = C
    <3>1. CASE at \in G
      <4>1. (at \in G) = TRUE BY <3>1
      <4>2. C = TRUE BY <2>5, <3>1, Zenon
      <4> HIDE DEF C
      <4> QED BY <4>1, <4>2, Zenon
    <3>2. CASE at \notin G
      <4>1. (at \in G) = FALSE BY <3>2
      <4>2. C = FALSE BY <2>5, <3>2, Zenon
      <4> HIDE DEF C
      <4> QED BY <4>1, <4>2, Zenon
    <3> QED BY <3>1, <3>2
  <2> QED BY <2>6, Zenon DEF B
<1>6. IsWalk(w, nodes)
  <2>1. P = (SUBSET DOMAIN nodes) \X DOMAIN nodes BY DEF Places
  <2>2. w = [at \in P |-> at \in G] OBVIOUS
  <2> HIDE DEF w, P
  <2>3. w = [at \in P |->
               /\ at[2] \notin at[1]
               /\ \/ is_terminal_node(nodes[at[2]])
                  \/ \A x \in Targets(nodes[at[2]]) :
                       x \in DOMAIN nodes /\ w[<<at[1] \cup {at[2]}, x>>]]
    <3> DEFINE e == [at \in P |->
                       /\ at[2] \notin at[1]
                       /\ \/ is_terminal_node(nodes[at[2]])
                          \/ \A x \in Targets(nodes[at[2]]) :
                               x \in DOMAIN nodes /\ w[<<at[1] \cup {at[2]}, x>>]]
    <3>1. \A at \in P : w[at] = e[at]
      <4> SUFFICES ASSUME NEW at \in P PROVE w[at] = e[at] OBVIOUS
      <4>1. w[at] = (at \in G) BY <2>2, Zenon
      <4>2. e[at] = (/\ at[2] \notin at[1]
                     /\ \/ is_terminal_node(nodes[at[2]])
                        \/ \A x \in Targets(nodes[at[2]]) :
                             x \in DOMAIN nodes /\ w[<<at[1] \cup {at[2]}, x>>])
        BY Zenon
      <4> HIDE DEF e
      <4> QED BY <1>5, <4>1, <4>2, Zenon
    <3>2. w = [at \in P |-> w[at]] BY <2>2, Zenon
    <3>3. e = [at \in P |-> e[at]] OBVIOUS
    <3> HIDE DEF e
    <3>4. w = e BY <3>1, <3>2, <3>3
    <3> QED BY <3>4 DEF e
  <2> QED BY <2>1, <2>3, Zenon DEF IsWalk
<1> QED BY <1>6

(* What node_reaches_terminal says of a place says so of every way on.                *)
LEMMA WalkSays ==
  ASSUME NEW nodes, NEW A \in SUBSET DOMAIN nodes, NEW n \in DOMAIN nodes, Walk(nodes)[<<A, n>>]
  PROVE  /\ n \notin A
         /\ \/ is_terminal_node(nodes[n])
            \/ \A x \in Targets(nodes[n]) :
                 x \in DOMAIN nodes /\ Walk(nodes)[<<A \cup {n}, x>>]
<1> DEFINE w == Walk(nodes)
           at == <<A, n>>
<1>1. IsWalk(w, nodes) BY WalkExists, Zenon DEF Walk
<1>2. at \in (SUBSET DOMAIN nodes) \X DOMAIN nodes /\ at[1] = A /\ at[2] = n OBVIOUS
<1>3. w[at] BY Zenon
<1> HIDE DEF w, at
<1>4. w[at] = (/\ at[2] \notin at[1]
               /\ \/ is_terminal_node(nodes[at[2]])
                  \/ \A x \in Targets(nodes[at[2]]) :
                       x \in DOMAIN nodes /\ w[<<at[1] \cup {at[2]}, x>>])
  BY <1>1, <1>2, Zenon DEF IsWalk
<1> QED BY <1>2, <1>3, <1>4, Zenon DEF w

(* node_reaches_terminal is the walk from a node with nothing behind it.              *)
LEMMA ReachesMeans ==
  ASSUME NEW nodes, NEW n
  PROVE  node_reaches_terminal(nodes, n) = Walk(nodes)[<<{}, n>>]
BY Zenon DEF node_reaches_terminal, Walk, IsWalk

(* No set of nodes that go on keeps a contact that is sure to get to an end.          *)
LEMMA NothingIsKept ==
  ASSUME NEW nodes, IsFiniteSet(DOMAIN nodes), nodes_missing_terminal(nodes) = {},
         NEW S \in SUBSET DOMAIN nodes, S # {}, \A n \in S : ~is_terminal_node(nodes[n])
  PROVE  \E n \in S : Targets(nodes[n]) \cap S = {}
<1> DEFINE D == DOMAIN nodes
           B == {D \ A : A \in {Z \in SUBSET D : \E n \in S : Walk(nodes)[<<Z, n>>]}}
<1>1. ASSUME \A n \in S : Targets(nodes[n]) \cap S # {} PROVE FALSE
  <2>1. \A n \in D : Walk(nodes)[<<{}, n>>]
    <3> SUFFICES ASSUME NEW n \in D PROVE Walk(nodes)[<<{}, n>>] OBVIOUS
    <3>1. node_reaches_terminal(nodes, n) BY Zenon DEF nodes_missing_terminal
    <3> QED BY <3>1, ReachesMeans, Zenon
  <2>2. D \ {} \in B
    <3>1. \E n \in S : Walk(nodes)[<<{}, n>>] BY <2>1
    <3>2. {} \in SUBSET D OBVIOUS
    <3>3. {} \in {Z \in SUBSET D : \E n \in S : Walk(nodes)[<<Z, n>>]} BY <3>1, <3>2, Zenon
    <3> QED BY <3>3, Zenon
  <2>3. \E T : IsSmallest(T, B)
    <3>1. \A T \in B : T \subseteq D OBVIOUS
    <3>2. B # {} BY <2>2
    <3> HIDE DEF B
    <3> QED BY <3>1, <3>2, Smallest, Zenon
  <2>4. PICK T : IsSmallest(T, B) BY <2>3
  <2>5. T \in B /\ \A V \in B : V \subseteq T => V = T BY <2>4, Zenon DEF IsSmallest
  <2>6. PICK A \in SUBSET D : T = D \ A /\ \E n \in S : Walk(nodes)[<<A, n>>] BY <2>5
  <2>7. PICK n \in S : Walk(nodes)[<<A, n>>] BY <2>6
  <2>8. n \in D /\ n \notin A /\ \A x \in Targets(nodes[n]) : Walk(nodes)[<<A \cup {n}, x>>]
    <3>1. n \in D /\ ~is_terminal_node(nodes[n]) BY <2>7
    <3> QED BY <2>6, <2>7, <3>1, WalkSays, Zenon
  <2>9. PICK x \in Targets(nodes[n]) : x \in S BY <1>1, <2>7
  <2>10. D \ (A \cup {n}) \in B
    <3>1. A \cup {n} \in SUBSET D BY <2>6, <2>8
    <3>2. \E y \in S : Walk(nodes)[<<A \cup {n}, y>>] BY <2>8, <2>9
    <3>3. A \cup {n} \in {Z \in SUBSET D : \E y \in S : Walk(nodes)[<<Z, y>>]} BY <3>1, <3>2, Zenon
    <3> QED BY <3>3, Zenon
  <2> HIDE DEF B, D
  <2> QED BY <2>5, <2>6, <2>8, <2>10
<1> QED BY <1>1

(* A node that is sure to get to an end leads to nodes of the workflow only.          *)
LEMMA NothingLeadsOut ==
  ASSUME NEW nodes, nodes_missing_terminal(nodes) = {}, NEW n \in DOMAIN nodes, ~is_terminal_node(nodes[n])
  PROVE  Targets(nodes[n]) \subseteq DOMAIN nodes
<1>1. node_reaches_terminal(nodes, n) BY Zenon DEF nodes_missing_terminal
<1>2. Walk(nodes)[<<{}, n>>] BY <1>1, ReachesMeans, Zenon
<1>3. {} \in SUBSET DOMAIN nodes OBVIOUS
<1>4. \A x \in Targets(nodes[n]) : x \in DOMAIN nodes BY <1>2, <1>3, WalkSays, Zenon
<1> QED BY <1>4

-----------------------------------------------------------------------------
(* The rounds of the breadth first search.                                          *)
Further(nodes, s) == s \cup ((UNION {Targets(nodes[n]) : n \in s}) \cap DOMAIN nodes)
AreRounds(seen, nodes, N) ==
  seen = [k \in 0..N |-> IF k = 0 THEN find_entry_node_ids(nodes)
                         ELSE seen[k - 1] \cup
                                ((UNION {Targets(nodes[n]) : n \in seen[k - 1]}) \cap DOMAIN nodes)]

(* However many rounds are asked for, there are such rounds (reachable_node_ids).     *)
LEMMA RoundsExist ==
  ASSUME NEW nodes, NEW N \in Nat
  PROVE  \E seen : AreRounds(seen, nodes, N)
<1> DEFINE Bad == {k \in Nat : ~\E seen : AreRounds(seen, nodes, k)}
           E == find_entry_node_ids(nodes)
<1>1. ASSUME Bad # {} PROVE FALSE
  <2>1. PICK k \in Bad : \A m \in Bad : k <= m
    <3>1. Bad \in SUBSET Nat OBVIOUS
    <3> HIDE DEF Bad
    <3> QED BY <1>1, <3>1, Least
  <2>2. k \in Nat /\ ~\E seen : AreRounds(seen, nodes, k) OBVIOUS
  <2>3. CASE k = 0
    <3> DEFINE s == [i \in 0..0 |-> E]
    <3>1. \A i \in 0..0 : i = 0 OBVIOUS
    <3> HIDE DEF E
    <3>2. s = [i \in 0..0 |-> IF i = 0 THEN E
                 ELSE s[i - 1] \cup ((UNION {Targets(nodes[n]) : n \in s[i - 1]}) \cap DOMAIN nodes)]
      BY <3>1, Zenon
    <3> HIDE DEF s
    <3>3. AreRounds(s, nodes, 0) BY <3>2, Zenon DEF AreRounds, E
    <3> QED BY <2>2, <2>3, <3>3
  <2>4. CASE k # 0
    <3>1. k - 1 \in Nat /\ ~(k <= k - 1) BY <2>2, <2>4
    <3>2. k - 1 \notin Bad
      <4> HIDE DEF Bad
      <4> QED BY <2>1, <3>1
    <3>3. PICK s : AreRounds(s, nodes, k - 1) BY <3>1, <3>2
    <3> DEFINE t == [i \in 0..k |-> IF i = k THEN Further(nodes, s[k - 1]) ELSE s[i]]
    <3>4. \A i \in 0..(k - 1) : s[i] = IF i = 0 THEN E ELSE Further(nodes, s[i - 1])
      BY <3>3, Zenon DEF AreRounds, Further
    <3>5. \A i \in 0..k : t[i] = IF i = 0 THEN E ELSE Further(nodes, t[i - 1])
      <4> SUFFICES ASSUME NEW i \in 0..k PROVE t[i] = IF i = 0 THEN E ELSE Further(nodes, t[i - 1])
        OBVIOUS
      <4> HIDE DEF E
      <4>1. CASE i = k
        <5>1. t[i] = Further(nodes, s[k - 1]) BY <4>1
        <5>2. t[i - 1] = s[k - 1] BY <4>1, <2>2, <2>4
        <5> HIDE DEF t
        <5> QED BY <4>1, <2>4, <5>1, <5>2
      <4>2. CASE i # k
        <5>1. i \in 0..(k - 1) BY <4>2, <2>2
        <5>2. t[i] = s[i] BY <4>2
        <5>3. i # 0 => t[i - 1] = s[i - 1] BY <5>1, <2>2
        <5> HIDE DEF t
        <5> QED BY <3>4, <5>1, <5>2, <5>3
      <4> QED BY <4>1, <4>2
    <3>6. t = [i \in 0..k |-> t[i]] OBVIOUS
    <3> HIDE DEF t, E
    <3>7. t = [i \in 0..k |-> IF i = 0 THEN E ELSE Further(nodes, t[i - 1])] BY <3>5, <3>6, Zenon
    <3>8. AreRounds(t, nodes, k) BY <3>7, Zenon DEF AreRounds, Further, E
    <3> QED BY <2>2, <3>8
  <2> QED BY <2>3, <2>4
<1>2. N \notin Bad BY <1>1
<1> QED BY <1>2

(* What is closed under going on, and has the entries, has what can be reached.        *)
LEMMA ReachedIsInClosed ==
  ASSUME NEW nodes, Cardinality(DOMAIN nodes) \in Nat,
         NEW S, find_entry_node_ids(nodes) \subseteq S,
         \A n \in S : \A t \in Targets(nodes[n]) : t \in S \/ t \notin DOMAIN nodes
  PROVE  reachable_node_ids(nodes) \subseteq S
<1> DEFINE N == Cardinality(DOMAIN nodes)
           seen == CHOOSE s : AreRounds(s, nodes, N)
           Bad == {k \in 0..N : ~(seen[k] \subseteq S)}
<1>1. AreRounds(seen, nodes, N) BY RoundsExist, Zenon
<1>2. reachable_node_ids(nodes) = seen[N] BY Zenon DEF reachable_node_ids, AreRounds
<1>0. N \in Nat BY DEF N
<1> HIDE DEF seen, N
<1>3. \A k \in 0..N : seen[k] = IF k = 0 THEN find_entry_node_ids(nodes) ELSE Further(nodes, seen[k - 1])
  BY <1>1, Zenon DEF AreRounds, Further
<1>4. ASSUME Bad # {} PROVE FALSE
  <2>1. PICK k \in Bad : \A m \in Bad : k <= m
    <3>1. Bad \in SUBSET Nat OBVIOUS
    <3> HIDE DEF Bad
    <3> QED BY <1>4, <3>1, Least
  <2>2. k \in 0..N /\ ~(seen[k] \subseteq S) OBVIOUS
  <2>3. k # 0 BY <1>3, <2>2
  <2>4. k - 1 \in 0..N /\ ~(k <= k - 1) BY <1>0, <2>2, <2>3
  <2>5. k - 1 \notin Bad
    <3> HIDE DEF Bad
    <3> QED BY <2>1, <2>4
  <2>6. seen[k - 1] \subseteq S BY <2>4, <2>5
  <2>7. seen[k] = Further(nodes, seen[k - 1]) BY <1>3, <2>2, <2>3
  <2>8. Further(nodes, seen[k - 1]) \subseteq S BY <2>6 DEF Further
  <2> QED BY <2>2, <2>7, <2>8
<1>5. N \in 0..N BY DEF N
<1> QED BY <1>2, <1>4, <1>5

(* A QA that passed has looked at the graph from its ends and from its entries.       *)
LEMMA WorkflowsEnd == ASSUME IInv PROVE ActivatedWorkflowsEnd
<1> DEFINE b == site.blueprint
           nodes == b.nodes
           going == {n \in DOMAIN nodes :
                       nodes[n].next # <<>> /\ nodes[n].type \notin TERMINAL_NODE_TYPES}
           closed(S) == \A n \in S : \A t \in Targets(nodes[n]) : t \in S \/ t \notin DOMAIN nodes
<1> SUFFICES ASSUME NEW h \in DOMAIN handoffs, qas[handoffs[h].qa].status = "PASS",
                    {"terminal_reachable", "no_orphan_nodes"} \subseteq b.tests
             PROVE  /\ \A n \in going : Targets(nodes[n]) \subseteq DOMAIN nodes
                    /\ \A S \in (SUBSET going) \ {{}} : \E n \in S : Targets(nodes[n]) \cap S = {}
                    /\ \A S \in SUBSET DOMAIN nodes :
                         find_entry_node_ids(nodes) \subseteq S /\ closed(S) => S = DOMAIN nodes
  BY Zenon DEF ActivatedWorkflowsEnd
<1> DEFINE g == packages[handoffs[h].package].gates
<1>1. evaluate_hard_tests(b, g) = "PASS" /\ site \in Deployments BY HandoffIsOf, Zenon
<1>2. IsFiniteSet(b.tests) /\ IsFiniteSet(DOMAIN nodes) BY <1>1, DeploymentsAssumption
<1> HIDE DEF g
<1>3. evaluate_terminal_reachable(b)
  <2>1. "terminal_reachable" \in b.tests OBVIOUS
  <2> HIDE DEF b
  <2>2. evaluate_hard_test("terminal_reachable", b, g) BY <1>1, <1>2, <2>1, PassedQa, Zenon
  <2>3. evaluate_hard_test("terminal_reachable", b, g) = evaluate_terminal_reachable(b)
    BY Zenon DEF evaluate_hard_test
  <2> QED BY <2>2, <2>3, Zenon
<1>4. evaluate_no_orphan_nodes(b)
  <2>1. "no_orphan_nodes" \in b.tests OBVIOUS
  <2> HIDE DEF b
  <2>2. evaluate_hard_test("no_orphan_nodes", b, g) BY <1>1, <1>2, <2>1, PassedQa, Zenon
  <2>3. evaluate_hard_test("no_orphan_nodes", b, g) = evaluate_no_orphan_nodes(b)
    BY Zenon DEF evaluate_hard_test
  <2> QED BY <2>2, <2>3, Zenon
<1>5. nodes_missing_terminal(nodes) = {} BY <1>3, Zenon DEF evaluate_terminal_reachable
<1>6. DOMAIN nodes \subseteq reachable_node_ids(nodes)
  BY <1>4 DEF evaluate_no_orphan_nodes, orphan_node_ids
<1>7. \A n \in going : n \in DOMAIN nodes /\ ~is_terminal_node(nodes[n])
  BY DEF is_terminal_node
<1>8. ASSUME NEW n \in going PROVE Targets(nodes[n]) \subseteq DOMAIN nodes
  <2> HIDE DEF going, nodes
  <2> QED BY <1>5, <1>7, <1>8, NothingLeadsOut
<1>9. ASSUME NEW S \in (SUBSET going) \ {{}} PROVE \E n \in S : Targets(nodes[n]) \cap S = {}
  <2> HIDE DEF going, nodes
  <2>1. S \in SUBSET DOMAIN nodes /\ S # {} /\ \A n \in S : ~is_terminal_node(nodes[n]) BY <1>7
  <2> QED BY <1>2, <1>5, <2>1, NothingIsKept, Zenon
<1>10. ASSUME NEW S \in SUBSET DOMAIN nodes, find_entry_node_ids(nodes) \subseteq S, closed(S)
       PROVE  S = DOMAIN nodes
  <2> HIDE DEF nodes
  <2>1. Cardinality(DOMAIN nodes) \in Nat BY <1>2, FS_CardinalityType
  <2>2. reachable_node_ids(nodes) \subseteq S BY <1>10, <2>1, ReachedIsInClosed
  <2> QED BY <1>6, <2>2
<1> HIDE DEF going, nodes, closed
<1> QED BY <1>8, <1>9, <1>10

(* A workflow that was handed over and passed its tests ends whatever way a contact   *)
(* takes: none of its cycles keeps a contact, and every node is reached from its      *)
(* entries (terminal_reachable, no_orphan_nodes).                                     *)
THEOREM ActivatedWorkflowsEndHolds == Spec => []ActivatedWorkflowsEnd
<1>1. IInv => ActivatedWorkflowsEnd BY WorkflowsEnd
<1> QED BY <1>1, Invariance, PTL

(* A company that is ready is ready on what was judged, and whoever did no worse in    *)
(* every check is in no lower state and has no lower headline (assemble_dcs_score).    *)
THEOREM ScoreIsEarnedHolds == Spec => []ScoreIsEarned
<1>1. IInv => ScoreIsEarned
  <2> SUFFICES ASSUME IInv PROVE ScoreIsEarned OBVIOUS
  <2>1. ASSUME NEW i \in DOMAIN runs PROVE ReadyOnWhatWasJudged(runs[i])
    <3>1. IsRun(runs[i], site.erp) BY Zenon DEF IInv, RunsAreScored
    <3>2. CASE runs[i].scored > 0
      <4>1. IsAssembled(runs[i], site.erp) BY <3>1, <3>2, Zenon DEF IsRun
      <4> QED BY <4>1, ReadyOnJudged, Zenon DEF IsAssembled
    <3>3. CASE runs[i].scored = 0
      <4>1. runs[i].score.state \notin {"READY", "CONDITIONALLY_READY"} BY <3>1, <3>3 DEF IsRun
      <4> QED BY <4>1, Zenon DEF ReadyOnWhatWasJudged
    <3> QED BY <3>1, <3>2, <3>3 DEF IsRun
  <2>2. ASSUME NEW i \in {k \in DOMAIN runs : runs[k].scored > 0},
               NEW j \in {k \in DOMAIN runs : runs[k].scored > 0},
               NoWorse(runs[i].results, runs[j].results)
        PROVE  /\ StateRank(runs[i].score.state) >= StateRank(runs[j].score.state)
               /\ NoScore \notin {runs[i].score.headline, runs[j].score.headline} =>
                    runs[i].score.headline >= runs[j].score.headline
               /\ runs[i].score.headline = NoScore => runs[j].score.headline = NoScore
    <3>1. IsAssembled(runs[i], site.erp) /\ IsAssembled(runs[j], site.erp)
      BY Zenon DEF IInv, RunsAreScored, IsRun
    <3> DEFINE r == runs[i].results
               q == runs[j].results
               e == site.erp
    <3>2. NoWorse(r, q) /\ _normalize_results(r, e) = r /\ _normalize_results(q, e) = q
          /\ runs[i].score = assemble_dcs_score(r, e) /\ runs[j].score = assemble_dcs_score(q, e)
      BY <2>2, <3>1, Zenon DEF IsAssembled
    <3> HIDE DEF r, q, e
    <3> QED BY <3>2, StateKeepsOrder
  <2> QED BY <2>1, <2>2, Zenon DEF ScoreIsEarned
<1> QED BY <1>1, Invariance, PTL

-----------------------------------------------------------------------------
(* Scoring again, and what operators chose.                                         *)

-----------------------------------------------------------------------------
(* What a run measures for the DRIFT checks.                                        *)

(* The rows of a frame that is finite and come from another are finitely many.        *)
LEMMA ImageIsFinite ==
  ASSUME NEW f, IsFiniteSet(DOMAIN f)
  PROVE  IsFiniteSet({f[x] : x \in DOMAIN f})
<1> DEFINE D == DOMAIN f
           g == [x \in D |-> f[x]]
           E == {f[x] : x \in D}
<1>1. g \in Surjection(D, E)
  <2>1. g \in [D -> E] /\ \A y \in E : \E x \in D : g[x] = y OBVIOUS
  <2> HIDE DEF g, E
  <2> QED BY <2>1, Zenon DEF Surjection
<1> HIDE DEF g, E
<1>2. IsFiniteSet(D) OBVIOUS
<1>3. IsFiniteSet(E)
  <2> HIDE DEF D
  <2> QED BY <1>1, <1>2, FS_Surjection
<1> QED BY <1>3 DEF E

(* A difference between two counts is a share of the larger one.                      *)
LEMMA DeltaIsNat ==
  ASSUME NEW a \in Nat, NEW b \in Nat
  PROVE  _rate_delta(a, b) \in Nat
<1>1. CASE a = b BY <1>1 DEF _rate_delta
<1>2. CASE a # b
  <2> DEFINE x == Apart(a, b)
             y == Above(a, b)
  <2>1. x \in Nat /\ y \in Nat \ {0} /\ x <= y BY <1>2 DEF Apart, Above
  <2> HIDE DEF x, y
  <2>2. 10000 * x \in Nat /\ 10000 \in Nat /\ 10000 * x <= 10000 * y BY <2>1
  <2> DEFINE z == 10000 * x
  <2>3. Rounded(z, y) \in Nat
    <3>1. z \in Nat /\ z <= 10000 * y BY <2>2
    <3> HIDE DEF z
    <3> QED BY <2>1, <2>2, <3>1, RoundedBounds
  <2> QED BY <1>2, <2>3 DEF _rate_delta, x, y
<1> QED BY <1>1, <1>2

(* There are finitely many events, told of by the platform or nested in contacts.     *)
LEMMA NestedIsFinite ==
  ASSUME NEW u, IsRows(u), NEW kinds
  PROVE  IsFiniteSet(Nested(u, kinds))
<1> DEFINE of(c) == {x \in c.events : x.kind \in kinds}
           g(c) == [e \in of(c) |-> [e EXCEPT !.who = c.id, !.email = c.email]]
           these(c) == {[e EXCEPT !.who = c.id, !.email = c.email] : e \in of(c)}
           h == [c \in u.contacts |-> these(c)]
           all == {h[c] : c \in DOMAIN h}
<1>1. IsFiniteSet(u.contacts) /\ \A c \in u.contacts : IsFiniteSet(c.events) BY DEF IsRows
<1>2. ASSUME NEW c \in u.contacts PROVE IsFiniteSet(these(c))
  <2>1. IsFiniteSet(of(c))
    <3>1. of(c) \in SUBSET c.events OBVIOUS
    <3> HIDE DEF of
    <3> QED BY <1>1, <3>1, FS_Subset
  <2>2. DOMAIN g(c) = of(c) OBVIOUS
  <2>3. these(c) = {g(c)[x] : x \in DOMAIN g(c)} OBVIOUS
  <2> DEFINE k == g(c)
  <2>4. IsFiniteSet({k[x] : x \in DOMAIN k})
    <3>1. IsFiniteSet(DOMAIN k) BY <2>1, <2>2
    <3> HIDE DEF k
    <3> QED BY <3>1, ImageIsFinite
  <2> QED BY <2>3, <2>4
<1>3. IsFiniteSet(all)
  <2>1. IsFiniteSet(DOMAIN h) BY <1>1
  <2> HIDE DEF h
  <2> QED BY <2>1, ImageIsFinite
<1>4. \A T \in all : IsFiniteSet(T)
  <2> HIDE DEF these
  <2> QED BY <1>2
<1>5. Nested(u, kinds) = UNION all
  <2>1. all = {these(c) : c \in u.contacts}
    <3> HIDE DEF these
    <3> QED OBVIOUS
  <2>2. Nested(u, kinds) = UNION {these(c) : c \in u.contacts} BY Zenon DEF Nested
  <2> HIDE DEF all, these
  <2> QED BY <2>1, <2>2
<1> HIDE DEF all
<1> QED BY <1>3, <1>4, <1>5, FS_UNION

(* So the events and sales that a volume is made of are finitely many.                *)
LEMMA VolumeIsFinite ==
  ASSUME NEW u, IsRows(u)
  PROVE  IsFiniteSet(Told(u)) /\ IsFiniteSet(Sold(u))
<1>1. IsFiniteSet(u.told) /\ IsFiniteSet(u.blob) /\ IsFiniteSet(u.orders) /\ IsFiniteSet(u.checkouts)
  BY DEF IsRows
<1>2. IsFiniteSet(Purchases_(u))
  <2>1. Purchases_(u) \in SUBSET u.told BY DEF Purchases_
  <2> QED BY <1>1, <2>1, FS_Subset
<1> DEFINE carts == {x \in u.blob : x.kind \in _CART_TYPES}
           f == [e \in carts |-> [e EXCEPT !.email = EmailOf(u, e)]]
           inBlob == {f[e] : e \in DOMAIN f}
<1>3. IsFiniteSet(inBlob)
  <2>1. carts \in SUBSET u.blob OBVIOUS
  <2>2. IsFiniteSet(carts)
    <3> HIDE DEF carts
    <3> QED BY <1>1, <2>1, FS_Subset
  <2>3. IsFiniteSet(DOMAIN f) BY <2>2
  <2> HIDE DEF f
  <2> QED BY <2>3, ImageIsFinite
<1>4. inBlob = {[e EXCEPT !.email = EmailOf(u, e)] : e \in carts} OBVIOUS
<1>5. Carts(u) = IF inBlob # {} THEN inBlob ELSE Nested(u, _CART_TYPES)
  <2> HIDE DEF f
  <2> QED BY <1>4, Zenon DEF Carts
<1> HIDE DEF inBlob
<1>6. IsFiniteSet(Carts(u)) BY <1>3, <1>5, NestedIsFinite
<1>7. IsFiniteSet(Told(u)) BY <1>2, <1>6, FS_Union DEF Told
<1>8. {o \in Counted(u) : ~o.cancelled} \in SUBSET u.orders /\ {k \in u.checkouts : k.done = Undated} \in SUBSET u.checkouts
  BY DEF Counted
<1> DEFINE a == {o \in Counted(u) : ~o.cancelled}
           b == {k \in u.checkouts : k.done = Undated}
<1>9. IsFiniteSet(a) /\ IsFiniteSet(b)
  <2>1. a \in SUBSET u.orders /\ b \in SUBSET u.checkouts BY <1>8
  <2> HIDE DEF a, b
  <2> QED BY <1>1, <2>1, FS_Subset
<1>10. Sold(u) = a \cup b BY DEF Sold
<1>11. IsFiniteSet(Sold(u))
  <2> HIDE DEF a, b
  <2> QED BY <1>9, <1>10, FS_Union
<1> QED BY <1>7, <1>11

(* The differences of volume are shares: never less than nothing, so never Undated.   *)
LEMMA DeltasAreNat ==
  ASSUME NEW u, IsRows(u)
  PROVE  SelfDelta(u) \in Nat /\ CrossDelta(u) \in Nat
<1>1. \A S : Recent(S) \in SUBSET S /\ Before(S) \in SUBSET S BY DEF Recent, Before, DatedRows
<1> DEFINE t == Told(u)
           s == Sold(u)
<1>2. IsFiniteSet(t) /\ IsFiniteSet(s) BY VolumeIsFinite
<1> HIDE DEF t, s
<1>3. /\ Cardinality(Recent(t)) \in Nat /\ Cardinality(Before(t)) \in Nat
      /\ Cardinality(Recent(s)) \in Nat
  BY <1>1, <1>2, FS_Subset, FS_CardinalityType
<1>4. 3 * Cardinality(Recent(t)) \in Nat BY <1>3
<1> QED BY <1>3, <1>4, DeltaIsNat, Zenon DEF SelfDelta, CrossDelta, t, s

(* How many have a segment is a count.                                                *)
LEMMA PopulationsAreNat ==
  ASSUME NEW u, IsRows(u), NEW k \in DOMAIN Populations(u)
  PROVE  Populations(u)[k] \in Nat
<1> DEFINE counted == {x \in UNION {_iter_segment_keys(c) : c \in u.contacts} :
                         x[1] = "funnel" \/ u.catalogue = <<>>}
           listed == {<<"tag", t>> : t \in DOMAIN u.catalogue}
           n(x) == Cardinality({c \in u.contacts : x \in _iter_segment_keys(c)})
           P == [x \in counted \cup listed |-> IF x \in listed THEN u.catalogue[x[2]] ELSE n(x)]
<1>1. Populations(u) = P BY DEF Populations
<1>2. k \in counted \cup listed /\ P[k] = IF k \in listed THEN u.catalogue[k[2]] ELSE n(k)
  <2>1. k \in DOMAIN P BY <1>1
  <2> HIDE DEF counted, listed, n
  <2> QED BY <2>1
<1>3. k \in listed => u.catalogue[k[2]] \in Nat
  BY DEF IsRows
<1>4. n(k) \in Nat
  <2> DEFINE C == {c \in u.contacts : k \in _iter_segment_keys(c)}
  <2>1. IsFiniteSet(u.contacts) BY DEF IsRows
  <2>2. C \in SUBSET u.contacts OBVIOUS
  <2> HIDE DEF C
  <2>3. Cardinality(C) \in Nat BY <2>1, <2>2, FS_Subset, FS_CardinalityType
  <2> QED BY <2>3 DEF C
<1> HIDE DEF counted, listed, n, P
<1> QED BY <1>1, <1>2, <1>3, <1>4

(* The ages of the ERP's domains are whole hours.                                     *)
AreWhole(ages) == \A n \in DOMAIN ages : ages[n] \in Int
IsSource(src) == src.last \in Int /\ AreWhole(src.domains)

(* Ages laid over ages are whole.                                                     *)
LEMMA OverlayIsWhole ==
  ASSUME NEW f, NEW g, AreWhole(f), AreWhole(g)
  PROVE  AreWhole(Overlay(f, g))
<1>1. DOMAIN Overlay(f, g) = DOMAIN f \cup DOMAIN g
      /\ \A x \in DOMAIN f \cup DOMAIN g : Overlay(f, g)[x] = IF x \in DOMAIN f THEN f[x] ELSE g[x]
  BY DEF Overlay
<1> QED BY <1>1 DEF AreWhole

(* What one source says keeps them so.                                                *)
LEMMA SourceKeepsWhole ==
  ASSUME NEW ages, AreWhole(ages), NEW src, IsSource(src)
  PROVE  AreWhole(SyncAges(ages, src)) /\ (src.changed \in Int => AreWhole(ConnectorAges(ages, src)))
<1> DEFINE told == Overlay(src.domains, ages)
           r == [default |-> src.last]
           z == [connector_updated_at |-> src.changed]
<1>1. AreWhole(told) BY OverlayIsWhole DEF IsSource
<1>2. AreWhole(r) BY DEF AreWhole, IsSource
<1>3. src.changed \in Int => AreWhole(z) BY DEF AreWhole
<1>4. SyncAges(ages, src) = IF src.last = Undated THEN told ELSE Overlay(told, r) BY Zenon DEF SyncAges
<1>5. ConnectorAges(ages, src) = IF SyncAges(ages, src) = <<>> THEN z ELSE SyncAges(ages, src)
  BY Zenon DEF ConnectorAges
<1> HIDE DEF told, r, z
<1>6. AreWhole(SyncAges(ages, src)) BY <1>1, <1>2, <1>4, OverlayIsWhole, Zenon
<1> QED BY <1>3, <1>5, <1>6, Zenon

(* The fold over the connectors is a recursive function on the sets of their places.   *)
IsAgesOf(it, base, connectors, S) ==
  it = [s \in SUBSET S |->
          IF s = {} THEN base ELSE ConnectorAges(it[s \ {Max(s)}], connectors[Max(s)])]

(* There is one for finitely many places: that of all but the last, and one step more. *)
LEMMA AgesExist ==
  ASSUME NEW base, NEW connectors, NEW S \in SUBSET Nat, IsFiniteSet(S)
  PROVE  \E it : IsAgesOf(it, base, connectors, S)
<1> DEFINE Bad == {t \in SUBSET S : ~\E it : IsAgesOf(it, base, connectors, t)}
<1>1. ASSUME Bad # {} PROVE FALSE
  <2>1. PICK t : IsSmallest(t, Bad)
    <3>1. \A t \in Bad : t \subseteq S OBVIOUS
    <3>2. Bad # {} BY <1>1
    <3> HIDE DEF Bad
    <3> QED BY <3>1, <3>2, Smallest, Zenon
  <2>2. t \subseteq S /\ ~\E it : IsAgesOf(it, base, connectors, t) BY <2>1 DEF IsSmallest
  <2>3. ASSUME NEW s, s \subseteq t, s # {} PROVE Max(s) \in s /\ \A y \in s : y <= Max(s)
    <3>1. IsFiniteSet(s) BY <2>2, <2>3, FS_Subset
    <3>2. s \in SUBSET Int BY <2>2, <2>3
    <3> QED BY <2>3, <3>1, <3>2, MaxOfFinite
  <2>4. CASE t = {}
    <3> DEFINE it == [s \in SUBSET {} |-> base]
    <3>1. it = [s \in SUBSET {} |->
                  IF s = {} THEN base ELSE ConnectorAges(it[s \ {Max(s)}], connectors[Max(s)])]
      OBVIOUS
    <3> HIDE DEF it
    <3>2. IsAgesOf(it, base, connectors, {}) BY <3>1, Zenon DEF IsAgesOf
    <3> QED BY <2>2, <2>4, <3>2
  <2>5. CASE t # {}
    <3> DEFINE m == Max(t)
               u == t \ {m}
    <3>1. m \in t /\ \A y \in t : y <= m BY <2>3, <2>5
    <3>2. u \subseteq t /\ u # t BY <3>1
    <3>3. PICK old : IsAgesOf(old, base, connectors, u)
      <4>1. u \notin Bad
        <5> HIDE DEF u, Bad
        <5> QED BY <2>1, <3>2 DEF IsSmallest
      <4> QED BY <2>2, <3>2, <4>1
    <3> DEFINE it == [s \in SUBSET t |->
                        IF s \subseteq u THEN old[s] ELSE ConnectorAges(old[s \ {m}], connectors[m])]
    <3>4. ASSUME NEW s \in SUBSET t
          PROVE  it[s] = IF s = {} THEN base ELSE ConnectorAges(it[s \ {Max(s)}], connectors[Max(s)])
      <4>1. CASE s \subseteq u
        <5>1. it[s] = old[s] BY <4>1
        <5>2. old[s] = IF s = {} THEN base ELSE ConnectorAges(old[s \ {Max(s)}], connectors[Max(s)])
          <6> HIDE DEF u
          <6> QED BY <3>3, <4>1, Zenon DEF IsAgesOf
        <5>3. it[s \ {Max(s)}] = old[s \ {Max(s)}]
          <6>1. s \ {Max(s)} \in SUBSET t /\ s \ {Max(s)} \subseteq u BY <4>1
          <6> DEFINE v == s \ {Max(s)}
          <6>2. v \in SUBSET t /\ v \subseteq u BY <6>1
          <6> HIDE DEF v
          <6>3. it[v] = old[v] BY <6>2
          <6> QED BY <6>3 DEF v
        <5> HIDE DEF it, u
        <5> QED BY <5>1, <5>2, <5>3
      <4>2. CASE ~(s \subseteq u)
        <5>1. m \in s BY <4>2
        <5>2. s # {} /\ Max(s) \in s /\ \A y \in s : y <= Max(s) BY <2>3, <5>1
        <5>3. Max(s) = m
          <6>1. Max(s) <= m /\ m <= Max(s) BY <3>1, <5>1, <5>2
          <6>2. m \in Nat /\ Max(s) \in Nat
            <7> HIDE DEF m
            <7>1. t \subseteq Nat BY <2>2
            <7> QED BY <3>1, <5>2, <7>1
          <6> HIDE DEF m
          <6> QED BY <6>1, <6>2
        <5> DEFINE v == s \ {m}
        <5>4. v \in SUBSET t /\ v \subseteq u OBVIOUS
        <5>5. it[v] = old[v]
          <6> HIDE DEF v, u
          <6> QED BY <5>4
        <5>6. it[s] = ConnectorAges(old[v], connectors[m]) BY <4>2
        <5> HIDE DEF it, u, m
        <5> QED BY <5>2, <5>3, <5>5, <5>6
      <4> QED BY <4>1, <4>2
    <3>5. it = [s \in SUBSET t |-> it[s]] OBVIOUS
    <3> HIDE DEF it
    <3>6. IsAgesOf(it, base, connectors, t) BY <3>4, <3>5 DEF IsAgesOf
    <3> QED BY <2>2, <3>6
  <2> QED BY <2>4, <2>5
<1> QED BY <1>1

(* Whatever connectors add to whole ages, the ages stay whole.                        *)
LEMMA AgesAreWhole ==
  ASSUME NEW u, IsRows(u)
  PROVE  AreWhole(_erp_heartbeat_surfaces(u))
<1> DEFINE cs == u.heartbeat.connectors
           D == DOMAIN cs
           base == SyncAges(<<>>, u.heartbeat.raw)
           it == CHOOSE it : IsAgesOf(it, base, cs, D)
<1>1. D \in SUBSET Nat /\ IsFiniteSet(D) BY DEF IsRows
<1>2. \A k \in D : IsSource(cs[k]) /\ cs[k].changed \in Int
  BY DEF IsRows, ToSet, IsSource, AreWhole
<1>3. IsSource(u.heartbeat.raw) BY DEF IsRows, IsSource, AreWhole
<1>4. AreWhole(<<>>) BY DEF AreWhole
<1>5. AreWhole(base) BY <1>3, <1>4, SourceKeepsWhole
<1>6. _erp_heartbeat_surfaces(u) = it[D]
  BY Zenon DEF _erp_heartbeat_surfaces, FoldLeft, MapThenFoldSet, IsAgesOf
<1> HIDE DEF cs, D, base
<1>7. IsAgesOf(it, base, cs, D) BY <1>1, AgesExist
<1> HIDE DEF it
<1> DEFINE Bad == {t \in SUBSET D : ~AreWhole(it[t])}
<1>8. ASSUME Bad # {} PROVE FALSE
  <2>1. PICK t : IsSmallest(t, Bad)
    <3>1. \A t \in Bad : t \subseteq D OBVIOUS
    <3>2. Bad # {} BY <1>8
    <3> HIDE DEF Bad
    <3> QED BY <1>1, <3>1, <3>2, Smallest, Zenon
  <2>2. t \subseteq D /\ ~AreWhole(it[t]) BY <2>1 DEF IsSmallest
  <2>3. it[t] = IF t = {} THEN base ELSE ConnectorAges(it[t \ {Max(t)}], cs[Max(t)])
    BY <1>7, <2>2, Zenon DEF IsAgesOf
  <2>4. t # {} BY <1>5, <2>2, <2>3
  <2>5. Max(t) \in t
    <3>1. t \in SUBSET D BY <2>2
    <3>2. IsFiniteSet(t) BY <1>1, <3>1, FS_Subset
    <3>3. D \subseteq Int BY <1>1
    <3>4. t \in SUBSET Int BY <3>1, <3>3
    <3> QED BY <2>4, <3>2, <3>4, MaxOfFinite
  <2> DEFINE v == t \ {Max(t)}
  <2>6. v \subseteq t /\ v # t BY <2>5
  <2>7. AreWhole(it[v])
    <3>1. v \notin Bad
      <4> HIDE DEF v, Bad
      <4> QED BY <2>1, <2>6 DEF IsSmallest
    <3> QED BY <3>1, <2>2
  <2>8. IsSource(cs[Max(t)]) /\ cs[Max(t)].changed \in Int BY <1>2, <2>2, <2>5
  <2> HIDE DEF v
  <2>9. AreWhole(ConnectorAges(it[v], cs[Max(t)])) BY <2>7, <2>8, SourceKeepsWhole
  <2> QED BY <2>2, <2>3, <2>4, <2>9 DEF v
<1>9. AreWhole(it[D])
  <2>1. D \notin Bad BY <1>8
  <2> QED BY <2>1
<1> QED BY <1>6, <1>9

(* What a block holds: what was measured, and what it says of the block before.       *)
BlockTells(u, prior, b) ==
  /\ b.cross = CrossDelta(u) /\ b.pops = Sampled(Populations(u))
  /\ b.fromApi <=> (u.catalogue # <<>>)
  /\ b.ages = _erp_heartbeat_surfaces(u)
  /\ b.crossMoved = IF prior.cross = Undated THEN {} ELSE {Apart(CrossDelta(u), prior.cross)}
  /\ b.emptied = Emptied(u, prior) /\ b.shifted = Shifted(u, prior)
  /\ b.stalled = Stalled(_erp_heartbeat_surfaces(u), prior)
  /\ b.fromApi \in BOOLEAN /\ "crossMoved" \in DOMAIN b

(* Every block holds that.                                                            *)
LEMMA BlockSays ==
  ASSUME NEW u, NEW prior, NEW b, b = build_drift_snapshot(u, prior)
  PROVE  BlockTells(u, prior, b)
<1> DEFINE f1 == CrossDelta(u)
           f2 == Sampled(Populations(u))
           f3 == (u.catalogue # <<>>)
           f4 == _erp_heartbeat_surfaces(u)
           f5 == IF prior.cross = Undated THEN {} ELSE {Apart(CrossDelta(u), prior.cross)}
           f6 == Emptied(u, prior)
           f7 == Shifted(u, prior)
           f8 == Stalled(_erp_heartbeat_surfaces(u), prior)
<1>1. b = [cross |-> f1, pops |-> f2, fromApi |-> f3, ages |-> f4, crossMoved |-> f5,
           emptied |-> f6, shifted |-> f7, stalled |-> f8]
  BY Zenon DEF build_drift_snapshot
<1>2. f3 \in BOOLEAN OBVIOUS
<1> HIDE DEF f1, f2, f3, f4, f5, f6, f7, f8
<1>3. /\ b.cross = f1 /\ b.pops = f2 /\ b.fromApi = f3 /\ b.fromApi \in BOOLEAN /\ b.ages = f4 /\ b.crossMoved = f5
      /\ b.emptied = f6 /\ b.shifted = f7 /\ b.stalled = f8 /\ "crossMoved" \in DOMAIN b
  BY <1>1, <1>2
<1> QED BY <1>3, Zenon DEF BlockTells, f1, f2, f3, f4, f5, f6, f7, f8

(* The segments a block keeps have the populations that were counted, and members.    *)
LEMMA SampledSays ==
  ASSUME NEW pops, NEW k \in DOMAIN Sampled(pops)
  PROVE  k \in DOMAIN pops /\ Sampled(pops)[k] = pops[k] /\ pops[k] > 0
BY DEF Sampled, Restrict, FirstFew

(* Populations are of the contacts and of the catalogue, a funnel's of the contacts    *)
(* alone.                                                                             *)
LEMMA SegmentsStay ==
  ASSUME NEW u, NEW v, u.contacts = v.contacts
  PROVE  /\ u.catalogue = v.catalogue => Populations(u) = Populations(v)
         /\ \A k \in DOMAIN Populations(v) :
              k[1] = "funnel" => k \in DOMAIN Populations(u) /\ Populations(u)[k] = Populations(v)[k]
<1>1. ASSUME u.catalogue = v.catalogue PROVE Populations(u) = Populations(v)
  BY <1>1, Zenon DEF Populations
<1> DEFINE keys(w) == UNION {_iter_segment_keys(c) : c \in w.contacts}
           counted(w) == {x \in keys(w) : x[1] = "funnel" \/ w.catalogue = <<>>}
           listed(w) == {<<"tag", t>> : t \in DOMAIN w.catalogue}
           n(w, x) == Cardinality({c \in w.contacts : x \in _iter_segment_keys(c)})
           P(w) == [x \in counted(w) \cup listed(w) |-> IF x \in listed(w) THEN w.catalogue[x[2]] ELSE n(w, x)]
<1>2. Populations(u) = P(u) /\ Populations(v) = P(v) BY Zenon DEF Populations
<1>3. ASSUME NEW k \in DOMAIN P(v), k[1] = "funnel"
      PROVE  k \in DOMAIN P(u) /\ P(u)[k] = P(v)[k]
  <2>1. \A w : k \notin listed(w) BY <1>3
  <2>2. keys(u) = keys(v) /\ n(u, k) = n(v, k) BY Zenon
  <2>3. k \in counted(v)
    <3>1. k \in counted(v) \cup listed(v)
      <4> HIDE DEF counted, listed, n
      <4> QED BY <1>3
    <3> QED BY <2>1, <3>1
  <2>4. k \in counted(u) BY <1>3, <2>2, <2>3
  <2> HIDE DEF counted, listed, n
  <2> QED BY <2>1, <2>2, <2>3, <2>4
<1> HIDE DEF P
<1> QED BY <1>1, <1>2, <1>3

(* Where people did not change, and the catalogue either did not or is not on both     *)
(* sides, no segment emptied and none shifted.                                        *)
LEMMA NothingMoved ==
  ASSUME NEW u, NEW v, IsRows(u), IsRows(v), u.contacts = v.contacts,
         u.catalogue = v.catalogue \/ <<>> \in {u.catalogue, v.catalogue},
         NEW prior, NEW p, prior = build_drift_snapshot(v, p)
  PROVE  Emptied(u, prior) = {} /\ Shifted(u, prior) = {}
<1> DEFINE U == Populations(u)
           V == Populations(v)
<1>0. BlockTells(v, p, prior) BY BlockSays, Zenon
<1>1. prior.pops = Sampled(V) /\ (prior.fromApi <=> (v.catalogue # <<>>)) /\ prior.fromApi \in BOOLEAN
  BY <1>0, Zenon DEF BlockTells
<1>2. \A k \in DOMAIN prior.pops : k \in DOMAIN V /\ prior.pops[k] = V[k] /\ V[k] > 0
  <2>1. prior.pops = Sampled(V) BY <1>1
  <2>2. \A k \in DOMAIN Sampled(V) : k \in DOMAIN V /\ Sampled(V)[k] = V[k] /\ V[k] > 0
    BY SampledSays
  <2> QED BY <2>1, <2>2, Zenon
<1>3. \A k \in DOMAIN U : U[k] \in Nat BY PopulationsAreNat
<1>4. Comparable(u, prior) <=> (prior.pops = <<>> \/ prior.fromApi = (u.catalogue # <<>>)) BY DEF Comparable
<1>5. \A k : k \in Emptied(u, prior) =>
               k \in DOMAIN prior.pops /\ (k \in DOMAIN U => U[k] = 0) /\ (Comparable(u, prior) \/ k[1] = "funnel")
  BY Zenon DEF Emptied
<1>6. \A k : k \in Shifted(u, prior) =>
               /\ k \in DOMAIN U /\ k \in DOMAIN prior.pops /\ Comparable(u, prior)
               /\ 10000 * Apart(U[k], prior.pops[k]) > 5000 * prior.pops[k]
  BY DEF Shifted, _SP08_SHIFT_FAIL
<1>7. /\ u.catalogue = v.catalogue => U = V
      /\ \A k \in DOMAIN V : k[1] = "funnel" => k \in DOMAIN U /\ U[k] = V[k]
  BY SegmentsStay, Zenon
<1> HIDE DEF U, V
<1>8. CASE u.catalogue = v.catalogue
  <2>1. U = V BY <1>7, <1>8
  <2>2. ASSUME NEW k, k \in Emptied(u, prior) PROVE FALSE
    <3>1. k \in DOMAIN U /\ U[k] = 0 /\ U[k] > 0 BY <1>2, <1>5, <2>1, <2>2
    <3> QED BY <3>1
  <2>3. ASSUME NEW k, k \in Shifted(u, prior) PROVE FALSE
    <3> DEFINE x == U[k]
    <3>1. x \in Nat /\ x > 0 /\ 10000 * Apart(x, x) > 5000 * x
      BY <1>2, <1>3, <1>6, <2>1, <2>3
    <3> HIDE DEF x
    <3>2. Apart(x, x) = 0 BY <3>1 DEF Apart
    <3> QED BY <3>1, <3>2
  <2> QED BY <2>2, <2>3
<1>9. CASE u.catalogue # v.catalogue
  <2>1. (u.catalogue # <<>>) # (v.catalogue # <<>>) BY <1>9
  <2>2. Comparable(u, prior) => prior.pops = <<>> BY <1>1, <1>4, <2>1
  <2>3. Comparable(u, prior) => DOMAIN prior.pops = {} BY <2>2
  <2>4. ASSUME NEW k, k \in Emptied(u, prior) PROVE FALSE
    <3>1. k \in DOMAIN prior.pops /\ k[1] = "funnel" BY <1>5, <2>3, <2>4
    <3>2. k \in DOMAIN U /\ U[k] = V[k] /\ V[k] > 0 BY <1>2, <1>7, <3>1
    <3>3. U[k] = 0 BY <1>5, <2>4, <3>2
    <3> QED BY <3>2, <3>3
  <2>5. ASSUME NEW k, k \in Shifted(u, prior) PROVE FALSE
    BY <1>6, <2>3, <2>5
  <2> QED BY <2>4, <2>5
<1> QED BY <1>8, <1>9

(* Where the ERP told nothing new, nothing stalled since.                             *)
LEMMA NothingStalled ==
  ASSUME NEW u, IsRows(u), NEW p, NEW prior, prior = build_drift_snapshot(u, p)
  PROVE  Stalled(_erp_heartbeat_surfaces(u), prior) = {}
<1> DEFINE ages == _erp_heartbeat_surfaces(u)
<1>1. prior.ages = ages BY BlockSays, Zenon DEF BlockTells
<1>2. AreWhole(ages) BY AgesAreWhole
<1> HIDE DEF ages
<1>3. \A n \in DOMAIN ages : ~(ages[n] > ages[n] + 24) BY <1>2 DEF AreWhole
<1> QED BY <1>1, <1>3 DEF ages, Stalled

(* Where nothing changed the volume is judged by itself.                              *)
LEMMA VolumeByItself ==
  ASSUME NEW u, IsRows(u), NEW p, NEW prior, prior = build_drift_snapshot(u, p),
         NEW b, b = build_drift_snapshot(u, prior)
  PROVE  evaluate_le_13(u, b) = evaluate_le_13(u, [b EXCEPT !.crossMoved = {}])
<1> DEFINE own == IF Before(Told(u)) # {} THEN SelfDelta(u) ELSE CrossDelta(u)
           c == [b EXCEPT !.crossMoved = {}]
           Verdict(primary) ==
             FirstRule(<<
               <<{"shopify", "manago_ai"} \cap u.on = {}, "NOT_CONNECTED">>,
               <<~({"shopify", "manago_ai"} \subseteq u.on), "UNKNOWN">>,
               <<Recent(Told(u)) \cup Recent(Sold(u)) \cup Before(Told(u)) = {}, "UNKNOWN">>,
               <<TRUE, Bands(primary, 3000, 300)>> >>)
<1>1. b.cross = CrossDelta(u) /\ prior.cross = CrossDelta(u) /\ "crossMoved" \in DOMAIN b
      /\ b.crossMoved = IF prior.cross = Undated THEN {} ELSE {Apart(CrossDelta(u), prior.cross)}
  <2>1. BlockTells(u, prior, b) /\ BlockTells(u, p, prior) BY BlockSays, Zenon
  <2> QED BY <2>1, Zenon DEF BlockTells
<1>2. SelfDelta(u) \in Nat /\ CrossDelta(u) \in Nat BY DeltasAreNat
<1>3. b.crossMoved = {0}
  <2> DEFINE x == CrossDelta(u)
  <2> HIDE DEF x
  <2>1. x \in Nat BY <1>2 DEF x
  <2>2. x # Undated /\ Apart(x, x) = 0 BY <2>1 DEF Undated, Apart
  <2> QED BY <1>1, <2>2 DEF x
<1>4. c.cross = CrossDelta(u) /\ c.crossMoved = {} BY <1>1
<1>5. own \in Nat BY <1>2
<1>6. Max({own} \cup {0}) = own /\ Max({own} \cup {}) = own
  <2> HIDE DEF own
  <2>1. IsFiniteSet({own}) /\ IsFiniteSet({0}) BY FS_Singleton
  <2>2. IsFiniteSet({own} \cup {0}) BY <2>1, FS_Union
  <2> DEFINE S == {own} \cup {0}
             T == {own}
  <2>3. S \in SUBSET Int /\ S # {} /\ T \in SUBSET Int /\ T # {} BY <1>5
  <2>4. Max(S) \in S /\ \A y \in S : y <= Max(S)
    <3>1. IsFiniteSet(S) BY <2>2
    <3> HIDE DEF S
    <3> QED BY <2>3, <3>1, MaxOfFinite
  <2>5. Max(T) \in T
    <3>1. IsFiniteSet(T) BY <2>1
    <3> HIDE DEF T
    <3> QED BY <2>3, <3>1, MaxOfFinite
  <2>6. {own} \cup {} = T OBVIOUS
  <2>7. Max(S) = own BY <1>5, <2>4
  <2> QED BY <2>5, <2>6, <2>7
<1> DEFINE mine(d) == IF Before(Told(u)) # {} THEN SelfDelta(u) ELSE d.cross
<1>7. \A d : evaluate_le_13(u, d) = Verdict(Max({mine(d)} \cup d.crossMoved))
  BY Zenon DEF evaluate_le_13
<1>8. mine(b) = own /\ mine(c) = own BY <1>1, <1>4
<1> HIDE DEF Verdict, own, c, mine
<1>9. evaluate_le_13(u, b) = Verdict(Max({own} \cup {0})) BY <1>3, <1>7, <1>8
<1>10. evaluate_le_13(u, c) = Verdict(Max({own} \cup {})) BY <1>4, <1>7, <1>8
<1>11. evaluate_le_13(u, b) = evaluate_le_13(u, c) BY <1>6, <1>9, <1>10
<1> QED BY <1>11 DEF c

(* What a run measured: the block says of the rows what it says, compared with the     *)
(* block of the rows before, whatever that was compared with; one import, one block.   *)
IsMeasured(d) ==
  /\ IsRows(d.rows)
  /\ d.verdicts = DriftVerdicts(d.rows, d.block)
  /\ \E prior : /\ d.block = build_drift_snapshot(d.rows, prior)
                /\ \A before \in d.against :
                     IsRows(before) /\ \E p : prior = build_drift_snapshot(before, p)
DriftIsMeasured ==
  \A i \in DOMAIN runs : \A d \in runs[i].drift : IsMeasured(d) /\ runs[i].drift = {d}

(* The rows that a score compares with are those of one earlier block, or none.       *)
LEMMA PriorIsOfARun ==
  ASSUME RunsAreScored, _prior_drift_for_company # {}
  PROVE  \E i \in DOMAIN runs : _prior_drift_for_company = runs[i].drift
<1> DEFINE succeeded == {i \in DOMAIN runs : runs[i].status = "SUCCEEDED"}
           last == FirstFew(5, succeeded, LAMBDA a, b : a > b)
           with == {i \in last : runs[i].drift # {}}
<1>1. _prior_drift_for_company = IF with = {} THEN {} ELSE runs[Max(with)].drift
  BY Zenon DEF _prior_drift_for_company
<1>2. with \in SUBSET DOMAIN runs BY DEF FirstFew
<1>3. DOMAIN runs = 1..Len(runs) /\ Len(runs) \in Nat BY SeqLen, Zenon DEF RunsAreScored
<1>4. IsFiniteSet(DOMAIN runs) BY <1>3, FS_Interval
<1> HIDE DEF with
<1>5. with # {} BY <1>1
<1>6. IsFiniteSet(with) /\ with \in SUBSET Int
  <2>1. IsFiniteSet(with) BY <1>2, <1>4, FS_Subset
  <2>2. DOMAIN runs \subseteq Int BY <1>3
  <2> QED BY <1>2, <2>1, <2>2
<1>7. Max(with) \in with BY <1>5, <1>6, MaxOfFinite
<1> QED BY <1>1, <1>2, <1>5, <1>7

(* What is measured of a finding is measured, of its one import.                      *)
LEMMA MeasuredIsMeasured ==
  ASSUME site \in Deployments, RunsAreScored, DriftIsMeasured, NEW found \in site.finds,
         NEW d \in Measured(found)
  PROVE  IsMeasured(d) /\ Measured(found) = {d}
<1> DEFINE on == {p \in {"manago_ai", "shopify"} :
                    (IF p = "shopify" THEN found.world.shopify ELSE found.world.manago).status
                       \in {"connected", "degraded"}}
           rows(u) == [u EXCEPT !.on = on, !.erp = site.erp]
           before == _prior_drift_for_company
           prior == IF before = {} THEN NoPrior ELSE (CHOOSE e \in before : TRUE).block
           block(u) == IF before = {} THEN build_drift_snapshot(rows(u), NoPrior)
                       ELSE build_drift_snapshot(rows(u), (CHOOSE e \in before : TRUE).block)
           against == {e.rows : e \in before}
           one(u) == [rows |-> rows(u), block |-> block(u), verdicts |-> DriftVerdicts(rows(u), block(u)),
                      against |-> against]
<1>1. Measured(found) = {one(u) : u \in found.rows}
  BY Zenon DEF Measured
<1>2. PICK u \in found.rows : d = one(u)
  <2> HIDE DEF one
  <2> QED BY <1>1
<1>3. IsRows(u) /\ found.rows = {u} BY <1>2, DeploymentsAssumption, Zenon
<1>4. Measured(found) = {d}
  <2> HIDE DEF one
  <2> QED BY <1>1, <1>2, <1>3
<1>5. IsRows(rows(u))
  <2> DEFINE v == rows(u)
  <2>1. /\ {"contacts", "told", "blob", "orders", "checkouts", "catalogue", "heartbeat"} \subseteq DOMAIN v
        /\ v.contacts = u.contacts /\ v.told = u.told /\ v.blob = u.blob /\ v.orders = u.orders
        /\ v.checkouts = u.checkouts /\ v.catalogue = u.catalogue /\ v.heartbeat = u.heartbeat
    <3>1. {"contacts", "told", "blob", "orders", "checkouts", "catalogue", "heartbeat"} \subseteq DOMAIN u
      BY <1>3, Zenon DEF IsRows
    <3> HIDE DEF on
    <3> QED BY <3>1
  <2> HIDE DEF v
  <2>2. IsRows(v) BY <1>3, <2>1, Zenon DEF IsRows
  <2> QED BY <2>2 DEF v
<1>6. block(u) = build_drift_snapshot(rows(u), prior)
  <2> HIDE DEF rows, before
  <2> QED OBVIOUS
<1>7. \A b \in against : IsRows(b) /\ \E p : prior = build_drift_snapshot(b, p)
  <2> SUFFICES ASSUME NEW b \in against PROVE IsRows(b) /\ \E p : prior = build_drift_snapshot(b, p)
    OBVIOUS
  <2>1. PICK e \in before : b = e.rows
    <3> HIDE DEF before
    <3> QED OBVIOUS
  <2>2. PICK i \in DOMAIN runs : before = runs[i].drift BY <2>1, PriorIsOfARun
  <2>3. IsMeasured(e) /\ before = {e} BY <2>1, <2>2, Zenon DEF DriftIsMeasured
  <2> HIDE DEF before
  <2>4. prior = e.block BY <2>3
  <2> HIDE DEF prior
  <2> QED BY <2>1, <2>3, <2>4, Zenon DEF IsMeasured
<1>8. d.rows = rows(u) /\ d.block = block(u) /\ d.verdicts = DriftVerdicts(rows(u), block(u)) /\ d.against = against
  <2> DEFINE a == rows(u)
             b == block(u)
             c == DriftVerdicts(rows(u), block(u))
             e == against
  <2>1. d = [rows |-> a, block |-> b, verdicts |-> c, against |-> e] BY <1>2, Zenon
  <2> HIDE DEF a, b, c, e
  <2>2. d.rows = a /\ d.block = b /\ d.verdicts = c /\ d.against = e BY <2>1
  <2> QED BY <2>2 DEF a, b, c, e
<1> HIDE DEF rows, block, prior, against
<1>9. IsMeasured(d) BY <1>5, <1>6, <1>7, <1>8, Zenon DEF IsMeasured
<1> QED BY <1>4, <1>9

(* A run keeps what it measured but for a step that scores it again.                  *)
LEMMA DriftStep ==
  ASSUME IInv, DriftIsMeasured, Next
  PROVE  DriftIsMeasured'
<1>0. site \in Deployments /\ RunsAreScored BY Zenon DEF IInv
<1>a. /\ DOMAIN runs = 1..Len(runs) /\ Len(runs) \in Nat /\ IsSeq(runs)
      /\ \A i \in DOMAIN runs : RunFields \subseteq DOMAIN runs[i]
  BY <1>0, SeqLen, Zenon DEF RunsAreScored, IsRun
<1>b. ASSUME UNCHANGED runs PROVE DriftIsMeasured' BY <1>b, Zenon DEF DriftIsMeasured
<1>c. ASSUME NEW i \in DOMAIN runs, NEW r, runs' = [runs EXCEPT ![i] = r],
             \A d \in r.drift : IsMeasured(d) /\ r.drift = {d}
      PROVE  DriftIsMeasured'
  <2>1. DOMAIN runs' = DOMAIN runs /\ \A j \in DOMAIN runs : runs'[j] = IF j = i THEN r ELSE runs[j]
    BY <1>a, <1>c, SeqExcept, Zenon
  <2> QED BY <1>c, <2>1, Zenon DEF DriftIsMeasured
<1>d. ASSUME NEW i \in DOMAIN runs, NEW r, runs' = [runs EXCEPT ![i] = r], r.drift = runs[i].drift
      PROVE  DriftIsMeasured'
  <2>1. \A d \in r.drift : IsMeasured(d) /\ r.drift = {d} BY <1>d, Zenon DEF DriftIsMeasured
  <2> QED BY <1>c, <1>d, <2>1, Zenon
<1>1. CASE Begin
  <2>1. runs' = Append(runs, NoRun) BY <1>1, Zenon DEF Begin
  <2>2. /\ DOMAIN runs' = 1..(Len(runs) + 1) /\ runs'[Len(runs) + 1] = NoRun
        /\ \A i \in 1..Len(runs) : runs'[i] = runs[i]
    BY <1>a, <2>1, SeqAppend
  <2>3. NoRun.drift = {} BY SMT DEF NoRun
  <2>4. \A i \in DOMAIN runs' : runs'[i] = NoRun \/ (i \in DOMAIN runs /\ runs'[i] = runs[i])
    BY <1>a, <2>2
  <2> QED BY <2>3, <2>4 DEF DriftIsMeasured
<1>2. ASSUME NEW c, SaveConfig(c) PROVE DriftIsMeasured'
  <2>1. runs' = IF c.run = 0 THEN runs
                ELSE [runs EXCEPT ![c.run].status = "RUNNING", ![c.run].tail = "none"]
    BY <1>2, Zenon DEF SaveConfig
  <2>2. CASE c.run = 0 \/ c.run \notin DOMAIN runs
    <3>1. CASE c.run = 0
      <4>1. UNCHANGED runs BY <2>1, <3>1
      <4> QED BY <1>b, <4>1
    <3>2. CASE c.run # 0 /\ c.run \notin DOMAIN runs
      <4>1. runs' = [runs EXCEPT ![c.run].status = "RUNNING", ![c.run].tail = "none"] BY <2>1, <3>2
      <4>2. UNCHANGED runs
        <5>1. IsSeq(runs) BY <1>a
        <5>2. c.run \notin DOMAIN runs BY <3>2
        <5>3. [runs EXCEPT ![c.run].status = "RUNNING", ![c.run].tail = "none"] = runs
          BY <5>1, <5>2, ExceptElsewhere, Zenon
        <5> QED BY <4>1, <5>3, Zenon
      <4> QED BY <1>b, <4>2
    <3> QED BY <2>2, <3>1, <3>2
  <2>3. CASE c.run # 0 /\ c.run \in DOMAIN runs
    <3> DEFINE i == c.run
               r == [runs[i] EXCEPT !.status = "RUNNING", !.tail = "none"]
    <3>0. i \in DOMAIN runs /\ runs' = [runs EXCEPT ![i].status = "RUNNING", ![i].tail = "none"]
      BY <2>1, <2>3
    <3> HIDE DEF i
    <3>1. runs' = [runs EXCEPT ![i] = r] BY <1>a, <3>0
    <3>2. r.drift = runs[i].drift BY <1>a, <3>0 DEF RunFields
    <3> HIDE DEF r
    <3> QED BY <1>d, <3>0, <3>1, <3>2, Zenon
  <2> QED BY <2>2, <2>3
<1>3. ASSUME NEW i \in DOMAIN runs, FailRun(i) PROVE DriftIsMeasured'
  <2> DEFINE at == LastFinish + 1
             r == [runs[i] EXCEPT !.status = "FAILED", !.at = at]
  <2>1. runs' = [runs EXCEPT ![i].status = "FAILED", ![i].at = at] BY <1>3, Zenon DEF FailRun
  <2> HIDE DEF at
  <2>2. runs' = [runs EXCEPT ![i] = r] BY <1>a, <2>1
  <2>3. r.drift = runs[i].drift BY <1>a DEF RunFields
  <2> HIDE DEF r
  <2> QED BY <1>d, <2>2, <2>3, Zenon
<1>4. ASSUME NEW i \in DOMAIN runs, FailAfterwards(i) PROVE DriftIsMeasured'
  <2> DEFINE at == LastFinish + 1
             r == [runs[i] EXCEPT !.status = "FAILED", !.tail = "none", !.at = at]
  <2>1. runs' = [runs EXCEPT ![i].status = "FAILED", ![i].tail = "none", ![i].at = at]
    BY <1>4, Zenon DEF FailAfterwards
  <2> HIDE DEF at
  <2>2. runs' = [runs EXCEPT ![i] = r] BY <1>a, <2>1
  <2>3. r.drift = runs[i].drift BY <1>a DEF RunFields
  <2> HIDE DEF r
  <2> QED BY <1>d, <2>2, <2>3, Zenon
<1>5. ASSUME NEW i \in DOMAIN runs, persist_consecutive_run_diff(i) PROVE DriftIsMeasured'
  <2> DEFINE x == runs[i]
             new == IF x.diff # {} \/ ~HasHeadline(x) THEN x.diff
                    ELSE {[of |-> x.scored, diff |-> DiffOf(i)]}
             r == [x EXCEPT !.tail = "told", !.diff = new]
  <2>1. runs' = [runs EXCEPT ![i].tail = "told", ![i].diff = new]
    BY <1>5, Zenon DEF persist_consecutive_run_diff
  <2> HIDE DEF new
  <2>2. runs' = [runs EXCEPT ![i] = r] BY <1>a, <2>1
  <2>3. r.drift = runs[i].drift BY <1>a DEF RunFields
  <2> HIDE DEF r
  <2> QED BY <1>d, <2>2, <2>3, Zenon
<1>6. ASSUME NEW i \in DOMAIN runs, NEW found \in site.finds, Score(i, found) PROVE DriftIsMeasured'
  <2> DEFINE measured == Measured(found)
             gates == GateResults(GatesOf(found.world, config, site.erp, site.live))
             results == Overlay(DriftResults(measured), Overlay(found.results, gates))
             n == _normalize_results(results, site.erp)
             s == assemble_dcs_score(results, site.erp)
             m == rollup_revenue_impact(results).estimate
             at == LastFinish + 1
             x == runs[i]
             r == [x EXCEPT !.status = "SUCCEEDED", !.tail = "scored", !.at = at,
                            !.scored = @ + 1, !.facts = found.facts, !.drift = measured,
                            !.score = s, !.results = n, !.impact = m]
  <2>1. runs' = [runs EXCEPT ![i] = r] BY <1>6, Zenon DEF Score
  <2>2. r.drift = measured
    <3>1. RunFields \subseteq DOMAIN x BY <1>a
    <3> HIDE DEF x, s, n, m, at, measured
    <3> QED BY <3>1 DEF RunFields
  <2>3. \A d \in measured : IsMeasured(d) /\ measured = {d}
    BY <1>0, MeasuredIsMeasured, Zenon
  <2> HIDE DEF r, measured
  <2> QED BY <1>c, <2>1, <2>2, <2>3, Zenon
<1>7. CASE IsRead BY <1>7, <1>b, Zenon DEF IsRead
<1>8. ASSUME NEW m, Assess(m) PROVE DriftIsMeasured' BY <1>8, <1>b, Zenon DEF Assess
<1>9. CASE Scoring
  BY <1>9, <1>1, <1>3, <1>4, <1>5, <1>6, <1>7, <1>8, ConfiguringStep, Zenon
<1>12. CASE Configuring BY <1>12, <1>2, <1>7, ConfiguringStep, Zenon
<1>10. CASE Evaluating
  BY <1>10, <1>b, Zenon DEF Evaluating, StartEvaluation, ReadBundle, save_pilot_gate_eval
<1>11. CASE Handing
  <2>1. UNCHANGED runs
    BY <1>11, Zenon DEF Handing, StartBuild, generate_build_package, run_qa_for_package, StageLookup,
       StageInsert, approve_handoff_for_activation, reject_handoff, confirm_handoff_activated, Move
  <2> QED BY <2>1, <1>b
<1> QED BY <1>9, <1>10, <1>11, <1>12, Zenon DEF Next

(* What is measured reports no drift between two equal estates.                       *)
LEMMA RerunIsSafe == ASSUME DriftIsMeasured PROVE SafeToRerun
<1> SUFFICES ASSUME NEW i \in DOMAIN runs, NEW d \in runs[i].drift, NEW before \in d.against
             PROVE  LET same == d.rows = before
                        recounted == /\ <<>> \in {d.rows.catalogue, before.catalogue}
                                     /\ [d.rows EXCEPT !.catalogue = <<>>] = [before EXCEPT !.catalogue = <<>>]
                    IN /\ same \/ recounted => d.block.emptied = {} /\ d.block.shifted = {}
                       /\ same => /\ d.block.stalled = {}
                                  /\ d.verdicts["LE-13"] = evaluate_le_13(d.rows, [d.block EXCEPT !.crossMoved = {}])
  BY Zenon DEF SafeToRerun
<1> DEFINE u == d.rows
           b == d.block
           recounted == /\ <<>> \in {u.catalogue, before.catalogue}
                        /\ [u EXCEPT !.catalogue = <<>>] = [before EXCEPT !.catalogue = <<>>]
<1>1. IsMeasured(d) BY Zenon DEF DriftIsMeasured
<1>2. PICK prior : /\ b = build_drift_snapshot(u, prior)
                   /\ \A e \in d.against : IsRows(e) /\ \E p : prior = build_drift_snapshot(e, p)
  BY <1>1, Zenon DEF IsMeasured
<1>3. PICK p : prior = build_drift_snapshot(before, p) BY <1>2, Zenon
<1>4. IsRows(u) /\ IsRows(before) BY <1>1, <1>2, Zenon DEF IsMeasured
<1>5. b.emptied = Emptied(u, prior) /\ b.shifted = Shifted(u, prior)
      /\ b.stalled = Stalled(_erp_heartbeat_surfaces(u), prior)
  <2>1. BlockTells(u, prior, b) BY <1>2, BlockSays, Zenon
  <2> HIDE DEF u, b
  <2> QED BY <2>1, Zenon DEF BlockTells
<1>6. ASSUME u = before \/ recounted PROVE b.emptied = {} /\ b.shifted = {}
  <2>1. u.contacts = before.contacts
        /\ (u.catalogue = before.catalogue \/ <<>> \in {u.catalogue, before.catalogue})
    <3>1. CASE u = before BY <3>1
    <3>2. CASE recounted
      <4>1. "contacts" \in DOMAIN u /\ "contacts" \in DOMAIN before BY <1>4 DEF IsRows
      <4> HIDE DEF u
      <4>2. [u EXCEPT !.catalogue = <<>>].contacts = u.contacts
            /\ [before EXCEPT !.catalogue = <<>>].contacts = before.contacts
        BY <4>1
      <4> QED BY <3>2, <4>2
    <3> QED BY <1>6, <3>1, <3>2
  <2> HIDE DEF u, b, recounted
  <2>2. Emptied(u, prior) = {} /\ Shifted(u, prior) = {} BY <1>3, <1>4, <2>1, NothingMoved
  <2> QED BY <1>5, <2>2
<1>7. ASSUME u = before PROVE b.stalled = {} /\ d.verdicts["LE-13"] = evaluate_le_13(u, [b EXCEPT !.crossMoved = {}])
  <2>1. prior = build_drift_snapshot(u, p) BY <1>3, <1>7
  <2>2. d.verdicts = DriftVerdicts(u, b) BY <1>1, Zenon DEF IsMeasured
  <2> HIDE DEF u, b
  <2>3. b.stalled = {} BY <1>4, <1>5, <2>1, NothingStalled
  <2>4. evaluate_le_13(u, b) = evaluate_le_13(u, [b EXCEPT !.crossMoved = {}])
    BY <1>2, <1>4, <2>1, VolumeByItself
  <2>5. DriftVerdicts(u, b)["LE-13"] = evaluate_le_13(u, b) BY SMT DEF DriftVerdicts, DriftCheckIds
  <2> QED BY <2>2, <2>3, <2>4, <2>5
<1> QED BY <1>6, <1>7, Zenon

(* Scoring again is safe: on an estate that did not change since the run it is compared *)
(* with, or whose tag catalogue alone came or went, no segment is said to have emptied   *)
(* or shifted, no domain to have stalled, and the volume is judged by itself, whichever   *)
(* run the block before was of (build_drift_snapshot, PRD_DCS_05_DRIFT_CHECKS.md:32).      *)
THEOREM SafeToRerunHolds == Spec => []SafeToRerun
<1>1. Init => DriftIsMeasured BY DEF Init, DriftIsMeasured
<1>2. IInv /\ DriftIsMeasured /\ [Next]_vars => DriftIsMeasured'
  <2> SUFFICES ASSUME IInv, DriftIsMeasured, [Next]_vars PROVE DriftIsMeasured' OBVIOUS
  <2>1. CASE Next BY <2>1, DriftStep, Zenon
  <2>2. CASE UNCHANGED vars BY <2>2, Zenon DEF vars, DriftIsMeasured
  <2> QED BY <2>1, <2>2
<1>3. DriftIsMeasured => SafeToRerun BY RerunIsSafe
<1> QED BY <1>1, <1>2, <1>3, Invariance, PTL DEF Spec

(* Every user that is listed is an owner, whatever else is listed before or again:     *)
(* the first place the user is listed at has a number.                                *)
LEMMA UsersAreOwners ==
  ASSUME NEW w, IsWorld(w), NEW o \in ToSet(w.users)
  PROVE  o # Nobody /\ o \in ToSet(OwnersOf(w))
<1> DEFINE s == w.users
           first == {i \in DOMAIN s : \A j \in 1..(i - 1) : s[j] # s[i]}
           upTo(i) == {j \in first : j <= i}
           n(i) == Cardinality(upTo(i))
           m == Cardinality(first)
           Os == [k \in 1..m |-> s[CHOOSE i \in first : n(i) = k]]
<1>1. s \in Seq(ToSet(s) \ {Nobody}) BY DEF IsWorld
<1>2. DOMAIN s = 1..Len(s) /\ Len(s) \in Nat /\ \A i \in DOMAIN s : s[i] # Nobody
  <2> HIDE DEF s
  <2> QED BY <1>1
<1>3. PICK i \in DOMAIN s : s[i] = o /\ \A j \in DOMAIN s : s[j] = o => i <= j
  <2> DEFINE P == {j \in DOMAIN s : s[j] = o}
  <2>1. P # {} BY DEF ToSet
  <2>2. P \in SUBSET Nat BY <1>2
  <2> HIDE DEF P
  <2>3. PICK i \in P : \A j \in P : i <= j BY <2>1, <2>2, Least
  <2> QED BY <2>3 DEF P
<1>4. i \in first
  <2> HIDE DEF s
  <2> QED BY <1>2, <1>3
<1>5. first \in SUBSET (1..Len(s)) BY <1>2
<1>6. IsFiniteSet(first)
  <2>1. IsFiniteSet(1..Len(s)) BY <1>2, FS_Interval
  <2> HIDE DEF first, s
  <2> QED BY <1>5, <2>1, FS_Subset
<1>7. \A j : upTo(j) \in SUBSET first OBVIOUS
<1>8. i \in upTo(i)
  <2> HIDE DEF first
  <2> QED BY <1>2, <1>3, <1>4
<1>9. \A j \in first : upTo(j) \subseteq upTo(i) \/ upTo(i) \subseteq upTo(j)
  <2> HIDE DEF first, s
  <2> QED BY <1>4, <1>5
<1>10. \A j \in first : j \in upTo(j)
  <2> HIDE DEF first, s
  <2> QED BY <1>5
<1>11. \A j \in first : i \in upTo(j) /\ j \in upTo(i) => j = i
  <2> HIDE DEF first, s
  <2> QED BY <1>4, <1>5
<1> HIDE DEF upTo
<1>12. \A j : IsFiniteSet(upTo(j)) /\ n(j) \in Nat /\ n(j) <= m
  <2> HIDE DEF first
  <2>1. \A j : IsFiniteSet(upTo(j)) /\ n(j) <= m BY <1>6, <1>7, FS_Subset
  <2> QED BY <2>1, FS_CardinalityType
<1>13. n(i) # 0 /\ m \in Nat
  <2> HIDE DEF first
  <2> QED BY <1>6, <1>8, <1>12, FS_EmptySet, FS_CardinalityType
<1>14. \A j \in first : n(j) = n(i) => j = i
  <2> HIDE DEF first
  <2> SUFFICES ASSUME NEW j \in first, n(j) = n(i) PROVE j = i OBVIOUS
  <2>1. upTo(j) = upTo(i)
    <3>1. CASE upTo(j) \subseteq upTo(i) BY <1>12, <3>1, FS_Subset
    <3>2. CASE upTo(i) \subseteq upTo(j) BY <1>12, <3>2, FS_Subset
    <3> QED BY <1>9, <3>1, <3>2
  <2> QED BY <1>8, <1>10, <1>11, <2>1
<1> HIDE DEF n, m
<1>15. n(i) \in 1..m BY <1>12, <1>13
<1>16. (CHOOSE j \in first : n(j) = n(i)) = i
  <2> HIDE DEF first
  <2> QED BY <1>4, <1>14, Zenon
<1>17. DOMAIN Os = 1..m /\ Os[n(i)] = s[i]
  <2> HIDE DEF first, s
  <2> QED BY <1>15, <1>16
<1>18. OwnersOf(w) = Os BY Zenon DEF OwnersOf, n, m, upTo
<1> HIDE DEF Os
<1>19. o \in ToSet(Os)
  <2> HIDE DEF s
  <2> QED BY <1>3, <1>15, <1>17 DEF ToSet
<1> QED BY <1>2, <1>3, <1>18, <1>19

(* An owner that is still one of the users is not settled again.                     *)
LEMMA ListedOwnerIsKept ==
  ASSUME NEW w, IsWorld(w), NEW copy, NEW infer,
         ensure_manago_primary_owner(w, copy, infer) # Nobody
  PROVE  preferred_owner_from_config(copy) \notin ToSet(w.users)
<1>1. preferred_owner_from_config(copy) \notin ToSet(OwnersOf(w))
  BY Zenon DEF ensure_manago_primary_owner
<1> QED BY <1>1, UsersAreOwners, Zenon

(* A configuration has its fields, and so has every copy of it; what a request was     *)
(* answered is what some run may find.                                               *)
CallsWereRead ==
  /\ ConfigFields \subseteq DOMAIN config
  /\ \A c \in calls : c.world \in Worlds /\ ConfigFields \subseteq DOMAIN c.copy

(* What is saved has the fields of the copy; with the key, no more than the key is not *)
(* the copy's, and with an owner, the key is.                                        *)
LEMMA SavedKeeps ==
  ASSUME NEW c, ConfigFields \subseteq DOMAIN c.copy, Saved(c) # config
  PROVE  /\ ConfigFields \subseteq DOMAIN Saved(c)
         /\ Saved(c).key # c.copy.key => c.by = "key"
         /\ <<Saved(c).owner, Saved(c).accounts, Saved(c).class>>
              # <<c.copy.owner, c.copy.accounts, c.copy.class>> =>
              \/ c.by = "owner"
              \/ ensure_manago_primary_owner(c.world, c.copy, c.by # "view") # Nobody
<1> DEFINE owners == OwnersOf(c.world)
           settled == ensure_manago_primary_owner(c.world, c.copy, c.by # "view")
           primary == IF c.by = "owner" THEN c.primary ELSE settled
           copy == c.copy
           chosen == apply_primary_owner(copy, primary, owners)
<1>0. Saved(c) = IF c.by = "key" THEN [copy EXCEPT !.key = c.key]
                 ELSE IF primary = Nobody THEN config ELSE chosen
  BY Zenon DEF Saved
<1>1. CASE c.by = "key"
  <2>1. Saved(c) = [copy EXCEPT !.key = c.key] BY <1>0, <1>1
  <2> HIDE DEF copy
  <2>2. ConfigFields \subseteq DOMAIN copy BY DEF copy
  <2>3. /\ DOMAIN Saved(c) = DOMAIN copy
        /\ Saved(c).owner = copy.owner /\ Saved(c).accounts = copy.accounts /\ Saved(c).class = copy.class
    BY <2>1, <2>2 DEF ConfigFields
  <2> QED BY <1>1, <2>2, <2>3 DEF copy
<1>2. CASE c.by # "key"
  <2>1. primary # Nobody /\ Saved(c) = chosen BY <1>0, <1>2
  <2>2. c.by = "owner" \/ settled # Nobody BY <2>1
  <2> DEFINE all == IF primary \in ToSet(owners) THEN owners ELSE <<primary>> \o owners
             rows == RowsFor(all, primary)
  <2>3. chosen = [copy EXCEPT !.owner = primary, !.accounts = rows, !.class = "unknown"]
    BY Zenon DEF apply_primary_owner
  <2> HIDE DEF copy, rows, all, chosen, primary, settled
  <2>4. ConfigFields \subseteq DOMAIN copy BY DEF copy
  <2>5. DOMAIN chosen = DOMAIN copy /\ chosen.key = copy.key BY <2>3, <2>4 DEF ConfigFields
  <2> QED BY <2>1, <2>2, <2>4, <2>5 DEF copy, settled
<1> QED BY <1>1, <1>2

(* A step reads the configuration, saves a copy that was read, or leaves both alone.   *)
LEMMA ConfigStep ==
  ASSUME Next
  PROVE  \/ IsRead
         \/ \E c \in calls : SaveConfig(c)
         \/ UNCHANGED <<site, config, calls>>
<1> DEFINE Same == UNCHANGED <<site, config, calls>>
<1>1. CASE Configuring BY <1>1, ConfiguringStep, Zenon
<1>2. CASE Scoring
  <2>1. Begin \/ (\E m : Assess(m)) => Same BY Zenon DEF Begin, Assess
  <2>2. \A i : FailRun(i) \/ persist_consecutive_run_diff(i) \/ FailAfterwards(i) => Same
    BY Zenon DEF FailRun, persist_consecutive_run_diff, FailAfterwards
  <2>3. \A i, found : Score(i, found) => Same BY Zenon DEF Score
  <2> HIDE DEF Same
  <2>4. IsRead \/ Same BY <1>2, <2>1, <2>2, <2>3, ConfiguringStep, Zenon
  <2> QED BY <2>4, Zenon DEF Same
<1>3. CASE Evaluating
  BY <1>3, Zenon DEF Evaluating, StartEvaluation, ReadBundle, save_pilot_gate_eval
<1>4. CASE Handing
  BY <1>4, Zenon DEF Handing, StartBuild, generate_build_package, run_qa_for_package, StageLookup,
     StageInsert, approve_handoff_for_activation, reject_handoff, confirm_handoff_activated, Move
<1> QED BY <1>1, <1>2, <1>3, <1>4, Zenon DEF Next

(* What was read is kept while others save.                                          *)
LEMMA CallsStep ==
  ASSUME CallsWereRead, Next
  PROVE  CallsWereRead'
<1>0. UNCHANGED site => UNCHANGED Worlds BY Zenon DEF Worlds
<1>1. CASE IsRead BY <1>0, <1>1, Zenon DEF CallsWereRead, IsRead
<1>2. ASSUME NEW c \in calls, SaveConfig(c) PROVE CallsWereRead'
  <2>1. ConfigFields \subseteq DOMAIN c.copy BY Zenon DEF CallsWereRead
  <2>2. ConfigFields \subseteq DOMAIN Saved(c) BY <2>1, SavedKeeps, Zenon DEF CallsWereRead
  <2>3. config' = Saved(c) /\ calls' \subseteq calls /\ UNCHANGED site BY <1>2, Zenon DEF SaveConfig
  <2> QED BY <1>0, <2>2, <2>3, Zenon DEF CallsWereRead
<1>3. CASE UNCHANGED <<site, config, calls>> BY <1>0, <1>3, Zenon DEF CallsWereRead
<1> QED BY <1>1, <1>2, <1>3, ConfigStep, Zenon

(* No request that saves what is still stored takes what an operator chose: the key is *)
(* changed by the request about the key, and the primary owner, its accounts and their *)
(* class by an operator's choice or where Manago no longer lists the old one. A choice *)
(* is lost only to a request that had read the configuration before it                *)
(* (ensure_manago_primary_owner, ManagoOwnersView, ManagoApiV3KeyView).               *)
THEOREM ChoicesGoOnlyStaleHolds == Spec => ChoicesGoOnlyStale
<1> DEFINE KeptBy(c) == c.copy = config =>
              /\ config'.key # config.key => c.by = "key"
              /\ <<config'.owner, config'.accounts, config'.class>>
                   # <<config.owner, config.accounts, config.class>> =>
                   \/ c.by = "owner"
                   \/ preferred_owner_from_config(config) \notin ToSet(c.world.users)
<1>1. IInv /\ Init => CallsWereRead
  <2> SUFFICES ASSUME IInv, Init PROVE CallsWereRead OBVIOUS
  <2>1. ConfigFields \subseteq DOMAIN site.start BY DeploymentsAssumption, Zenon DEF Init
  <2> QED BY <2>1 DEF Init, CallsWereRead
<1>2. CallsWereRead /\ [Next]_vars => CallsWereRead'
  <2> SUFFICES ASSUME CallsWereRead, [Next]_vars PROVE CallsWereRead' OBVIOUS
  <2>1. CASE Next BY <2>1, CallsStep, Zenon
  <2>2. CASE UNCHANGED vars BY <2>2, Zenon DEF vars, CallsWereRead, Worlds
  <2> QED BY <2>1, <2>2
<1>3. IInv /\ CallsWereRead /\ [Next]_vars
        => [config' # config => \E c \in calls \ calls' : KeptBy(c)]_vars
  <2> SUFFICES ASSUME IInv, CallsWereRead, Next, config' # config
               PROVE  \E c \in calls \ calls' : KeptBy(c)
    BY Zenon
  <2>1. PICK c \in calls : SaveConfig(c)
    <3>1. IsRead \/ UNCHANGED <<site, config, calls>> => config' = config BY Zenon DEF IsRead
    <3> QED BY <3>1, ConfigStep, Zenon
  <2>2. config' = Saved(c) /\ c \in calls \ calls' BY <2>1, Zenon DEF SaveConfig
  <2>3. ConfigFields \subseteq DOMAIN c.copy BY Zenon DEF CallsWereRead
  <2>4. IsWorld(c.world)
    <3>1. c.world \in Worlds /\ site \in Deployments BY Zenon DEF CallsWereRead, IInv
    <3> QED BY <3>1, DeploymentsAssumption, Zenon DEF Worlds
  <2>5. /\ Saved(c).key # c.copy.key => c.by = "key"
        /\ <<Saved(c).owner, Saved(c).accounts, Saved(c).class>>
             # <<c.copy.owner, c.copy.accounts, c.copy.class>> =>
             \/ c.by = "owner"
             \/ ensure_manago_primary_owner(c.world, c.copy, c.by # "view") # Nobody
    BY <2>2, <2>3, SavedKeeps, Zenon
  <2>6. ensure_manago_primary_owner(c.world, c.copy, c.by # "view") # Nobody
          => preferred_owner_from_config(c.copy) \notin ToSet(c.world.users)
    BY <2>4, ListedOwnerIsKept, Zenon
  <2>7. KeptBy(c) BY <2>2, <2>5, <2>6, Zenon
  <2> QED BY <2>2, <2>7, Zenon
<1> QED BY <1>1, <1>2, <1>3, Invariance, PTL DEF Spec, ChoicesGoOnlyStale
====
