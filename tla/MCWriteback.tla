------------------------------ MODULE MCWriteback ------------------------------
(* Instances of Writeback for TLC.                                                *)
EXTENDS Writeback, TLC

CONSTANTS h1, h2

(* one diff with a single ready intent, and one of each size *)
OneIntent == h1 :> 1
EmptyOrTwo == h1 :> 0 @@ h2 :> 2

(* ids are interchangeable, and so are workers *)
Symmetry == Permutations(Jobs) \cup Permutations(Previews)
              \cup Permutations(Tokens) \cup Permutations(Workers)
=================================================================================
