--------------------------------- MODULE MCBoard ---------------------------------
(* Board for TLC: every nation borders on every other one, so that players and
   nations are alike. *)
EXTENDS Board, TLC

AllBorders == {b \in Nations \X Nations : b[1] # b[2]}

Symmetry == Permutations(Players) \cup Permutations(Nations)

================================================================================
