---------------------------- MODULE MCRoomLifecycle ----------------------------
(* RoomLifecycle for TLC: players, and overlapping watcher runs, are alike. *)
EXTENDS RoomRules, TLC

Symmetry == Permutations(Players) \cup Permutations(Watchers)

================================================================================
