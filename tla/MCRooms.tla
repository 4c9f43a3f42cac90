-------------------------------- MODULE MCRooms --------------------------------
(* Small instances of a room for TLC. *)
EXTENDS Rooms, TLC

Symmetry == Permutations(Procs) \cup Permutations(Agents)

===============================================================================
