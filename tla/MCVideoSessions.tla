-------------------------- MODULE MCVideoSessions --------------------------
(* Small instances of VideoSessions for TLC. *)
EXTENDS VideoSessions, TLC

\* Calls of a kind, and paths are only ever compared with one another.
VideoSymmetry == Permutations(Starts) \cup Permutations(Stops) \cup Permutations(Paths)
=============================================================================
