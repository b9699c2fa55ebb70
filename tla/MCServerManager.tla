--------------------------- MODULE MCServerManager ---------------------------
(* Small instances of the request handlers for TLC.                        *)
EXTENDS ServerManager, TLC

\* Model values are only compared, so every permutation of them is a symmetry.
Symmetry == Permutations(Fds) \cup Permutations(Names) \cup Permutations(Passwords)
              \cup Permutations(GroupNames \ LongNames)

=============================================================================
