--------------------------- MODULE MCGroupWindows ---------------------------
(* Small instances of clients and chat windows for TLC.                    *)
EXTENDS GroupWindows, TLC

\* Model values are only compared, so every permutation of them is a symmetry.
Symmetry == Permutations(Clients) \cup Permutations(Groups) \cup Permutations(Pids)

=============================================================================
