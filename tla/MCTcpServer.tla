----------------------------- MODULE MCTcpServer -----------------------------
(* Small instances of the transport for TLC.                               *)
EXTENDS TcpServer, TLC

\* Connections, callers and descriptors of one kind are only compared.
Symmetry == Permutations(Conns) \cup Permutations(Callers) \cup Permutations(Fds \ BigFds)

=============================================================================
