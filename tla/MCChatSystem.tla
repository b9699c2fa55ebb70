---------------------------- MODULE MCChatSystem ----------------------------
(* Small instances of clients, connections and server for TLC.             *)
EXTENDS ChatSystem, TLC

\* Model values are only compared, so every permutation of them is a symmetry.
SysSymmetry ==
  Permutations(Clients) \cup Permutations(Links) \cup Permutations(Fds) \cup Permutations(Names)
    \cup Permutations(GroupNames)

\* The last message and its answer are read by no action, and by the properties
\* only for the soft assertion: two states that differ in them are the same one.
SysView ==
  <<usersByName, usersByFd, groups, conns, told, reply.softAssert, app, link, server>>

=============================================================================
