------------------------------ MODULE ChatTypes ------------------------------
(***************************************************************************)
(* The values the server tells apart: connection fds, names, passwords and *)
(* group names (strings in the code, compared for equality only), and the  *)
(* requests and ChatStatus codes of NetworkProtocol.h.                     *)
(***************************************************************************)
EXTENDS FiniteSets

CONSTANTS
  Fds,          \* file descriptors a client connection can have
  NoFd,         \* the -1 of a user without a connection
  Names,        \* user names
  Passwords,
  GroupNames

\* A name is at most CHAT_MAX_VALUE bytes long, so there are finitely many.
ASSUME ChatTypesAssumption ==
  /\ NoFd \notin Fds
  /\ IsFiniteSet(Names)
  /\ IsFiniteSet(GroupNames)

\* What a message asks for, with its arguments; anything else is refused.
Request ==
  ({"OPCODE_REGISTER", "OPCODE_LOGIN"} \X Names \X Passwords)
    \cup ({"OPCODE_CREATE_GROUP", "OPCODE_JOIN_GROUP", "OPCODE_LEAVE_GROUP"} \X GroupNames)
    \cup {<<"OPCODE_LOGOUT">>, <<"OPCODE_EXIT">>, <<"OPCODE_LIST_USERS">>,
          <<"OPCODE_LIST_GROUPS">>, <<"OTHER">>}

ChatStatus ==
  {"CHAT_OK", "CHAT_ERR_GENERIC", "CHAT_ERR_BAD_CREDS", "CHAT_ERR_ALREADY_LOGGED_IN",
   "CHAT_ERR_NOT_LOGGED_IN", "CHAT_ERR_NOT_IN_GROUP", "CHAT_ERR_MALFORMED"}

=============================================================================
