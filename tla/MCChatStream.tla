---------------------------- MODULE MCChatStream -----------------------------
(* Instances of the byte stream for TLC.                                   *)
EXTENDS ChatStream

\* The edges of what Chat_GetLength reads back and of what it does not.
Lengths == {0, 5, 127, 128, 255, 256}
ShortLengths == {0, 5}

Login == 2
NoAction == 77
Opcodes == {Login, NoAction}
Logins == {Login}

Zero == {0}

\* Inside the header, between header and value, inside the value.
SomeCuts == {1, 4, 6, 130}
NoCuts == {}

=============================================================================
