----------------------------- MODULE ChatStream ------------------------------
(***************************************************************************)
(* One connection, as bytes: ExchangeMessage of Client/ClientApp.c and     *)
(* ServerManagerCallbackRecv of ServerMng/ServerManager.c over TCP. Each   *)
(* side calls recv() once per message and takes what it returns for one    *)
(* whole message. TCP keeps the bytes in order but not the boundaries of   *)
(* the send() calls: a recv() returns any non-empty part of the bytes in   *)
(* flight. The client sends its next request after it has read a reply.    *)
(***************************************************************************)
EXTENDS NetworkProtocol

CONSTANTS
  RequestOpcodes,   \* the opcodes sent in requests, with and without an action at the server
  RequestLengths,   \* value lengths of requests
  ReplyLengths,     \* value lengths of the answers
  Garbage,          \* chars the client's receive buffer may hold before recv()
  MaxRequests,      \* bound: requests the client sends
  Cuts,             \* bound: byte counts a recv() that returns less than that may return
  MaxSplits         \* bound: recv() calls that return less than what is in flight

ASSUME ChatStreamAssumption ==
  /\ RequestOpcodes \subseteq 0 .. 255
  /\ RequestLengths \cup ReplyLengths \subseteq 0 .. CHAT_MAX_VALUE
  /\ Garbage \subseteq Char
  /\ MaxRequests \in Nat /\ MaxSplits \in Nat

VARIABLES
  client,    \* "idle" at the menu, or "waiting" in recv()
  up, down,  \* the bytes in flight to the server and to the client
  sent,      \* the requests the client has sent
  heard,     \* what the server has made of each recv()
  replies,   \* the replies the server has sent
  got,       \* what the client has made of each reply
  splits

vars == <<client, up, down, sent, heard, replies, got, splits>>

\* A string of n bytes, its terminator included.
String(n) == [i \in 1 .. n |-> IF i = n THEN 0 ELSE 97]

Message(op, st, n) == [opcode |-> op, length |-> n, status |-> st, value |-> String(n)]

Init ==
  /\ client = "idle"
  /\ up = << >> /\ down = << >>
  /\ sent = << >> /\ heard = << >> /\ replies = << >> /\ got = << >>
  /\ splits = 0

\* The bytes a recv() may return, and what it leaves in flight.
Segment(stream, n) ==
  /\ n \in 1 .. Len(stream)
  /\ n < Len(stream) => n \in Cuts
  /\ splits' = splits + (IF n < Len(stream) THEN 1 ELSE 0)
  /\ splits' <= MaxSplits

Rest(stream, n) == SubSeq(stream, n + 1, Len(stream))

-----------------------------------------------------------------------------
(* The client.                                                             *)

\* ExchangeMessage up to the call of Receive.
SendRequest(op, n) ==
  /\ client = "idle"
  /\ Len(sent) < MaxRequests
  /\ up' = up \o SerializeChatMessage(Message(op, CHAT_OK, n), CHAT_MAX_TOTAL)
  /\ sent' = Append(sent, Message(op, CHAT_OK, n))
  /\ client' = "waiting"
  /\ UNCHANGED <<down, heard, replies, got, splits>>

\* Faulty: only a header is read at first.
ReceiveHeader ==
  /\ client = "waiting"
  /\ Len(down) > CHAT_HEADER_SIZE
  /\ down' = Rest(down, CHAT_HEADER_SIZE)
  /\ got' = Append(got, Malformed)
  /\ client' = "idle"
  /\ UNCHANGED <<up, sent, heard, replies, splits>>

\* The client's receive buffer after recv(), as far as a message reaches: what recv()
\* did not fill is whatever the stack held.
RecvBuf(bytes, g) == bytes \o [i \in 1 .. CHAT_MAX_TOTAL |-> g]

\* What ExchangeMessage makes of it. The decoder is told the size of the buffer, not the
\* number of bytes received.
ReplyIn(buf) ==
  LET m == DeserializeChatMessage(buf, 4096)
  IN  IF m.opcode = OPCODE_RESPONSE THEN m ELSE Malformed

\* ExchangeMessage from the call of Receive on.
ReceiveReply ==
  /\ client = "waiting"
  /\ \E n \in 1 .. Len(down), g \in Garbage :
       /\ Segment(down, n)
       /\ down' = Rest(down, n)
       /\ got' = Append(got, ReplyIn(RecvBuf(SubSeq(down, 1, n), g)))
  /\ client' = "idle"
  /\ UNCHANGED <<up, sent, heard, replies>>

-----------------------------------------------------------------------------
(* The server.                                                             *)

\* Faulty: a value that fills the buffer counts as too long, and nothing is sent.
TooLongOrFull(n) == n >= CHAT_MAX_VALUE

TooLong(n) == n > CHAT_MAX_VALUE

\* ServerManager_SendMessage when memory suffices.
SendMessage(st, n) ==
  LET m == Message(OPCODE_RESPONSE, st, n)
  IN  IF TooLong(n)
      THEN UNCHANGED <<down, replies>>
      ELSE /\ down' = down \o SerializeChatMessage(m, CHAT_HEADER_SIZE + n)
           /\ replies' = Append(replies, m)

\* The bytes of one recv() are one message. One that does not decode is refused, and
\* so is an opcode without an action.
CallbackRecv(buf) ==
  LET m == DeserializeChatMessage(buf, Len(buf))
  IN  /\ heard' = Append(heard, m)
      /\ \/ m = Malformed /\ SendMessage(CHAT_ERR_MALFORMED, 0)
         \/ m # Malformed /\ m.opcode \notin 1 .. 9 /\ SendMessage(CHAT_ERR_GENERIC, 0)
         \/ m # Malformed /\ m.opcode \in 1 .. 9 /\ \E n \in ReplyLengths : SendMessage(CHAT_OK, n)

ProcessClientData ==
  /\ \E n \in 1 .. Len(up) :
       /\ Segment(up, n)
       /\ CallbackRecv(SubSeq(up, 1, n))
       /\ up' = Rest(up, n)
  /\ UNCHANGED <<client, sent, got>>

Next ==
  \/ \E op \in RequestOpcodes, n \in RequestLengths : SendRequest(op, n)
  \/ ReceiveReply
  \/ ProcessClientData

Spec == Init /\ [][Next]_vars

\* A recv() whose bytes have arrived returns, in the client and in the handler's worker.
FairSpec == Spec /\ WF_vars(ReceiveReply) /\ WF_vars(ProcessClientData)

-----------------------------------------------------------------------------
(* Properties.                                                             *)

TypeOK ==
  /\ client \in {"idle", "waiting"}
  /\ up \in Seq(Char) /\ down \in Seq(Char)
  /\ \A m \in {sent[i] : i \in DOMAIN sent} \cup {replies[i] : i \in DOMAIN replies} :
       m.opcode \in 0 .. 255 /\ m.length = Len(m.value)
  /\ Len(got) <= Len(sent)
  /\ splits \in 0 .. MaxSplits

\* As long as each recv() returns what one send() sent, the client and the server
\* stay in step: at the menu every byte sent has been consumed, so that the next
\* reply is the answer to the next request (ClientApp.c:115-162; nothing in a reply
\* says which request it answers). After a cut they are not: the rest of the
\* message is taken for one of its own, and the client is one reply behind.
InStep == splits = 0 /\ client = "idle" => up = << >> /\ down = << >>

\* The lengths whose low byte is not negative as a char: Chat_GetLength reads these.
Readable(m) == m.length % 256 < 128

\* What is made of the messages ms when those of unreadable length are refused, and only those.
ReadAs(ms, out) ==
  /\ Len(out) = Len(ms)
  /\ \A i \in 1 .. Len(ms) : out[i] = IF Readable(ms[i]) THEN ms[i] ELSE Malformed

\* Without a cut the server hears the requests the client sent, each once and in order. One whose
\* length it misreads is refused, and never taken for another message
\* (ServerManager.c:178-201).
RequestsUnderstood == splits = 0 /\ client = "idle" => ReadAs(sent, heard)

\* Without a cut the client reads a reply as it was sent: the opcode 0x81, which does not fit a
\* signed char, the length and the text. A reply whose length it misreads is reported
\* as malformed, and never as another one (ClientApp.c:148-160).
RepliesUnderstood == splits = 0 /\ client = "idle" => ReadAs(replies, got)

\* Wherever TCP cuts the messages, the server answers what it takes for a message exactly
\* once, and the client never waits in recv() with no byte under way in either direction:
\* no reply is too long to be sent, so none is missing (ServerManager.c:178-201 and :604).
AnswerUnderWay ==
  /\ Len(replies) = Len(heard)
  /\ client = "waiting" => up # << >> \/ down # << >>

\* A request is answered, wherever TCP cuts the messages: neither side waits for
\* the rest of a message, or for bytes that the other keeps
\* (ServerManager_SendMessage refuses what is longer than CHAT_MAX_VALUE).
ExchangeCompletes == client = "waiting" ~> client = "idle"

\* A request with any value the format has room for is read by the server
\* ("[Length: uint16_t LE]" and "maximum value payload in bytes" of 256,
\* NetworkProtocol.h:11 and :24).
EveryLengthIsRead == client = "idle" => ~\E i \in DOMAIN replies : replies[i].status = CHAT_ERR_MALFORMED

=============================================================================
