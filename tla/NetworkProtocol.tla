--------------------------- MODULE NetworkProtocol ---------------------------
(***************************************************************************)
(* NetworkProtocol.h: the codec of the chat protocol. A buffer is a        *)
(* sequence of C chars, which are signed on the platforms the project      *)
(* builds for, so a byte of 128 or more is a negative number until it is   *)
(* cast. A ChatMessage is a record; its m_value holds m_length chars.      *)
(***************************************************************************)
EXTENDS Integers, Sequences

CHAT_HEADER_SIZE == 4
CHAT_MAX_VALUE == 256
CHAT_MAX_TOTAL == CHAT_HEADER_SIZE + CHAT_MAX_VALUE

OPCODE_RESPONSE == 129   \* 0x81; the requests are 1..9

CHAT_OK == 0
CHAT_ERR_GENERIC == 1
CHAT_ERR_MALFORMED == 9

Char == -128 .. 127

\* Faulty: a char is unsigned.
UnsignedChar(n) == n % 256

\* The conversions (char)n and (uint8_t)c.
ToChar(n) == IF n % 256 < 128 THEN n % 256 ELSE (n % 256) - 256

ToUint8(c) == c % 256

\* What a decoder that refuses the buffer returns: no message.
Malformed == [opcode |-> 0, length |-> 0, status |-> CHAT_ERR_MALFORMED, value |-> << >>]

-----------------------------------------------------------------------------
(* Encoding.                                                               *)

\* Faulty: the length is written big-endian.
BigEndianHeader(m) ==
  <<ToChar(m.opcode), ToChar(m.length \div 256), ToChar(m.length % 256), ToChar(m.status)>>

Header(m) ==
  <<ToChar(m.opcode), ToChar(m.length % 256), ToChar(m.length \div 256), ToChar(m.status)>>

\* SerializeChatMessage into a buffer of bufSize bytes; << >> stands for -1.
SerializeChatMessage(m, bufSize) ==
  IF bufSize < CHAT_HEADER_SIZE + m.length THEN << >> ELSE Header(m) \o m.value

-----------------------------------------------------------------------------
(* Decoding.                                                               *)

\* Faulty: the char is not cast, so 0x81 is read as -127.
SignedOpcode(buf) == buf[1]

Chat_GetOpcode(buf) == ToUint8(buf[1])

\* (uint16_t)(buf[1] | (buf[2] << 8)) on ints. Of a low byte that is negative every
\* higher bit is set, so the OR is the low byte whatever the high one.
Chat_GetLength(buf) == (IF buf[2] < 0 THEN buf[2] ELSE buf[2] + 256 * buf[3]) % 65536

Chat_GetStatus(buf) == buf[4]

Chat_Validate(bufSize, valueLen) ==
  /\ valueLen <= CHAT_MAX_VALUE
  /\ bufSize >= CHAT_HEADER_SIZE + valueLen

\* DeserializeChatMessage of a buffer that is said to hold bufSize bytes. Bytes past
\* the frame are not looked at.
DeserializeChatMessage(buf, bufSize) ==
  IF bufSize >= CHAT_HEADER_SIZE /\ Chat_Validate(bufSize, Chat_GetLength(buf))
  THEN [opcode |-> Chat_GetOpcode(buf),
        length |-> Chat_GetLength(buf),
        status |-> Chat_GetStatus(buf),
        value |-> SubSeq(buf, CHAT_HEADER_SIZE + 1, CHAT_HEADER_SIZE + Chat_GetLength(buf))]
  ELSE Malformed

=============================================================================
