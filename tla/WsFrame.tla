------------------------------- MODULE WsFrame -------------------------------
(***************************************************************************)
(* The WebSocket frames of project/msc100/src/device_manage/ws.c, byte by  *)
(* byte: ws_decode_data on what one recv of clt_thread_center returns, and *)
(* ws_construct_packet_data on the answers.  A frame may arrive cut short  *)
(* or with the beginning of the next one behind it; the send buffer is one *)
(* for all answers.  Frame and ReadPacket are the protocol's definitions   *)
(* (RFC 6455), which the code is compared with.                            *)
(***************************************************************************)
EXTENDS Integers, Sequences

CONSTANTS Frames,         \* what apps send: [fin, op, form, key, n]
          Losses,         \* how many of its last bytes recv does not return
          Trails,         \* how many bytes of the next frame recv returns
          AnswerLens,     \* the lengths of answers
          MAX_MSG_LEN,    \* the buffers of clt_thread_center
          SEND_DATA_LEN_MAX

\* A short answer fits into the send buffer (ws.c:20-21: 1024 + 10).
ASSUME WsAssumption ==
    /\ MAX_MSG_LEN \in Nat /\ AnswerLens \subseteq Nat /\ Losses \subseteq Nat
    /\ SEND_DATA_LEN_MAX \in Nat /\ SEND_DATA_LEN_MAX >= 130

\* No answer that fits needs more than two bytes for its length.
ASSUME FormAssumption == SEND_DATA_LEN_MAX - 4 <= 65536

\* The frames that the protocol allows, of less than 2^31 bytes: the length
\* fits its form, and a key has four bytes.
MaxLen == 2147483647
WellFormed(f) ==
    /\ f \in [fin : BOOLEAN, op : 0 .. 15, form : {0, 126, 127},
              key : {<<>>} \cup [1 .. 4 -> 0 .. 255], n : 0 .. MaxLen]
    /\ (f.form = 0 => f.n <= 125) /\ (f.form = 126 => f.n <= 65535)

ASSUME FrameAssumption == \A f \in Frames : WellFormed(f)

VARIABLES phase, frame,   \* the frame on its way
          data,           \* recv_buf
          type, package,  \* what ws_decode_data returns
          message,        \* the length of the answer
          send_data, len

vars == <<phase, frame, data, type, package, message, send_data, len>>

None == [fin |-> FALSE, op |-> 0, form |-> 0, key |-> <<>>, n |-> 0]

\* Some text of n bytes, none of them zero; salt tells texts apart.
Text(n, salt) == [i \in 1 .. n |-> ((i * 37 + salt) % 251) + 1]

\* Bytes combined bit by bit, as the code does it with ~, & and |.
XorBit(a, b, w) == w * (((a \div w) + (b \div w)) % 2)

Xor(a, b) ==
    XorBit(a, b, 1) + XorBit(a, b, 2) + XorBit(a, b, 4) + XorBit(a, b, 8)
        + XorBit(a, b, 16) + XorBit(a, b, 32) + XorBit(a, b, 64) + XorBit(a, b, 128)

Init ==
    /\ phase = "idle" /\ frame = None /\ data = <<>>
    /\ type = "WDT_NULL" /\ package = <<>>
    /\ message = 0 /\ send_data = <<>> /\ len = 0

-----------------------------------------------------------------------------
(* The protocol: how an app builds a frame and reads one.                  *)

TwoBytes(n) == <<n \div 256, n % 256>>

Masked(text, key) ==
    IF key = <<>> THEN text ELSE [i \in DOMAIN text |-> Xor(text[i], key[((i - 1) % 4) + 1])]

Payload(f) == Text(f.n, f.op)

\* form: the length takes no extra bytes (0), two (126) or eight (127).
SizeField(f) ==
    LET bit == IF f.key = <<>> THEN 0 ELSE 128 IN
    CASE f.form = 0 -> <<bit + f.n>>
      [] f.form = 126 -> <<bit + 126>> \o TwoBytes(f.n)
      [] f.form = 127 -> <<bit + 127, 0, 0, 0, 0>> \o TwoBytes(f.n \div 65536) \o TwoBytes(f.n % 65536)

Frame(f) ==
    <<(IF f.fin THEN 128 ELSE 0) + f.op>> \o SizeField(f) \o f.key \o Masked(Payload(f), f.key)

\* The text of the frame that p begins with, a zero byte if p is no such frame.
ReadPacket(p) ==
    LET wide == p[2] = 126
        n == IF wide THEN 256 * p[3] + p[4] ELSE p[2]
        start == IF wide THEN 4 ELSE 2
    IN  IF Len(p) < 2 THEN <<0>>
        ELSE IF p[1] # 129 \/ Len(p) # start + n THEN <<0>>
        ELSE SubSeq(p, start + 1, start + n)

-----------------------------------------------------------------------------
(* ws_decode_data                                                          *)

TypeOfOp(op) == CASE op = 1 -> "WDT_TXTDATA" [] op = 2 -> "WDT_BINDATA" [] op = 8 -> "WDT_DISCONN"
                  [] op = 9 -> "WDT_PING" [] op = 10 -> "WDT_PONG" [] OTHER -> "WDT_ERR"

\* data[0]: only whole messages and middle fragments are known.
FrameType(d) ==
    LET op == d[1] % 16 IN
    IF d[1] >= 128 THEN TypeOfOp(op) ELSE IF op = 0 THEN "WDT_MINDATA" ELSE "WDT_ERR"

IsMasked(d) == d[2] >= 128

LowByteFirst(d, from) == d[from] + 256 * d[from + 1]

\* Two bytes of the length, the first one highest.  Lengths stay below 2^31,
\* where the 32-bit sums of the code do not wrap.
Word(d, from) == 256 * d[from] + d[from + 1]

\* The bytes before the mask key, 0 if the header itself is not there or the
\* eight-byte length is beyond 32 bits.
HeaderLen(d) ==
    LET short == d[2] % 128 IN
    CASE short = 126 -> IF Len(d) < 4 THEN 0 ELSE 4
      [] short = 127 -> IF Len(d) < 10 THEN 0
                        ELSE IF \E i \in 3 .. 6 : d[i] # 0 THEN 0 ELSE 10
      [] OTHER -> 2

PayloadLen(d) ==
    CASE HeaderLen(d) = 2 -> d[2] % 128
      [] HeaderLen(d) = 4 -> Word(d, 3)
      [] HeaderLen(d) = 10 -> 65536 * Word(d, 7) + Word(d, 9)

\* data_start
DataStart(d) == HeaderLen(d) + (IF IsMasked(d) THEN 4 ELSE 0)

Refused(d) ==
    \/ Len(d) < 2
    \/ FrameType(d) = "WDT_ERR"
    \/ HeaderLen(d) = 0
    \/ Len(d) < PayloadLen(d) + DataStart(d)
    \/ MAX_MSG_LEN < PayloadLen(d) + 1

Unmasked(d) ==
    LET start == DataStart(d) IN
    [i \in 1 .. PayloadLen(d) |->
        IF IsMasked(d) THEN Xor(d[start + i], d[start - 3 + ((i - 1) % 4)]) ELSE d[start + i]]

ws_decode_data ==
    /\ phase = "received" /\ phase' = "decoded"
    /\ type' = (IF Refused(data) THEN "WDT_ERR" ELSE FrameType(data))
    /\ package' = (IF Refused(data) THEN package ELSE Unmasked(data))
    /\ UNCHANGED <<frame, data, message, send_data, len>>

-----------------------------------------------------------------------------
(* ws_construct_packet_data                                                *)

ShortTo126(n) == n <= 126

Short(n) == n < 126

Fits(n) == n < SEND_DATA_LEN_MAX - 4

\* A message that does not fit leaves the buffer and *len as they are, and
\* json_msg_fn calls with len = 0.  No message reaches the eight-byte form:
\* it needs n >= 0xFFFF in a buffer of 1034 bytes.
ws_construct_packet_data(n) ==
    LET text == Text(n, n) IN
    /\ phase = "decoded" /\ phase' = "answered"
    /\ message' = n
    /\ \/ /\ Short(n)
          /\ send_data' = <<129, n>> \o text /\ len' = n + 2
       \/ /\ ~Short(n) /\ Fits(n)
          /\ send_data' = <<129, 126, n \div 256, n % 256>> \o text /\ len' = n + 4
       \/ /\ ~Short(n) /\ ~Fits(n)
          /\ UNCHANGED send_data /\ len' = 0
    /\ UNCHANGED <<frame, data, type, package>>

-----------------------------------------------------------------------------
(* The app and the network.                                                *)

ClientSend(f) ==
    /\ phase = "idle" /\ phase' = "sent"
    /\ frame' = f
    /\ UNCHANGED <<data, type, package, message, send_data, len>>

NextFrame == [fin |-> TRUE, op |-> 1, form |-> 0, key |-> <<>>, n |-> 3]

ASSUME TrailAssumption == Trails \subseteq 1 .. Len(Frame(NextFrame))

\* tcp_recv returns the frame, a part of it, or more than it.
Recv ==
    /\ phase = "sent" /\ phase' = "received"
    /\ LET wire == Frame(frame)
           most == IF Len(wire) < MAX_MSG_LEN THEN Len(wire) ELSE MAX_MSG_LEN
       IN  \/ \E cut \in Losses : cut < most /\ data' = SubSeq(wire, 1, most - cut)
           \/ \E more \in Trails : /\ Len(wire) + more <= MAX_MSG_LEN
                                   /\ data' = wire \o SubSeq(Frame(NextFrame), 1, more)
    /\ UNCHANGED <<frame, type, package, message, send_data, len>>

\* The app has the answer.  What was returned for this message is forgotten,
\* the send buffer stays as it is.
Sent ==
    /\ phase = "answered" /\ phase' = "idle"
    /\ frame' = None /\ data' = <<>> /\ type' = "WDT_NULL" /\ package' = <<>> /\ message' = 0 /\ len' = 0
    /\ UNCHANGED send_data

Next ==
    \/ (\E f \in Frames : ClientSend(f)) \/ Recv \/ ws_decode_data
    \/ (\E n \in AnswerLens : ws_construct_packet_data(n)) \/ Sent

Spec == Init /\ [][Next]_vars

-----------------------------------------------------------------------------
(* Properties                                                              *)

Whole == Len(data) >= Len(Frame(frame))
Control == {1, 2, 8, 9, 10}

\* What is received of a frame decodes to its type and payload if it is all
\* there, in each form of the length and with or without a mask, whatever
\* follows it; a frame cut short is refused, and a fragment of a longer
\* message never passes for a whole one (ws.c:113-285).
DecodeIsRight ==
    phase = "decoded" =>
        /\ Whole /\ frame.fin /\ frame.op \in Control =>
               type = TypeOfOp(frame.op) /\ package = Payload(frame)
        /\ ~Whole => type = "WDT_ERR"
        /\ ~frame.fin \/ frame.op = 0 => type \in {"WDT_MINDATA", "WDT_ERR"}

\* What is sent is one frame whose text is the answer, or nothing if the
\* answer is too long, never a remainder of an earlier answer
\* (ws.c:394-437 and the callers' tcp_send).
PacketIsRight ==
    phase = "answered" =>
        LET sent == SubSeq(send_data, 1, len) IN
        IF message < SEND_DATA_LEN_MAX - 4 THEN ReadPacket(sent) = Text(message, message)
        ELSE sent = <<>>
=============================================================================
