------------------------------ MODULE Telemetry ------------------------------
(***************************************************************************)
(* The telemetry client (Telemetry.cpp) and its message type               *)
(* (telemetry.pb.h): every upload function fills a TelemetryEvent, encodes *)
(* it into a buffer of 128 bytes and hands the bytes to the TCP client,    *)
(* one event right behind the other.  A float is its four bytes.           *)
(*                                                                         *)
(* The sender has other kinds of message too, with the field types a       *)
(* TelemetryEvent does not have, and other framings: mode is "plain" (what *)
(* Telemetry uses: the message ends where the connection does),            *)
(* "delimited" or "nullterminated".  The connection may break after any    *)
(* byte.                                                                   *)
(***************************************************************************)
EXTENDS PbEncode

CONSTANTS Rooms,        \* the sizes of the buffer of each kind of message
          Modes,        \* the framings it uses
          MaxMessages   \* how many messages are sent on one connection

ASSUME SenderAssumption ==
  \A k \in Kinds : /\ Rooms[k] \subseteq Nat
                   /\ Modes[k] \subseteq {"plain", "delimited", "nullterminated"}

VARIABLES kind, mode,
          sent,      \* the messages written to the connection
          wire,      \* the bytes on it
          broken,    \* the connection was lost: wire is a prefix of what was written
          last       \* the last call of the encoder: [m, room, s], s the stream it left

senderVars == <<kind, mode, sent, wire, broken, last>>

Float(tag) == Field(tag, "singular", "fixed32", 4, 1, <<>>, "static")
Enum(tag) == Field(tag, "singular", "uvarint", 4, 1, <<>>, "static")
Sub(tag, d) == Field(tag, "optional", "submsg", 0, 1, d, "static")

Floats(n) == [i \in 1..n |-> Float(i)]
LocationDesc == <<Enum(1), Enum(2), Field(3, "repeated", "varint", 4, 1, <<>>, "callback")>>

pb_TelemetryEvent_fields ==
  <<Sub(1, Floats(3)), Sub(2, Floats(3)), Sub(3, Floats(3)), Sub(4, Floats(2)),
    Sub(5, LocationDesc), Sub(6, <<Enum(1)>>), Sub(7, <<Enum(1)>>), Enum(8),
    Field(9, "singular", "bool", 1, 1, <<>>, "static")>>

\* the tags the upload functions fill, and the commands they send
TEL_US == 1
TEL_ACC == 2
TEL_GYRO == 3
TEL_ENC == 4
TEL_MOTOR_SPEED == 6
TEL_ORIENTATION == 7
TEL_CMD == 8
IMPROPER_SHUTDOWN == 9
CMD_ULTRASONIC == 0
CMD_ACCELERATION == 1
CMD_GYRO == 2
CMD_MOTOR_SPEED == 4
CMD_ENCODER == 5
CMD_ORIENTATION == 6
CMD_SHUTDOWN == 7

----------------------------------------------------------------------------
\* the _init_zero macros: of a message of fields only, and of the event
ZeroFields(desc) ==
  [t \in TagsOf(desc) |-> IF t = 0 THEN 0
                          ELSE DefaultOf(FieldOf(desc, t), ZeroValue(FieldOf(desc, t)))]
init_zero ==
  LET zero(f) == IF f.type = "submsg" THEN ZeroFields(f.sub) ELSE ZeroValue(f)
      field(t) == FieldOf(pb_TelemetryEvent_fields, t)
  IN  [t \in TagsOf(pb_TelemetryEvent_fields) |-> IF t = 0 THEN 0
                                                  ELSE DefaultOf(field(t), zero(field(t)))]

\* a submessage with these contents, and an event of one kind that has just that one
Present(vals) == [has |-> TRUE, val |-> [t \in 0..Len(vals) |-> IF t = 0 THEN 0 ELSE vals[t]]]
Event(cmd, tag, vals) == [init_zero EXCEPT ![TEL_CMD] = Groups(cmd), ![tag] = Present(vals)]

uploadUltrasonic(front, left, back) == Event(CMD_ULTRASONIC, TEL_US, <<front, left, back>>)
uploadImuAccel(x, y, z) == Event(CMD_ACCELERATION, TEL_ACC, <<x, y, z>>)
uploadImuGyro(x, y, z) == Event(CMD_GYRO, TEL_GYRO, <<x, y, z>>)
uploadEncoder(left, right) == Event(CMD_ENCODER, TEL_ENC, <<left, right>>)
uploadOrientation(orientation) == Event(CMD_ORIENTATION, TEL_ORIENTATION, <<Groups(orientation)>>)
uploadSpeed(speed) == Event(CMD_MOTOR_SPEED, TEL_MOTOR_SPEED, <<Groups(speed)>>)
uploadShutdownStatus(status) ==
  [init_zero EXCEPT ![IMPROPER_SHUTDOWN] = status, ![TEL_CMD] = Groups(CMD_SHUTDOWN)]

\* orientation and speed out of 0..3 are turned away
EnumArgument == 0..3

\* the gyro axes are read from the fifth value on; the seventh lies behind the
\* array of six and is whatever is there; an orientation is not checked
uploadMainData(tof, icm, behind, orientation) ==
  [init_zero EXCEPT
     ![TEL_US]   = Present(<<tof[1], tof[2], <<0, 0, 0, 0>>>>),
     ![TEL_ACC]  = Present(<<icm[1], icm[2], icm[3]>>),
     ![TEL_GYRO] = Present(<<icm[5], icm[6], behind>>),
     ![TEL_ORIENTATION] = Present(<<orientation>>),
     ![TEL_CMD]  = Groups(CMD_ULTRASONIC)]

\* the bytes _uploadEvent hands to the client; it returns true once they are
\* encoded, whatever the client's write returned
EventBuffer == 128
_uploadEvent(event) == pb_encode(pb_ostream_from_buffer(EventBuffer),
                                 pb_TelemetryEvent_fields, event)

----------------------------------------------------------------------------
NoCall == [m |-> <<>>, room |-> 0, s |-> PB_OSTREAM_SIZING]

TelemetryInit ==
  /\ kind \in Kinds
  /\ mode \in Modes[kind]
  /\ sent = <<>> /\ wire = <<>> /\ broken = FALSE
  /\ last = NoCall

\* a message is encoded; what was encoded is written
Send(m, room) ==
  /\ ~broken /\ Len(sent) < MaxMessages
  /\ \E s \in {pb_encode_ex(pb_ostream_from_buffer(room), Desc[kind], m, mode)} :
        /\ last' = [m |-> m, room |-> room, s |-> s]
        /\ IF s.ok THEN sent' = Append(sent, m) /\ wire' = wire \o s.out
                   ELSE UNCHANGED <<sent, wire>>
  /\ UNCHANGED <<kind, mode, broken>>

\* the connection ends before the reader has seen everything
Break(n) ==
  /\ ~broken
  /\ broken' = TRUE /\ wire' = SubSeq(wire, 1, n)
  /\ UNCHANGED <<kind, mode, sent, last>>

TelemetryNext == \/ \E m \in Messages[kind], room \in Rooms[kind] : Send(m, room)
                 \/ \E n \in 0..Len(wire) - 1 : Break(n)

TelemetrySpec == TelemetryInit /\ [][TelemetryNext]_senderVars

----------------------------------------------------------------------------
\* the functions set for a message's fields write the same on both passes, as
\* do those of the structs inside it, n deep
SteadyTo[n \in 0..MaxNesting] ==
  [p \in Structs |->
     /\ \A i \in DOMAIN p[1] :
          LET v == p[2][p[1][i].tag] IN p[1][i].alloc = "callback" /\ v # <<>> => v[1] = v[2]
     /\ n > 0 => \A q \in Inside(p) : SteadyTo[n - 1][q]]
Steady == SteadyTo[MaxNesting]

\* The encoder never writes behind its buffer, counts what it wrote, and gives
\* up on an encodable message only when the buffer is smaller than the size
\* pb_get_encoded_size announces for it.
BufferHeld ==
  last # NoCall =>
    LET s == last.s  size == pb_get_encoded_size(Desc[kind], last.m)
    IN  /\ Len(s.out) <= last.room
        /\ s.ok => s.written = Len(s.out)
        /\ mode = "plain" /\ Steady[<<Desc[kind], last.m>>] =>
             /\ s.ok <=> size.ok /\ size.written <= last.room
             /\ s.ok => s.written = size.written
=============================================================================
