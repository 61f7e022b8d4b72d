------------------------------ MODULE Exchange ------------------------------
(***************************************************************************)
(* Messages on one TCP connection: the sender of Telemetry, and a reader   *)
(* that decodes what arrived.  It knows the sender's descriptor or an      *)
(* older one.                                                              *)
(***************************************************************************)
EXTENDS Telemetry, PbDecode

CONSTANT ReaderDescs   \* the descriptors the readers of each kind may have, by name

VARIABLES reader,
          at,        \* where the reader goes on
          received,  \* what it decoded
          refused    \* the decoder returned false

vars == <<senderVars, reader, at, received, refused>>

ReadDesc == ReaderDescs[kind][reader]

ExchangeInit ==
  /\ TelemetryInit
  /\ reader \in DOMAIN ReaderDescs[kind]
  /\ received = <<>> /\ refused = FALSE /\ at = 0

\* everything is sent before the reader looks
Sending ==
  /\ received = <<>> /\ ~refused
  /\ TelemetryNext
  /\ UNCHANGED <<reader, at, received, refused>>

\* the reader decodes one message into a zeroed struct
Receive ==
  LET rest == [pb_istream_from_buffer(wire) EXCEPT !.at = at, !.left = Len(wire) - at]
  IN  /\ at < Len(wire) /\ ~refused
      /\ \E r \in {pb_decode_ex(rest, ReadDesc, ZeroStruct(ReadDesc), mode)} :
            /\ at' = r.s.at
            /\ refused' = ~r.s.ok
            /\ received' = IF r.s.ok THEN Append(received, r.v) ELSE received
      /\ UNCHANGED <<senderVars, reader>>

ExchangeNext == Sending \/ Receive

ExchangeSpec == ExchangeInit /\ [][ExchangeNext]_vars

----------------------------------------------------------------------------
\* what a reader with descriptor d can see of a message: the fields it knows,
\* without those the application's functions would have to take
RECURSIVE Visible(_, _)
Visible(d, m) ==
  LET see(f, v) == IF f.alloc = "callback" THEN <<>>
                   ELSE IF f.type # "submsg" \/ f.rule = "repeated" THEN v
                   ELSE IF f.rule = "optional" THEN [v EXCEPT !.val = Visible(f.sub, v.val)]
                   ELSE Visible(f.sub, v)
  IN  [t \in TagsOf(d) |-> IF t # 0 THEN see(FieldOf(d, t), m[t])
                           ELSE IF m[0] \in TagsOf(d) THEN m[0] ELSE 0]

\* Framed messages, and a plain one alone on its connection, come out as they
\* went in, one by one and in order, and nothing is refused unless the connection
\* broke; a delimited message is never accepted in part (pb_encode_ex against
\* pb_decode_ex, over both passes of pb_encode_submessage).
MessagesArrive ==
  LET whole == mode = "delimited" \/ (~broken /\ (mode = "nullterminated" \/ Len(sent) = 1))
  IN  whole => /\ Len(received) <= Len(sent)
               /\ \A i \in DOMAIN received : received[i] = Visible(ReadDesc, sent[i])
               /\ refused => broken

\* got holds nothing m does not hold: every field of it is m's, or was never set
RECURSIVE Within(_, _, _)
Within(d, got, m) ==
  \A t \in TagsOf(d) \ {0} :
    LET f == FieldOf(d, t)
    IN  \/ got[t] \in {DefaultOf(f, ZeroOf(f)), m[t]}
        \/ f.alloc = "callback"
        \/ f.alloc = "static" /\ f.rule = "optional" /\ got[t].has /\ m[t].has
             /\ (f.type = "submsg" => Within(f.sub, got[t].val, m[t].val))
        \/ f.rule = "repeated" /\ IsPrefix(got[t], m[t])
        \/ f.rule = "oneof" /\ f.type = "submsg" /\ Within(f.sub, got[t], m[t])

\* Whatever byte the connection broke at, the reader of an undelimited message
\* either refuses it or has fields of that message, none of them half read.
NothingInvented ==
  Len(sent) = 1 => \A i \in DOMAIN received : Within(ReadDesc, received[i], sent[1])
=============================================================================
