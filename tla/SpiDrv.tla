------------------------------- MODULE SpiDrv -------------------------------
(***************************************************************************)
(* The exchange of the WiFi shield's driver, spi_drv.cpp: a command with   *)
(* its parameters goes out, the driver waits for the shield's ready line,  *)
(* and reads a reply byte by byte.  What the shield sends is a sequence of *)
(* bytes, followed for ever by the byte of an idle line.                   *)
(***************************************************************************)
EXTENDS Integers, SequencesExt

CONSTANT TimeoutChar  \* TIMEOUT_CHAR: bytes waited for a reply to start

ASSUME SpiAssumption == TimeoutChar \in Nat

StartCmd == 224   \* 0xE0
EndCmd == 238
ErrCmd == 239
ReplyFlag == 128
Dummy == 255

Byte(s) == IF s = <<>> THEN Dummy ELSE Head(s)
Rest(s) == IF s = <<>> THEN s ELSE Tail(s)
Skip(s, n) == SubSeq(s, n + 1, Len(s))
Bytes(s, n) == [k \in 1..n |-> IF k <= Len(s) THEN s[k] ELSE Dummy]

-----------------------------------------------------------------------------
(* sendCmd, sendParam, sendBuffer: the lengths of a parameter are of one   *)
(* byte, those of a buffer of two; END_CMD follows the last, or the        *)
(* command itself if there is none.                                        *)
Length(p) == IF p.wide THEN <<Len(p.bytes) \div 256, Len(p.bytes) % 256>> ELSE <<Len(p.bytes)>>
Sent(params) == FlattenSeq([k \in DOMAIN params |-> Length(params[k]) \o params[k].bytes])
SendCmd(cmd, params) == <<StartCmd, cmd, Len(params)>> \o Sent(params) \o <<EndCmd>>

Param(bytes) == [wide |-> FALSE, bytes |-> bytes]
Buffer(bytes) == [wide |-> TRUE, bytes |-> bytes]

-----------------------------------------------------------------------------
(* waitSpiChar: an error byte is reported as -1, which its callers take    *)
(* for success: what follows is then compared with the command.            *)
WaitSpiChar(s) ==
    LET at == {k \in 1..Len(s) : s[k] \in {StartCmd, ErrCmd} /\ k <= TimeoutChar + 1}
        first == CHOOSE k \in at : \A l \in at : k <= l
    IN IF at = {} THEN [back |-> 0, rest |-> Skip(s, TimeoutChar + 1)]
       ELSE [back |-> IF s[first] = ErrCmd THEN -1 ELSE 1, rest |-> Skip(s, first)]

Failed == [ok |-> FALSE, params |-> <<>>]
Read(params) == [ok |-> TRUE, params |-> params]

\* IF_CHECK_START_CMD and CHECK_DATA(cmd | REPLY_FLAG): what is left to read.
BugReplied(w, cmd) == w.back # 0
Replied(w, cmd) == w.back # 0 /\ Byte(w.rest) = cmd + ReplyFlag

(* waitResponseCmd: exactly the expected number of parameters, of which    *)
(* one is read; the end of the reply is read but not insisted on.          *)
ResponseCmd(s, cmd, num) ==
    LET w == WaitSpiChar(s)
        body == Rest(w.rest)
        data == Skip(body, 2)
    IN IF ~Replied(w, cmd) \/ Byte(body) # num THEN Failed
       ELSE Read(<<Bytes(data, Byte(Rest(body)))>>)

(* waitResponseData8 and waitResponseData16: no parameter is a success, in *)
(* which the caller's data and length are left as they were.               *)
ResponseData(s, cmd, wide) ==
    LET w == WaitSpiChar(s)
        body == Rest(w.rest)
        len == IF wide THEN Byte(Rest(body)) * 256 + Byte(Skip(body, 2)) ELSE Byte(Rest(body))
        data == Skip(body, IF wide THEN 3 ELSE 2)
    IN IF ~Replied(w, cmd) THEN Failed
       ELSE IF Byte(body) = 0 THEN Read(<<>>)
       ELSE Read(<<Bytes(data, len)>>)

(* waitResponseParams and waitResponse: a parameter after another; none is *)
(* an error.  The first kind wants as many as it expects, the second cuts  *)
(* what is more than it has room for.                                      *)
Params[n \in 0..255, s \in Seq(0..255)] ==
    IF n = 0 THEN <<>>
    ELSE <<Bytes(Rest(s), Byte(s))>> \o Params[n - 1, Skip(s, 1 + Byte(s))]

ResponseParams(s, cmd, num) ==
    LET w == WaitSpiChar(s)
        n == Byte(Rest(w.rest))
    IN IF ~Replied(w, cmd) \/ n = 0 \/ n # num THEN Failed
       ELSE Read(Params[n, Skip(w.rest, 2)])

Response(s, cmd, most) ==
    LET w == WaitSpiChar(s)
        n == Byte(Rest(w.rest))
        taken == IF n > most THEN most ELSE n
    IN IF ~Replied(w, cmd) \/ n = 0 THEN Failed
       ELSE Read(Params[taken, Skip(w.rest, 2)])

-----------------------------------------------------------------------------
(* external: the shield.  It finds the parameters of a command by their    *)
(* lengths, up to END_CMD.  It replies to the command it was sent, or says *)
(* that it is in error, is silent, or replies to some other command; to    *)
(* one that it cannot take apart it has no reply.                          *)
WideCommands == {68, 69, 70}
PastParams[n \in 0..9, s \in Seq(0..255), wide \in BOOLEAN] ==
    IF n = 0 THEN s
    ELSE IF wide THEN PastParams[n - 1, Skip(s, 2 + Byte(s) * 256 + Byte(Rest(s))), wide]
    ELSE PastParams[n - 1, Skip(s, 1 + Byte(s)), wide]
Understood(frame) == PastParams[frame[3], Skip(frame, 3), frame[2] \in WideCommands] = <<EndCmd>>

Reply(cmd, values) ==
    <<StartCmd, cmd + ReplyFlag, Len(values)>>
    \o (IF values = <<>> THEN <<>> ELSE <<Len(values[1])>> \o values[1]) \o <<EndCmd>>
Faults(cmd) == {<<>>, <<ErrCmd>>, <<Dummy>> \o Reply(cmd + 1, <<<<1>>>>), Reply(cmd, <<>>)}
Answers(frame, whole) == Faults(frame[2]) \union (IF Understood(frame) THEN {whole} ELSE {})
=============================================================================
