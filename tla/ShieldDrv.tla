----------------------------- MODULE ShieldDrv -----------------------------
(***************************************************************************)
(* The commands of the shield, server_drv.cpp and wifi_drv.cpp.  Each is   *)
(* one exchange, and any reply may be lost or spoilt: an operator gives    *)
(* the set of values a function of the driver may return, as a function of *)
(* the shield's own answer where there are several.                        *)
(***************************************************************************)
EXTENDS SpiDrv

Ack == 1
WlFailure == 255

One == Param(<<1>>)          \* a socket, a flag, or the dummy byte
Four == Param(<<1, 2, 3, 4>>)
Name == Param(<<65, 66>>)
Part == Buffer(<<1>>)

\* What is read with waitResponseCmd, and the byte such a function returns:
\* what was read, or what it started from.
Exchanged(cmd, params, data) ==
    {ResponseCmd(s, cmd, 1) : s \in Answers(SendCmd(cmd, params), Reply(cmd, <<data>>))}
Value(x, start) == IF x.ok THEN x.params[1][1] ELSE start
Values(cmd, params, value, start) == {Value(x, start) : x \in Exchanged(cmd, params, <<value>>)}

\* The same with waitResponseData8: no parameter is no.
Data8(cmd, params, value) ==
    {ResponseData(s, cmd, FALSE) : s \in Answers(SendCmd(cmd, params), Reply(cmd, <<<<value>>>>))}
Yes(x) == x.ok /\ x.params # <<>> /\ x.params[1][1] = 1
Accepted(cmd, params, value) == {Yes(x) : x \in Data8(cmd, params, value)}

-----------------------------------------------------------------------------
(* server_drv.cpp                                                          *)
Closed == 0
Listen == 1
SynSent == 2
Established == 4
CloseWait == 7
SocketStates == {Closed, Listen, SynSent, Established, CloseWait}

GetServerState[v \in SocketStates] == Values(41, <<One>>, v, 0)
GetClientState[v \in SocketStates] == Values(47, <<One>>, v, 0)
SendData[taken \in {0, 1}] == Accepted(68, <<Part, Part>>, taken)
SendUdpData[gone \in {0, 1}] == Accepted(57, <<One>>, gone)
InsertDataBuf[taken \in {0, 1}] == Accepted(70, <<Part, Part>>, taken)

\* Commands whose reply is read and not used: whether the shield took them.
Obeyed(cmd, params) == {Understood(SendCmd(cmd, params)), FALSE}
StartServer == Obeyed(40, <<Param(<<0, 80>>), One, One>>)
StartClientTcp == Obeyed(45, <<Four, Param(<<0, 80>>), One, One>>)
StopClient == Obeyed(46, <<One>>)

\* One poll of checkDataSent.
DataSent[gone \in {0, 1}] == Values(42, <<One>>, gone, 0)

\* availData: the low byte comes first, and its other byte may not come.
Number(bytes) == Byte(bytes) + 256 * (IF Len(bytes) > 1 THEN bytes[2] ELSE 0)
AvailData[n \in 0..1] ==
    {IF x.ok THEN Number(x.params[1]) ELSE 0 : x \in Exchanged(43, <<One>>, <<n, 0>>)}

\* getData: Unread when nothing was read, and then the caller's byte is what
\* was on its stack.
Unread == -1
GetData[byte \in 0..9] ==
    {IF x.ok /\ x.params # <<>> THEN x.params[1][1] ELSE Unread : x \in Data8(44, <<One, One>>, byte)}

\* getDataBuf: the length is left as the caller set it when the reply is
\* lost or empty, and any length but 0 is taken for success.
GetDataBuf[size \in {0, 1}] ==
    LET whole == <<StartCmd, 69 + ReplyFlag, 1, 0, 2, 7, 8, EndCmd>>
    IN {IF x.ok /\ x.params # <<>> THEN [len |-> Len(x.params[1]), read |-> TRUE]
        ELSE [len |-> size, read |-> FALSE] :
            x \in {ResponseData(s, 69, TRUE) : s \in Answers(SendCmd(69, <<Part>>), whole)}}

-----------------------------------------------------------------------------
(* wifi_drv.cpp: what joins, configures and leaves a network, with a       *)
(* failure of the exchange made a failure of the command;                  *)
SetNetwork == {IF v = Ack THEN 1 ELSE WlFailure : v \in Values(16, <<Name>>, Ack, WlFailure)}
SetPassphrase == Values(17, <<Name, Name>>, Ack, WlFailure)
SetKey == Values(18, <<Name, One, Name>>, Ack, WlFailure)
ConfigSent == Values(20, <<One, Four, Four, Four>>, Ack, WlFailure)
SetDNS == Values(21, <<One, Four, Four>>, Ack, WlFailure)
LeaveNetwork == {x.ok : x \in Exchanged(48, <<One>>, <<1>>)}
\* idle, scan completed, connected, connect failed
GetConnectionStatus == UNION {Values(32, <<>>, status, WlFailure) : status \in {0, 2, 3, 4}}

(* what is read into the driver's own buffers, which keep what they held   *)
(* when the reply is lost: the addresses come in one reply;                *)
Kept(results, held) == {IF x.ok THEN x.params ELSE held : x \in results}
NetworkData ==
    {ResponseParams(s, 33, 3) : s \in
        Answers(SendCmd(33, <<One>>), <<StartCmd, 33 + ReplyFlag, 3, 1, 1, 1, 2, 1, 3, EndCmd>>)}
RemoteData ==
    Kept({ResponseParams(s, 58, 2) : s \in
             Answers(SendCmd(58, <<One>>), <<StartCmd, 58 + ReplyFlag, 2, 1, 1, 1, 2, EndCmd>>)},
         <<<<0>>, <<0>>>>)
CurrentNetwork == Exchanged(35, <<One>>, <<65>>)

(* a scan, and the names it found.  A start that fails is not told: the    *)
(* failure, put in an unsigned byte, is no longer equal to WL_FAILURE;     *)
StartScanNetworks == {IF v = -1 THEN v ELSE 1 : v \in Values(54, <<>>, 1, WlFailure)}
ScannedNames ==
    {IF x.ok THEN Len(x.params) ELSE 0 :
         x \in {Response(s, 39, 10) : s \in
                   Answers(SendCmd(39, <<>>), <<StartCmd, 39 + ReplyFlag, 2, 1, 65, 1, 66, EndCmd>>)}}
ScannedLevel == Values(50, <<One>>, 7, 0)

(* and the two steps of a lookup, whose all ones are no address.           *)
ReqHostByName == {x.ok : x \in Exchanged(52, <<Name>>, <<1>>)}
NoAddress == 255
GetHostByName ==
    {IF x.ok /\ x.params[1][1] # NoAddress THEN x.params[1][1] ELSE NoAddress :
         x \in UNION {Exchanged(53, <<>>, <<a>>) : a \in {9, NoAddress}}}
=============================================================================
