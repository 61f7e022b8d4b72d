------------------------------- MODULE Shield -------------------------------
(***************************************************************************)
(* A sketch that uses the WiFi shield: clients, one server and one UDP     *)
(* socket share the few sockets of the shield, of which the library keeps  *)
(* two tables.  A call of the sketch is a sequence of exchanges with the   *)
(* shield, whose sockets change by themselves in between.                  *)
(***************************************************************************)
EXTENDS ShieldDrv

CONSTANTS
    Clients,  \* WiFiClient objects of the sketch
    NSocks,   \* MAX_SOCK_NUM
    Tries,    \* what each loop of the library allows itself: 10, 25 or 50
    DownCycles, \* TH_SERVER_DOWN
    MaxCalls  \* bound: calls of the sketch

\* NO_SOCKET_AVAIL and the names of the other objects are none of these.
ASSUME ShieldAssumption ==
    /\ NSocks \in 1..254 /\ Tries \in Nat \ {0} /\ MaxCalls \in Nat /\ DownCycles \in Nat
    /\ Clients \intersect {"guest", "server", "udp"} = {}

VARIABLES
    state,   \* _state: the sockets that are not NA_STATE
    port,    \* _server_port: whose port a socket has, if any
    sock,    \* _sock of each object: a socket, NSocks at first, or NoSock
    link,    \* external: the state of each of the shield's sockets
    sent,    \* external: what became of the data of the last write
    down,    \* cycle_server_down
    cache,   \* _localIp and the driver's other buffers for what it was asked
    bereft,  \* history: clients whose entry of the table another object cleared
    op,      \* the call under way, and what the last one returned
    calls

shieldVars == <<state, port, sock, link, sent, down, cache, bereft, op, calls>>
tables == <<state, port, sock, down, cache, bereft>>

NoSock == 255
Socks == 0..NSocks - 1
Guest == "guest"    \* the client that available() of the server returned
Server == "server"  \* its socket here is history: a WiFiServer has only its port
Udp == "udp"
NoPort == "none"
AllOnes == "65535"

NotConnected == {Closed, Listen, SynSent, CloseWait}

NoCall == [at |-> "idle", who |-> Guest, sock |-> 0, left |-> 0, all |-> FALSE, back |-> "none"]

ShieldInit ==
    /\ state = {} /\ port = [s \in Socks |-> NoPort]
    /\ sock = [o \in Clients \union {Guest, Server, Udp} |->
                 IF o \in {Server, Udp} THEN NoSock ELSE NSocks]
    /\ link = [s \in Socks |-> Closed] /\ sent = "no" /\ down = 0
    /\ cache = <<>>
    /\ bereft = {} /\ op = NoCall /\ calls = 0

-----------------------------------------------------------------------------
Calls == op.at = "idle" /\ calls < MaxCalls /\ calls' = calls + 1
Ends(back) == op' = [NoCall EXCEPT !.back = back]
Goes(at, who, s) ==
    op' = [NoCall EXCEPT !.at = at, !.who = who, !.sock = s, !.left = Tries]

BugSpent(left) == left
Spent(left) == left - 1

\* A loop's further try, or its end with what it returns then.
Again(back) ==
    IF Spent(op.left) = 0 THEN Ends(back) ELSE op' = [op EXCEPT !.left = Spent(@)]

\* external: what a command does to a socket of the shield, if it is obeyed.
Command(obeyed, s, to) == \E yes \in obeyed : link' = IF yes THEN [link EXCEPT ![s] = to] ELSE link

NextSock == op' = [op EXCEPT !.sock = @ + 1]

-----------------------------------------------------------------------------
(* WiFi.cpp: joining, configuring, scanning.                               *)
JoinByName ==
    /\ Calls /\ \E v \in SetNetwork \union SetPassphrase \union SetKey :
           IF v = WlFailure THEN Ends("failed") ELSE Goes("joining", Guest, 0)
    /\ UNCHANGED <<tables, link, sent>>

Joining ==
    /\ op.at = "joining"
    /\ \E v \in GetConnectionStatus :
           IF v \in {0, 2} THEN Again("status") ELSE Ends("status")
    /\ UNCHANGED <<tables, link, sent, calls>>

ScanFor ==
    /\ Calls /\ \E v \in StartScanNetworks : IF v = -1 THEN Ends("failed") ELSE Goes("scanning", Guest, 0)
    /\ UNCHANGED <<tables, link, sent>>

Scanning ==
    /\ op.at = "scanning"
    /\ \E n \in ScannedNames :
           IF n = 0 THEN Again("nothing") ELSE Ends("found")
    /\ UNCHANGED <<tables, link, sent, calls>>

\* Questions and settings that are one exchange, whose failure is not told.
Ask ==
    /\ Calls /\ Ends("none")
    /\ \/ cache' \in Kept(NetworkData, cache) \union Kept(CurrentNetwork, cache)
       \/ \E v \in ConfigSent \union SetDNS \union ScannedLevel : UNCHANGED cache
       \/ LeaveNetwork # {} /\ UNCHANGED cache
    /\ UNCHANGED <<state, port, sock, down, bereft, link, sent>>

-----------------------------------------------------------------------------
(* WiFiClient.cpp: connect.  A socket is taken before it is known whether  *)
(* the connection is made, and not given back when it is not.              *)
Free == {s \in Socks : s \notin state}
Lowest(S) == CHOOSE s \in S : \A t \in S : s <= t

BugTaken(s) == state
Taken(s) == state \union {s}

StartClient(c) ==
    /\ IF Free = {} THEN /\ sock' = [sock EXCEPT ![c] = NoSock] /\ Ends("0")
                         /\ UNCHANGED <<state, link>>
       ELSE LET s == Lowest(Free)
            IN /\ sock' = [sock EXCEPT ![c] = s] /\ state' = Taken(s)
               /\ Command(StartClientTcp, s, SynSent) /\ Goes("connecting", c, s)
    /\ bereft' = bereft \ {c}
    /\ UNCHANGED <<port, down, cache, sent>>

Connect == Calls /\ \E c \in Clients : StartClient(c)

ConnectByName ==
    /\ Calls /\ \E c \in Clients, asked \in ReqHostByName :
           IF asked THEN Goes("resolving", c, 0) ELSE Ends("0")
    /\ UNCHANGED <<tables, link, sent>>

Resolving ==
    /\ op.at = "resolving" /\ UNCHANGED calls
    /\ \E a \in GetHostByName :
           IF a = NoAddress THEN Again("0") /\ UNCHANGED <<tables, link, sent>>
           ELSE StartClient(op.who)

\* connected() of a socket, by what the shield says of it.
Connected(s) == {v \notin NotConnected : v \in GetClientState[link[s]]}

\* The wait ends with a connection or after 10 s; then one more look.
Connecting ==
    /\ op.at = "connecting"
    /\ op' = [op EXCEPT !.at = "connected"]
    /\ UNCHANGED <<tables, link, sent, calls>>
LookAgain ==
    /\ op.at = "connected" /\ \E yes \in Connected(op.sock) : Ends(IF yes THEN "1" ELSE "0")
    /\ UNCHANGED <<tables, link, sent, calls>>

(* write: the shield takes the data or refuses it, and is then asked, 25   *)
(* times at most, whether the data went out.                               *)
WriteTo(s, start) ==
    \E takes \in BOOLEAN :
        /\ sent' = IF takes THEN "taken" ELSE "no"
        /\ \E accepted \in SendData[IF takes THEN 1 ELSE 0] :
               IF accepted THEN op' = [start EXCEPT !.at = "sending", !.sock = s, !.left = Tries]
               ELSE IF start.all THEN op' = [start EXCEPT !.at = "each", !.sock = s + 1]
               ELSE Ends("failed")

Write ==
    /\ Calls /\ \E c \in Clients \union {Guest} :
           IF sock[c] >= NSocks THEN Ends("failed") /\ UNCHANGED sent
           ELSE WriteTo(sock[c], NoCall)
    /\ UNCHANGED <<tables, link>>

\* One poll of checkDataSent.
Sending ==
    /\ op.at = "sending"
    /\ \E v \in DataSent[IF sent = "out" THEN 1 ELSE 0] :
           IF v # 0
           THEN IF op.all THEN op' = [op EXCEPT !.at = "each", !.sock = @ + 1] ELSE Ends("written")
           ELSE IF op.all /\ Spent(op.left) = 0 THEN op' = [op EXCEPT !.at = "each", !.sock = @ + 1]
           ELSE Again("failed")
    /\ UNCHANGED <<tables, link, sent, calls>>

(* available, read, peek, and read into a buffer.  A reply that is lost    *)
(* after available() leaves the byte that is returned as it was on the     *)
(* stack; one that is lost in a buffered read passes for success.          *)
ReadByte[n \in {0, 1}] ==
    {IF a = 0 THEN "-1" ELSE "byte" : a \in AvailData[n]}
    \union (IF n > 0 /\ Unread \in GetData[7] THEN {"stale"} ELSE {})
ReadBuffer[size \in {0, 1}] ==
    {CASE d.len = 0 -> "-1" [] d.len > 0 /\ d.read -> "bytes" [] OTHER -> "stale" :
         d \in GetDataBuf[size]}

Reads ==
    /\ Calls /\ \E c \in Clients \union {Guest} :
           IF sock[c] = NoSock THEN Ends("-1")
           ELSE \E n \in {0, 1} : \E back \in ReadByte[n] \union ReadBuffer[1] : Ends(back)
    /\ UNCHANGED <<tables, link, sent>>

(* stop: the entry of the table is cleared first.  A client that never     *)
(* connected has the number after the last: its entry is beyond the table, *)
(* and may be the first of the ports.                                      *)
Stop ==
    /\ Calls /\ \E c \in Clients \union {Guest} :
           \/ sock[c] = NoSock /\ Ends("none") /\ UNCHANGED <<state, port, link, bereft>>
           \/ /\ sock[c] \in Socks /\ state' = state \ {sock[c]}
              /\ Command(StopClient, sock[c], Closed) /\ Goes("closing", c, sock[c])
              /\ bereft' = (bereft \ {c}) \union {d \in Clients \ {c} : sock[d] = sock[c]}
              /\ UNCHANGED port
           \/ /\ sock[c] = NSocks /\ port' \in {port, [port EXCEPT ![0] = AllOnes]}
              /\ Goes("closing", c, NSocks) /\ UNCHANGED <<state, link, bereft>>
    /\ UNCHANGED <<sock, down, cache, sent>>

Closing ==
    /\ op.at = "closing"
    /\ \E v \in IF op.sock \in Socks THEN GetClientState[link[op.sock]] ELSE {Closed} :
           IF v = Closed \/ Spent(op.left) = 0
           THEN Ends("none") /\ sock' = [sock EXCEPT ![op.who] = NoSock]
           ELSE Again("none") /\ UNCHANGED sock
    /\ UNCHANGED <<state, port, down, cache, bereft, link, sent, calls>>

-----------------------------------------------------------------------------
(* WiFiServer.cpp.  A server takes a socket without a port, whether a      *)
(* client holds it or not (getSocket).                                     *)
Portless == {s \in Socks : port[s] = NoPort}

ServerBegin ==
    /\ Calls /\ Ends("none")
    /\ IF Portless = {} THEN UNCHANGED <<state, port, sock, link>>
       ELSE LET s == Lowest(Portless)
            IN /\ port' = [port EXCEPT ![s] = Server] /\ state' = state \union {s}
               /\ sock' = [sock EXCEPT ![Server] = s] /\ Command(StartServer, s, Listen)
    /\ UNCHANGED <<down, cache, bereft, sent>>

ServerAvailable ==
    Calls /\ Goes("available", Server, 0) /\ UNCHANGED <<tables, link, sent>>

(* One socket of available(): the state of the server is always that of    *)
(* socket 0; a server found down more than 50 times is started again.      *)
Available ==
    /\ op.at = "available" /\ UNCHANGED <<state, port, cache, bereft, sent, calls>>
    /\ \/ /\ op.sock = NSocks /\ Ends("none")
          /\ sock' = [sock EXCEPT ![Guest] = NoSock] /\ UNCHANGED <<down, link>>
       \/ /\ op.sock \in Socks /\ port[op.sock] # Server
          /\ NextSock /\ UNCHANGED <<sock, down, link>>
       \/ /\ op.sock \in Socks /\ port[op.sock] = Server
          /\ \E v \in GetClientState[link[op.sock]], w \in GetServerState[link[0]] :
                 /\ IF v = Established THEN Ends("guest") /\ sock' = [sock EXCEPT ![Guest] = op.sock]
                    ELSE NextSock /\ UNCHANGED sock
                 /\ IF w = Closed /\ down > DownCycles THEN down' = 0 /\ Command(StartServer, op.sock, Listen)
                    ELSE down' = (IF w = Closed THEN down + 1 ELSE down) /\ UNCHANGED link

ServerWrite ==
    /\ Calls /\ op' = [NoCall EXCEPT !.at = "each", !.who = Server, !.all = TRUE]
    /\ UNCHANGED <<tables, link, sent>>

\* One socket of the server's write, to every client that is connected.
Each ==
    /\ op.at = "each" /\ UNCHANGED <<tables, link, calls>>
    /\ \/ op.sock = NSocks /\ Ends("count") /\ UNCHANGED sent
       \/ op.sock \in Socks /\ port[op.sock] # Server /\ NextSock /\ UNCHANGED sent
       \/ /\ op.sock \in Socks /\ port[op.sock] = Server
          /\ \E v \in GetClientState[link[op.sock]] :
                 IF v = Established THEN WriteTo(op.sock, op) ELSE NextSock /\ UNCHANGED sent

-----------------------------------------------------------------------------
(* WiFiUdp.cpp.  stop gives back neither the port nor the socket.          *)
UdpBegin ==
    /\ Calls /\ IF Portless = {} THEN Ends("0") /\ UNCHANGED <<port, sock>>
                ELSE LET s == Lowest(Portless)
                     IN /\ port' = [port EXCEPT ![s] = Udp]
                        /\ sock' = [sock EXCEPT ![Udp] = s] /\ Ends("1")
    /\ UNCHANGED <<state, down, cache, bereft, link, sent>>

BeginPacket ==
    /\ Calls
    /\ LET s == IF sock[Udp] # NoSock \/ Portless = {} THEN sock[Udp] ELSE Lowest(Portless)
       IN /\ sock' = [sock EXCEPT ![Udp] = s]
          /\ IF s = NoSock THEN Ends("0") /\ UNCHANGED state
             ELSE Ends("1") /\ state' = state \union {s}
    /\ UNCHANGED <<port, down, cache, bereft, link, sent>>

\* write counts every byte, inserted or not; endPacket tells.
UdpTransfer ==
    /\ Calls
    /\ \/ \E taken \in InsertDataBuf[1] : Ends("size")
       \/ \E yes \in SendUdpData[1] : Ends(IF yes THEN "1" ELSE "0")
       \/ sock[Udp] = NoSock /\ Ends("-1")
       \/ \E n \in {0, 1} : \E back \in ReadByte[n] \union ReadBuffer[0] :
              sock[Udp] # NoSock /\ Ends(back)
       \/ RemoteData # {} /\ Ends("address")
    /\ UNCHANGED <<tables, link, sent>>

UdpStop ==
    /\ Calls /\ Ends("none") /\ sock' = [sock EXCEPT ![Udp] = NoSock]
    /\ UNCHANGED <<state, port, down, cache, bereft, link, sent>>

-----------------------------------------------------------------------------
(* external: the shield's connections, and the data it has taken.          *)
LinkTurns(v) ==
    CASE v = SynSent -> {Established, Closed} [] v = Listen -> {Established}
      [] v = Established -> {CloseWait, Closed, Listen} [] OTHER -> {Closed}
ShieldTurns ==
    /\ \/ \E s \in Socks : /\ link[s] # Closed /\ UNCHANGED sent
                           /\ \E v \in LinkTurns(link[s]) : link' = [link EXCEPT ![s] = v]
       \/ sent = "taken" /\ sent' = "out" /\ UNCHANGED link
    /\ UNCHANGED <<tables, op, calls>>

Steps ==
    \/ Joining \/ Scanning \/ Resolving \/ Connecting \/ LookAgain \/ Sending
    \/ Closing \/ Available \/ Each

ShieldNext ==
    \/ JoinByName \/ ScanFor \/ Ask \/ Connect \/ ConnectByName \/ Write \/ Reads \/ Stop
    \/ ServerBegin \/ ServerAvailable \/ ServerWrite
    \/ UdpBegin \/ BeginPacket \/ UdpTransfer \/ UdpStop
    \/ Steps \/ ShieldTurns

ShieldSpec == ShieldInit /\ [][ShieldNext]_shieldVars /\ WF_shieldVars(Steps)

-----------------------------------------------------------------------------
(* A write of a client that returns its length is one that the shield has  *)
(* taken and sent, whatever replies were lost in its two exchanges and in  *)
(* the polls between them.                                                 *)
WrittenWasSent == op.at = "idle" /\ op.back = "written" => sent = "out"

(* Two clients come to hold one socket in one way only: another object     *)
(* cleared the entry of one of them while it held it.  The first to do so  *)
(* is always the client that available() of the server returned, which has *)
(* its number from the ports and not from the table.  Connections that are *)
(* refused, time out or are made again, and a server or a UDP socket that  *)
(* takes the socket of a client, never lead there by themselves.           *)
ClientsApart ==
    \A c, d \in Clients :
        c # d /\ sock[c] \in Socks /\ sock[c] = sock[d] => c \in bereft \/ d \in bereft

(* A call returns in the end, if the shield is ever ready again.           *)
ShieldCallsReturn == op.at # "idle" ~> op.at = "idle"
=============================================================================
