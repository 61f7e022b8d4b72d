----------------------------- MODULE UdpContext -----------------------------
(***************************************************************************)
(* WiFiUDP and the contexts behind it (ESP8266WiFi/src: WiFiUdp.cpp,       *)
(* include/UdpContext.h).  Packets that arrive while one is being read are *)
(* chained behind it; in front of each of those goes a helper buffer with  *)
(* the addresses of its sender.  lwIP calls _recv between two calls of the *)
(* sketch.  A packet, its sender and its bytes are named by a number and   *)
(* the packet's length.                                                    *)
(***************************************************************************)
EXTENDS Integers, Sequences, FiniteSetsExt, PbufChain

CONSTANTS
    Sockets,     \* the WiFiUDP objects
    UdpContexts, \* bound: contexts on the heap
    NoSocket,    \* a null _ctx
    MaxDepth,    \* rxBufMaxDepth
    Shapes,      \* bound: packets that arrive, the lengths of their buffers
    MaxPackets,  \* bound: how many of them
    Unit,        \* pbuf_unit_size
    MaxOut,      \* bound: bytes written to a packet
    MaxRefs      \* bound: references to a context

ASSUME UdpAssumption ==
    /\ MaxDepth \in Nat \ {0} /\ Unit \in Nat \ {0} /\ MaxPackets \in Nat
    /\ MaxOut \in Nat /\ MaxRefs \in Nat \ {0}
    /\ \A shape \in Shapes : shape \in Seq(Nat) /\ shape # <<>>

VARIABLES
    udp,       \* the contexts
    socket,    \* _ctx of every WiFiUDP
    arrived    \* history: how many packets there have been

udpVars == <<udp, socket, arrived>>

NoPacket == [taken |-> FALSE, offset |-> 0, size |-> 0, from |-> <<0, 0>>]
Gone == [live |-> FALSE, refs |-> 0, bound |-> FALSE, rx |-> <<>>, cur |-> NoPacket,
         room |-> 0, out |-> 0, read |-> <<>>]
NewUdp == [Gone EXCEPT !.live = TRUE, !.refs = 1]

\* the heap gives the same context whenever it can
FreeIn(xs) == IF \E c \in UdpContexts : ~xs[c].live THEN CHOOSE c \in UdpContexts : ~xs[c].live
              ELSE NoSocket

UdpInit ==
    /\ udp = [c \in UdpContexts |-> Gone]
    /\ socket = [u \in Sockets |-> NoSocket]
    /\ arrived = 0

-----------------------------------------------------------------------------
(* _rx_buf: a chain of buffers, each a helper or a piece of a packet: of   *)
(* which one, the number of its first byte, and how many bytes it holds.   *)
Helper(p) == [helper |-> TRUE, of |-> p, first |-> 0, len |-> 1]
Packet(p, shape) ==
    [i \in DOMAIN shape |->
        [helper |-> FALSE, of |-> p, first |-> Ends(shape)[i - 1] + 1, len |-> shape[i]]]
Lengths(chain) == [i \in DOMAIN chain |-> chain[i].len]

\* pbuf_get_at, and the bytes after the first m up to the nth
ByteAt(chain, k) ==
    LET ends == Ends(Lengths(chain))
        i == CHOOSE i \in DOMAIN chain : ends[i - 1] < k /\ k <= ends[i]
    IN  <<chain[i].of, chain[i].first + (k - ends[i - 1]) - 1>>
BytesOf(chain, m, n) == [k \in 1..(n - m) |-> ByteAt(chain, m + k)]

\* how many buffers come before the next helper
ToHelper(chain) ==
    LET helpers == {i \in DOMAIN chain : chain[i].helper}
    IN  IF helpers = {} THEN Len(chain) ELSE Min(helpers) - 1

BugProcessSize(chain) == TotalLength(Lengths(chain))
ProcessSize(chain) == Ends(Lengths(chain))[ToHelper(chain)]

\* getSize: of the packet that came first it tells before parsePacket, too
UdpSize(c) == IF udp[c].rx = <<>> THEN 0 ELSE udp[c].cur.size - udp[c].cur.offset

(* next: a packet that came to an empty chain is taken as it is; otherwise *)
(* the one read so far goes, and the addresses of the next are copied out  *)
(* of its helper.                                                          *)
NextPacket(x) ==
    LET k == ToHelper(x.rx)
        rest == SubSeq(x.rx, k + 2, Len(x.rx))
        from == IF k < Len(x.rx) THEN x.rx[k + 1].of ELSE x.cur.from
    IN  IF x.rx = <<>> THEN x
        ELSE IF ~x.cur.taken THEN [x EXCEPT !.cur.taken = TRUE]
        ELSE [x EXCEPT !.rx = rest, !.read = <<>>,
                       !.cur = [@ EXCEPT !.offset = 0, !.size = ProcessSize(rest), !.from = from]]

(* _recv: a chain that is too deep drops the packet, so does a helper that *)
(* cannot be allocated.                                                    *)
OnPacket(c, shape) ==
    LET len == TotalLength(shape)
        p == <<arrived + 1, len>>
        x == udp[c]
    IN  /\ x.bound /\ arrived < MaxPackets /\ arrived' = arrived + 1
        /\ udp' = [udp EXCEPT ![c] =
               IF x.rx = <<>>
               THEN [x EXCEPT !.rx = Packet(p, shape), !.read = <<>>,
                              !.cur = [taken |-> FALSE, offset |-> 0, size |-> len, from |-> p]]
               ELSE IF Len(x.rx) >= MaxDepth * 2 THEN x
               ELSE [x EXCEPT !.rx = @ \o <<Helper(p)>> \o Packet(p, shape)]]
        /\ UNCHANGED socket

NoHelper(c) ==
    /\ udp[c].bound /\ udp[c].rx # <<>> /\ arrived < MaxPackets
    /\ arrived' = arrived + 1
    /\ UNCHANGED <<udp, socket>>

-----------------------------------------------------------------------------
(* WiFiUDP.  The last reference takes its context along, what it had not   *)
(* read and not sent too.                                                  *)
UnrefUdp(xs, c) ==
    IF c = NoSocket THEN xs
    ELSE IF xs[c].refs = 1 THEN [xs EXCEPT ![c] = Gone] ELSE [xs EXCEPT ![c].refs = @ - 1]
RefUdp(xs, c) == IF c = NoSocket THEN xs ELSE [xs EXCEPT ![c].refs = @ + 1]

(* begin, beginMulticast: a new context; the port may be taken, and then   *)
(* the context stays without one.                                          *)
UdpBegin(u) ==
    LET left == UnrefUdp(udp, socket[u])
        c == FreeIn(left)
    IN  /\ c # NoSocket
        /\ \E bound \in BOOLEAN : udp' = [left EXCEPT ![c] = [NewUdp EXCEPT !.bound = bound]]
        /\ socket' = [socket EXCEPT ![u] = c]
        /\ UNCHANGED arrived

\* beginMulticast: the group cannot be joined
UdpJoinFails(u) ==
    /\ socket[u] # NoSocket
    /\ udp' = UnrefUdp(udp, socket[u]) /\ socket' = [socket EXCEPT ![u] = NoSocket]
    /\ UNCHANGED arrived

(* operator=: the context held before is not given back; if nobody else    *)
(* holds it, it stays for ever and goes on receiving.  (An object assigned *)
(* to itself would count its context twice; here no caller does that.)     *)
UdpAssign(u, v) ==
    /\ u # v
    /\ udp' = RefUdp(udp, socket[v])
    /\ socket[v] # NoSocket => udp[socket[v]].refs < MaxRefs
    /\ socket' = [socket EXCEPT ![u] = socket[v]]
    /\ UNCHANGED arrived

UdpParse(u) ==
    /\ socket[u] # NoSocket
    /\ udp' = [udp EXCEPT ![socket[u]] = NextPacket(@)]
    /\ UNCHANGED <<socket, arrived>>

(* read: no more than is left of the packet, whatever was asked for.       *)
UdpRead(u, size) ==
    LET c == socket[u]
        cur == udp[c].cur
        n == IF size < UdpSize(c) THEN size ELSE UdpSize(c)
    IN  /\ c # NoSocket /\ udp[c].rx # <<>> /\ n > 0
        /\ udp' = [udp EXCEPT ![c].cur.offset = @ + n,
                              ![c].read = @ \o BytesOf(udp[c].rx, cur.offset, cur.offset + n)]
        /\ UNCHANGED <<socket, arrived>>

\* beginPacket makes a context if there is none, without a port to listen on
BeginPacket(u) ==
    /\ socket[u] = NoSocket
    /\ LET c == FreeIn(udp)
       IN  /\ c # NoSocket
           /\ udp' = [udp EXCEPT ![c] = NewUdp] /\ socket' = [socket EXCEPT ![u] = c]
    /\ UNCHANGED arrived

(* append: _reserve adds units until they are enough or one cannot be had; *)
(* without room for all of it nothing is written.                          *)
UdpWrite(u) ==
    LET c == socket[u]  wanted == udp[c].out + 1
    IN  /\ c # NoSocket /\ wanted <= MaxOut
        /\ \/ /\ udp[c].room >= wanted /\ udp' = [udp EXCEPT ![c].out = wanted]
           \/ /\ udp[c].room < wanted
              /\ udp' = [udp EXCEPT ![c].room = @ + Unit, ![c].out = wanted]
           \/ udp[c].room < wanted /\ UNCHANGED udp
        /\ UNCHANGED <<socket, arrived>>

\* endPacket, flush: sent or lost, the buffer is gone
EndPacket(u) ==
    /\ socket[u] # NoSocket
    /\ udp' = [udp EXCEPT ![socket[u]].room = 0, ![socket[u]].out = 0]
    /\ UNCHANGED <<socket, arrived>>

(* stop: disconnect is for sending only.  stopAll stops every object,      *)
(* stopAllExcept spares those that share the context; each of the others   *)
(* gives back one reference.                                               *)
UdpStop(u) == UdpJoinFails(u)

UnrefBy(objects) ==
    [c \in UdpContexts |->
        LET given == Cardinality({u \in objects : socket[u] = c})
        IN  IF given > 0 /\ given = udp[c].refs THEN Gone ELSE [udp[c] EXCEPT !.refs = @ - given]]

UdpStopAll ==
    /\ udp' = UnrefBy(Sockets)
    /\ socket' = [u \in Sockets |-> NoSocket]
    /\ UNCHANGED arrived

UdpStopAllExcept(v) ==
    LET others == {u \in Sockets : socket[u] # socket[v]}
    IN  /\ udp' = UnrefBy(others)
        /\ socket' = [u \in Sockets |-> IF u \in others THEN NoSocket ELSE socket[u]]
        /\ UNCHANGED arrived

-----------------------------------------------------------------------------
UdpNext ==
    \/ \E u \in Sockets :
          \/ UdpBegin(u) \/ UdpJoinFails(u) \/ UdpParse(u) \/ BeginPacket(u)
          \/ UdpWrite(u) \/ EndPacket(u) \/ UdpStop(u) \/ UdpStopAllExcept(u)
          \/ \E size \in 1..2 : UdpRead(u, size)
          \/ \E v \in Sockets : UdpAssign(u, v)
    \/ UdpStopAll
    \/ \E c \in UdpContexts : NoHelper(c) \/ \E shape \in Shapes : OnPacket(c, shape)

UdpSpec == UdpInit /\ [][UdpNext]_udpVars

-----------------------------------------------------------------------------
(* Packets stay apart: what was read of the packet at the head of the      *)
(* chain and what is still to be read of it are, together and in order,    *)
(* the bytes of the one packet whose sender remoteIP reports, whatever     *)
(* arrived behind it meanwhile, in however many buffers.                   *)
PacketsApart ==
    \A c \in UdpContexts : LET x == udp[c] IN
        x.rx # <<>> =>
            x.read \o BytesOf(x.rx, x.cur.offset, x.cur.size)
                = [k \in 1..x.cur.from[2] |-> <<x.cur.from, k>>]
=============================================================================
