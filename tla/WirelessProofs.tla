---------------------------- MODULE WirelessProofs ----------------------------
(***************************************************************************)
(* Theorems about the sketches that drive a radio, for any networks,       *)
(* clients, sockets and tries, whatever replies are lost, and for a list   *)
(* of networks of any length.                                              *)
(***************************************************************************)
EXTENDS Wireless, SequenceTheorems, WellFoundedInduction, TLAPS

(* A nonempty set of naturals has a least member, which Min chooses.       *)
LEMMA LeastIn ==
    ASSUME NEW S, S \subseteq Nat, S # {}
    PROVE  Min(S) \in S /\ \A t \in S : Min(S) <= t
<1>1. \E s \in S : \A t \in S : ~ (<<t, s>> \in OpToRel(<, Nat))
  BY NatLessThanWellFounded, WFMin
<1>2. PICK s \in S : \A t \in S : ~ (<<t, s>> \in OpToRel(<, Nat))
  BY <1>1
<1>3. \A t \in S : s <= t
  <2> TAKE t \in S
  <2>1. s \in Nat /\ t \in Nat /\ <<t, s>> \in Nat \X Nat
    OBVIOUS
  <2>2. ~ (t < s)
    BY <1>2, <2>1 DEF OpToRel
  <2> QED
    BY <2>1, <2>2
<1> QED
  BY <1>3 DEF Min

-----------------------------------------------------------------------------
(* The sockets of the shield.                                              *)
Objects == Clients \union {Guest, Server, Udp}

(* The call under way has its fields, a name is looked up for a client,    *)
(* and every object has a socket number.                                   *)
CallShape ==
    /\ op = [at |-> op.at, who |-> op.who, sock |-> op.sock, left |-> op.left,
             all |-> op.all, back |-> op.back]
    /\ op.at = "resolving" => op.who \in Clients

ShieldShape == CallShape /\ DOMAIN sock = Objects

(* A socket that a client holds is taken, but for the one it is closing,   *)
(* and no other call is made until that is over.  Of a client whose entry  *)
(* another object cleared nothing is known.                                *)
Held(c) == sock[c] \in state \/ (op.at = "closing" /\ op.who = c)

HeldApart ==
    \A c \in Clients : c \notin bereft /\ sock[c] \in Socks =>
        /\ Held(c)
        /\ \A d \in Clients : d # c /\ d \notin bereft => sock[d] # sock[c]

ShieldInv == ShieldShape /\ HeldApart

(* Among some numbers of sockets one is the lowest.                        *)
LEMMA LowestIn == ASSUME NEW S, S \subseteq Nat, S # {} PROVE Lowest(S) \in S
  BY LeastIn DEF Lowest

(* What the operators that set the call under way make of it.              *)
LEMMA EndsShape == ASSUME NEW back, Ends(back) PROVE CallShape'
  BY DEF Ends, NoCall, CallShape

LEMMA GoesShape == ASSUME NEW at, NEW who, NEW s, Goes(at, who, s),
                          at = "resolving" => who \in Clients
                   PROVE CallShape' /\ op'.at = at /\ op'.who = who
  BY DEF Goes, NoCall, CallShape

LEMMA AgainShape ==
    ASSUME CallShape, NEW back, Again(back)
    PROVE  CallShape' /\ ((op'.who = op.who /\ op'.at = op.at) \/ Ends(back))
  BY EndsShape DEF Again, CallShape

(* A step outside stop() that takes nothing away from the table and leaves *)
(* the clients' sockets alone.                                             *)
LEMMA OthersKeep ==
    ASSUME ShieldInv, op.at # "closing", CallShape', state \subseteq state',
           DOMAIN sock' = Objects, \A c \in Clients : sock'[c] = sock[c],
           bereft' = bereft
    PROVE  ShieldInv'
  BY DEF ShieldInv, ShieldShape, HeldApart, Held

(* The same for a step that changes no table at all.                       *)
LEMMA TablesKeep ==
    ASSUME ShieldInv, op.at # "closing", CallShape', UNCHANGED tables
    PROVE  ShieldInv'
  BY OthersKeep DEF ShieldInv, ShieldShape, tables

(* Writing to a socket changes the call under way only.                    *)
LEMMA WriteShape ==
    ASSUME NEW s, NEW start,
           start = [at |-> start.at, who |-> start.who, sock |-> start.sock,
                    left |-> start.left, all |-> start.all, back |-> start.back],
           start.at # "resolving",
           WriteTo(s, start)
    PROVE  CallShape'
  BY EndsShape DEF WriteTo, CallShape

(* Calls and steps that change no table.                                   *)
LEMMA AskingKeeps ==
    ASSUME ShieldInv, JoinByName \/ Joining \/ ScanFor \/ Scanning \/ Ask
    PROVE  ShieldInv'
<1> USE EndsShape, GoesShape, AgainShape DEF ShieldInv, ShieldShape
<1>1. CASE JoinByName
  <2>1. op.at # "closing" /\ UNCHANGED tables
    BY <1>1 DEF JoinByName, Calls
  <2> QED
    BY <1>1, <2>1, TablesKeep DEF JoinByName
<1>2. CASE Joining
  BY <1>2, TablesKeep DEF Joining
<1>3. CASE ScanFor
  BY <1>3, TablesKeep DEF ScanFor, Calls
<1>4. CASE Scanning
  BY <1>4, TablesKeep DEF Scanning
<1>5. CASE Ask
  BY <1>5, OthersKeep DEF Ask, Calls
<1> QED
  BY <1>1, <1>2, <1>3, <1>4, <1>5

LEMMA WritingKeeps ==
    ASSUME ShieldInv,
           \/ Connecting \/ LookAgain \/ Write \/ Sending \/ Reads
           \/ ServerAvailable \/ ServerWrite \/ Each
    PROVE  ShieldInv'
<1> USE EndsShape, GoesShape, AgainShape DEF ShieldInv, ShieldShape
<1>1. CASE Connecting
  BY <1>1, TablesKeep DEF Connecting, CallShape
<1>2. CASE LookAgain
  BY <1>2, TablesKeep DEF LookAgain
<1>3. CASE Write
  <2>1. CallShape'
    <3>1. NoCall.at # "resolving" /\ NoCall = [at |-> NoCall.at, who |-> NoCall.who, sock |-> NoCall.sock,
                    left |-> NoCall.left, all |-> NoCall.all, back |-> NoCall.back]
      BY DEF NoCall
    <3> QED
      BY <1>3, <3>1, WriteShape DEF Write
  <2> QED
    BY <1>3, <2>1, TablesKeep DEF Write, Calls
<1>4. CASE Sending
  <2>1. CallShape'
    BY <1>4 DEF Sending, CallShape
  <2> QED
    BY <1>4, <2>1, TablesKeep DEF Sending
<1>5. CASE Reads
  BY <1>5, TablesKeep DEF Reads, Calls
<1>6. CASE ServerAvailable
  BY <1>6, TablesKeep DEF ServerAvailable, Calls
<1>7. CASE ServerWrite
  BY <1>7, TablesKeep DEF ServerWrite, Calls, CallShape, NoCall
<1>8. CASE Each
  <2>1. CallShape'
    BY <1>8, WriteShape DEF Each, NextSock, CallShape
  <2> QED
    BY <1>8, <2>1, TablesKeep DEF Each
<1> QED
  BY <1>1, <1>2, <1>3, <1>4, <1>5, <1>6, <1>7, <1>8

(* Setting the socket of another object leaves those of the clients alone. *)
LEMMA OtherSets ==
    ASSUME NEW o \in {Guest, Server, Udp}, NEW s, DOMAIN sock = Objects,
           sock' = sock \/ sock' = [sock EXCEPT ![o] = s]
    PROVE  DOMAIN sock' = Objects /\ \A c \in Clients : sock'[c] = sock[c]
<1>1. o \notin Clients
  BY ShieldAssumption DEF Guest, Server, Udp
<1> QED
  BY <1>1 DEF Objects

(* The objects that are no clients hold their sockets apart from them.     *)
LEMMA ServersKeep ==
    ASSUME ShieldInv,
           \/ ServerBegin \/ Available \/ UdpBegin \/ BeginPacket
           \/ UdpTransfer \/ UdpStop
    PROVE  ShieldInv'
<1> USE EndsShape, GoesShape DEF ShieldInv, ShieldShape
<1>1. CASE ServerBegin
  <2>1. \E s : sock' = sock \/ sock' = [sock EXCEPT ![Server] = s]
    BY <1>1 DEF ServerBegin
  <2>2. /\ op.at # "closing" /\ CallShape' /\ bereft' = bereft
        /\ state \subseteq state'
    BY <1>1 DEF ServerBegin, Calls
  <2> QED
    BY <2>1, <2>2, OtherSets, OthersKeep
<1>2. CASE Available
  <2>1. op' = [op EXCEPT !.sock = @ + 1] => CallShape'
    BY <1>2 DEF Available, CallShape
  <2>2. op.at # "closing" /\ UNCHANGED <<state, bereft>> /\ CallShape'
    BY <1>2, <2>1 DEF Available, NextSock
  <2>3. \E s : sock' = sock \/ sock' = [sock EXCEPT ![Guest] = s]
    BY <1>2 DEF Available
  <2> QED
    BY <2>2, <2>3, OtherSets, OthersKeep
<1>3. CASE UdpBegin
  <2>1. \E s : sock' = sock \/ sock' = [sock EXCEPT ![Udp] = s]
    BY <1>3 DEF UdpBegin
  <2>2. /\ op.at # "closing" /\ CallShape' /\ UNCHANGED <<state, bereft>>
    BY <1>3 DEF UdpBegin, Calls
  <2> QED
    BY <2>1, <2>2, OtherSets, OthersKeep
<1>4. CASE BeginPacket
  <2>1. \E s : sock' = [sock EXCEPT ![Udp] = s]
    BY <1>4 DEF BeginPacket
  <2>2. /\ op.at # "closing" /\ CallShape' /\ bereft' = bereft
        /\ state \subseteq state'
    BY <1>4 DEF BeginPacket, Calls
  <2> QED
    BY <2>1, <2>2, OtherSets, OthersKeep
<1>5. CASE UdpTransfer
  BY <1>5, TablesKeep DEF UdpTransfer, Calls
<1>6. CASE UdpStop
  BY <1>6, OtherSets, OthersKeep DEF UdpStop, Calls
<1> QED
  BY <1>1, <1>2, <1>3, <1>4, <1>5, <1>6

(* A client takes a socket that no entry of the table is set for, while    *)
(* the others' sockets are in the table.                                   *)
LEMMA TakingKeeps ==
    ASSUME ShieldInv, op.at # "closing", NEW c \in Clients, StartClient(c)
    PROVE  ShieldInv'
<1> USE DEF ShieldInv, ShieldShape
<1>1. CASE Free = {}
  <2>1. CallShape' /\ sock' = [sock EXCEPT ![c] = NoSock]
        /\ state' = state /\ bereft' = bereft \ {c}
    BY <1>1, EndsShape DEF StartClient
  <2>2. NoSock \notin Socks
    BY ShieldAssumption DEF NoSock, Socks
  <2> QED
    BY <2>1, <2>2 DEF Objects, HeldApart, Held
<1>2. CASE Free # {}
  <2> DEFINE s == Lowest(Free)
  <2>1. s \in Socks /\ s \notin state
    BY <1>2, LowestIn, ShieldAssumption DEF Free, Socks
  <2>2. /\ CallShape' /\ sock' = [sock EXCEPT ![c] = s]
        /\ state' = state \union {s} /\ bereft' = bereft \ {c}
    BY <1>2, GoesShape DEF StartClient, Taken
  <2> HIDE DEF s
  <2>3. /\ DOMAIN sock' = Objects
        /\ \A d \in Clients : sock'[d] = IF d = c THEN s ELSE sock[d]
    BY <2>2 DEF Objects
  <2>4. \A d \in Clients : d # c /\ d \notin bereft /\ sock[d] \in Socks => sock[d] \in state
    BY DEF HeldApart, Held
  <2>5. ASSUME NEW d \in Clients, d \notin bereft', sock'[d] \in Socks
        PROVE  sock'[d] \in state' /\ \A e \in Clients : e # d /\ e \notin bereft' => sock'[e] # sock'[d]
    <3>1. sock'[d] \in state'
      BY <2>2, <2>3, <2>4, <2>5
    <3>2. ASSUME NEW e \in Clients, e # d, e \notin bereft' PROVE sock'[e] # sock'[d]
      BY <2>1, <2>2, <2>3, <2>4, <2>5, <3>2 DEF HeldApart
    <3> QED
      BY <3>1, <3>2
  <2>6. HeldApart'
    BY <2>5 DEF HeldApart, Held
  <2> QED
    BY <2>2, <2>3, <2>6
<1> QED
  BY <1>1, <1>2

(* A connection begins at once or when the name has been looked up.        *)
LEMMA ConnectingKeeps ==
    ASSUME ShieldInv, Connect \/ ConnectByName \/ Resolving PROVE ShieldInv'
<1> USE DEF ShieldInv, ShieldShape
<1>1. CASE Connect
  BY <1>1, TakingKeeps DEF Connect, Calls
<1>2. CASE ConnectByName
  BY <1>2, TablesKeep, EndsShape, GoesShape DEF ConnectByName, Calls
<1>3. CASE Resolving
  <2>1. PICK a \in GetHostByName :
           IF a = NoAddress THEN Again("0") /\ UNCHANGED <<tables, link, sent>>
           ELSE StartClient(op.who)
    BY <1>3 DEF Resolving
  <2>2. CASE a = NoAddress
    BY <1>3, <2>1, <2>2, AgainShape, TablesKeep DEF Resolving
  <2>3. CASE a # NoAddress
    <3>1. op.at # "closing" /\ op.who \in Clients /\ StartClient(op.who)
      BY <1>3, <2>1, <2>3 DEF Resolving, CallShape
    <3> QED
      BY <3>1, TakingKeeps
  <2> QED
    BY <2>2, <2>3
<1> QED
  BY <1>1, <1>2, <1>3

(* stop() clears the entry of its socket, and who else holds the socket is *)
(* bereft of its own; the number goes when the call ends.                  *)
LEMMA StoppingKeeps == ASSUME ShieldInv, Stop \/ Closing PROVE ShieldInv'
<1> USE DEF ShieldInv, ShieldShape
<1>1. CASE Stop
  <2>1. PICK c \in Clients \union {Guest} :
           \/ Ends("none") /\ UNCHANGED <<state, bereft>>
           \/ /\ sock[c] \in Socks /\ state' = state \ {sock[c]} /\ Goes("closing", c, sock[c])
              /\ bereft' = (bereft \ {c}) \union {d \in Clients \ {c} : sock[d] = sock[c]}
           \/ Goes("closing", c, NSocks) /\ UNCHANGED <<state, bereft>>
    BY <1>1 DEF Stop
  <2>2. op.at = "idle" /\ sock' = sock
    BY <1>1 DEF Stop, Calls
  <2>3. CASE Ends("none") /\ UNCHANGED <<state, bereft>>
    BY <2>2, <2>3, EndsShape, OthersKeep
  <2>4. CASE /\ sock[c] \in Socks /\ state' = state \ {sock[c]} /\ Goes("closing", c, sock[c])
             /\ bereft' = (bereft \ {c}) \union {d \in Clients \ {c} : sock[d] = sock[c]}
    <3>1. CallShape' /\ op'.at = "closing" /\ op'.who = c
      BY <2>4, GoesShape
    <3>2. \A d \in Clients : d # c /\ d \notin bereft' => d \notin bereft /\ sock[d] # sock[c]
      BY <2>4
    <3>3. HeldApart'
      BY <2>2, <2>4, <3>1, <3>2 DEF HeldApart, Held
    <3> QED
      BY <2>2, <3>1, <3>2, <3>3
  <2>5. CASE Goes("closing", c, NSocks) /\ UNCHANGED <<state, bereft>>
    BY <2>2, <2>5, GoesShape DEF HeldApart, Held
  <2> QED
    BY <2>1, <2>3, <2>4, <2>5
<1>2. CASE Closing
  <2>1. UNCHANGED <<state, bereft>> /\ op.at = "closing"
    BY <1>2 DEF Closing
  <2>2. CASE Ends("none") /\ sock' = [sock EXCEPT ![op.who] = NoSock]
    <3>1. NoSock \notin Socks
      BY ShieldAssumption DEF NoSock, Socks
    <3>2. DOMAIN sock' = Objects
          /\ \A c \in Clients : sock'[c] = IF c = op.who THEN NoSock ELSE sock[c]
      BY <2>2 DEF Objects
    <3>3. HeldApart'
      BY <2>1, <3>1, <3>2 DEF HeldApart, Held
    <3> QED
      BY <2>1, <2>2, <3>2, <3>3, EndsShape
  <2>3. CASE op' = [op EXCEPT !.left = Spent(@)] /\ UNCHANGED sock
    <3>1. CallShape' /\ op'.at = op.at /\ op'.who = op.who
      BY <2>3 DEF CallShape
    <3> QED
      BY <2>1, <2>3, <3>1 DEF HeldApart, Held
  <2> QED
    BY <1>2, <2>2, <2>3 DEF Closing, Again
<1> QED
  BY <1>1, <1>2

(* The shield's own steps touch neither table.                             *)
LEMMA ShieldKeeps == ShieldInv /\ (ShieldTurns \/ UNCHANGED shieldVars) => ShieldInv'
  BY DEF ShieldTurns, shieldVars, tables, ShieldInv, ShieldShape, CallShape, HeldApart, Held

(* Initially every number is out of range or none, and nothing is held.    *)
LEMMA ShieldInitial == ShieldInit => ShieldInv
<1> SUFFICES ASSUME ShieldInit PROVE ShieldInv
  OBVIOUS
<1>1. CallShape
  BY DEF ShieldInit, NoCall, CallShape
<1>2. {Server, Udp} \intersect Clients = {}
  BY ShieldAssumption DEF Server, Udp
<1>3. DOMAIN sock = Objects /\ \A c \in Clients : sock[c] = NSocks
  BY <1>2 DEF ShieldInit, Objects
<1>4. NSocks \notin Socks
  BY ShieldAssumption DEF Socks
<1> QED
  BY <1>1, <1>3, <1>4 DEF ShieldInit, ShieldInv, ShieldShape, HeldApart

(* Every step keeps the invariant.                                         *)
LEMMA ShieldInvKept == ShieldInv /\ [ShieldNext]_shieldVars => ShieldInv'
  BY AskingKeeps, WritingKeeps, ServersKeep, ConnectingKeeps, StoppingKeeps, ShieldKeeps
     DEF ShieldNext, Steps

(* Of two clients that hold one socket another object cleared the entry of *)
(* one, for any number of clients, sockets and tries and whatever the      *)
(* shield answers: nothing else makes two clients share.                   *)
THEOREM ClientsApartHolds == ShieldSpec => []ClientsApart
<1>1. ShieldInv => ClientsApart
  BY DEF ShieldInv, HeldApart, ClientsApart
<1> QED
  BY ShieldInitial, ShieldInvKept, <1>1, PTL DEF ShieldSpec

-----------------------------------------------------------------------------
(* The flattening of a single sequence is that sequence.                   *)
LEMMA FlattenOne == ASSUME NEW s PROVE FlattenSeq(<<s>>) = s
<1> DEFINE q == <<s>>
           flat(f) == f = [i \in 1..Len(q) |-> IF i = 1 THEN q[i] ELSE f[i - 1] \o q[i]]
<1>1. Len(q) = 1 /\ q[1] = s
  OBVIOUS
<1>2. FlattenSeq(q) = (CHOOSE f : flat(f))[Len(q)]
  BY <1>1 DEF FlattenSeq
<1> HIDE DEF q
<1>3. flat([i \in 1..Len(q) |-> s])
  BY <1>1
<1>4. flat(CHOOSE f : flat(f))
  BY <1>3
<1> DEFINE f == CHOOSE g : flat(g)
<1>5. f = [i \in 1..Len(q) |-> IF i = 1 THEN q[i] ELSE f[i - 1] \o q[i]]
  BY <1>4
<1> HIDE DEF f
<1>6. f[1] = s
  BY <1>1, <1>5
<1> QED
  BY <1>1, <1>2, <1>6 DEF f, q

(* The second byte of a poll is its command.                               *)
LEMMA PollFrame == SendCmd(42, <<One>>)[2] = 42
<1>1. Sent(<<One>>) = <<1, 1>>
  <2>1. One.wide = FALSE /\ One.bytes = <<1>> /\ Len(<<1>>) = 1
    BY DEF One, Param
  <2> DEFINE t == Length(One) \o One.bytes
  <2>2. t = <<1>> \o <<1>>
    BY <2>1 DEF Length
  <2>3. [k \in DOMAIN <<One>> |-> Length(<<One>>[k]) \o <<One>>[k].bytes] = <<t>>
    <3>1. DOMAIN <<One>> = 1..1 /\ <<One>>[1] = One
      OBVIOUS
    <3>2. [k \in DOMAIN <<One>> |-> Length(<<One>>[k]) \o <<One>>[k].bytes] = [k \in 1..1 |-> t]
      BY <3>1
    <3> HIDE DEF t
    <3>3. [k \in 1..1 |-> t] = <<t>>
      OBVIOUS
    <3> QED
      BY <3>2, <3>3
  <2>4. Sent(<<One>>) = t
    BY <2>3, FlattenOne DEF Sent
  <2> QED
    BY <2>2, <2>4
<1>2. SendCmd(42, <<One>>) = (<<224, 42, 1>> \o <<1, 1>>) \o <<238>>
  BY <1>1 DEF SendCmd, StartCmd, EndCmd
<1> QED
  BY <1>2

(* What skipping leaves of a sequence, and the byte it begins with.        *)
LEMMA SkipLeaves ==
    ASSUME NEW s \in Seq(Int), NEW n \in Nat, n < Len(s)
    PROVE  /\ Skip(s, n) \in Seq(Int) /\ Len(Skip(s, n)) = Len(s) - n
           /\ \A k \in 1..Len(s) - n : Skip(s, n)[k] = s[n + k]
           /\ Byte(Skip(s, n)) = s[n + 1] /\ Rest(Skip(s, n)) = Skip(s, n + 1)
<1> DEFINE t == Skip(s, n)
<1>1. t = SubSeq(s, n + 1, Len(s)) /\ n + 1 \in 1..Len(s) /\ Len(s) \in n + 1..Len(s)
  BY DEF Skip
<1>2. \A i \in n + 1..Len(s) : s[i] \in Int
  BY ElementOfSeq
<1>3. /\ t \in Seq(Int) /\ Len(t) = Len(s) - (n + 1) + 1
      /\ \A i \in 1..Len(s) - (n + 1) + 1 : t[i] = s[(n + 1) + i - 1]
  BY <1>1, <1>2, SubSeqProperties
<1>4. Head(t) = s[n + 1] /\ Tail(t) = SubSeq(s, (n + 1) + 1, Len(s))
  BY <1>1, HeadTailOfSubSeq
<1> HIDE DEF t
<1>5. t # <<>>
  <2>1. Len(t) > 0
    BY <1>1, <1>3
  <2> QED
    BY <2>1, EmptySeq
<1>6. Byte(t) = s[n + 1] /\ Rest(t) = Skip(s, n + 1)
  BY <1>4, <1>5 DEF Byte, Rest, Skip
<1>7. \A k \in 1..Len(s) - n : t[k] = s[n + k]
  BY <1>3
<1> QED
  BY <1>3, <1>6, <1>7 DEF t

(* Where the wait for a reply stops: at its first start or error.          *)
LEMMA WaitStops ==
    ASSUME NEW s \in Seq(Int), NEW k \in 1..Len(s), s[k] \in {StartCmd, ErrCmd},
           \A l \in 1..Len(s) : l < k => s[l] \notin {StartCmd, ErrCmd}
    PROVE  \/ WaitSpiChar(s).back = 0
           \/ WaitSpiChar(s).back # 0 /\ WaitSpiChar(s).rest = Skip(s, k)
<1> DEFINE at == {j \in 1..Len(s) : s[j] \in {StartCmd, ErrCmd} /\ j <= TimeoutChar + 1}
           first == CHOOSE j \in at : \A l \in at : j <= l
<1>1. CASE at = {}
  BY <1>1 DEF WaitSpiChar
<1>2. CASE at # {}
  <2>1. k \in at /\ \A l \in at : k <= l
    BY <1>2, SpiAssumption
  <2>2. first = k
    BY <2>1
  <2>3. WaitSpiChar(s) = [back |-> IF s[first] = ErrCmd THEN -1 ELSE 1, rest |-> Skip(s, first)]
    BY <1>2 DEF WaitSpiChar
  <2> HIDE DEF first
  <2>4. (IF s[first] = ErrCmd THEN -1 ELSE 1) # 0
    OBVIOUS
  <2> QED
    BY <2>2, <2>3, <2>4
<1> QED
  BY <1>1, <1>2

(* A reply that is no answer to a poll: it starts or errs somewhere, and   *)
(* is of another command, or of some other number of parameters than one.  *)
NoAnswer(s) ==
    \E k \in 1..Len(s) :
        /\ s[k] \in {StartCmd, ErrCmd}
        /\ \A l \in 1..Len(s) : l < k => s[l] \notin {StartCmd, ErrCmd}
        /\ \/ k = Len(s)
           \/ k < Len(s) /\ s[k + 1] # 170
           \/ k + 1 < Len(s) /\ s[k + 2] # 1

LEMMA NoAnswerFails ==
    ASSUME NEW s \in Seq(Int), NoAnswer(s) PROVE ResponseCmd(s, 42, 1) = Failed
<1>0. PICK k \in 1..Len(s) :
        /\ s[k] \in {StartCmd, ErrCmd}
        /\ \A l \in 1..Len(s) : l < k => s[l] \notin {StartCmd, ErrCmd}
        /\ \/ k = Len(s)
           \/ k < Len(s) /\ s[k + 1] # 170
           \/ k + 1 < Len(s) /\ s[k + 2] # 1
  BY DEF NoAnswer
<1> DEFINE w == WaitSpiChar(s)
<1>1. CASE w.back = 0
  BY <1>1 DEF ResponseCmd, Replied
<1>2. CASE w.rest = Skip(s, k)
  <2>1. CASE Byte(w.rest) # 170
    BY <2>1 DEF ResponseCmd, Replied, ReplyFlag
  <2>2. CASE Byte(w.rest) = 170
    <3>1. k # Len(s)
      <4>1. ASSUME k = Len(s) PROVE Byte(w.rest) = Dummy
        <5>1. Skip(s, k) = <<>>
          BY <4>1, SubSeqEmpty DEF Skip
        <5> QED
          BY <1>2, <5>1 DEF Byte
      <4> QED
        BY <2>2, <4>1 DEF Dummy
    <3>2. k < Len(s) /\ s[k + 1] = 170 /\ Rest(w.rest) = Skip(s, k + 1)
      BY <1>2, <2>2, <3>1, SkipLeaves
    <3>3. k + 1 < Len(s) /\ s[k + 2] # 1
      BY <1>0, <3>2
    <3>4. Byte(Skip(s, k + 1)) = s[(k + 1) + 1] /\ (k + 1) + 1 = k + 2
      BY <3>3, SkipLeaves
    <3> QED
      BY <3>2, <3>3, <3>4 DEF ResponseCmd
  <2> QED
    BY <2>1, <2>2
<1> QED
  BY <1>0, <1>1, <1>2, WaitStops

(* What is left of a sequence after its first byte.                        *)
LEMMA RestIs ==
    ASSUME NEW s \in Seq(Int), s # <<>>
    PROVE  Byte(s) = s[1] /\ Rest(s) = SubSeq(s, 2, Len(s))
  BY TailIsSubSeq DEF Byte, Rest

(* No reply to a poll, true or false, says that data went out that did not. *)
(* Of those the shield may send the first is empty, the second an error,   *)
(* the third some other command's, the fourth has no parameter.            *)
LEMMA NoFalsePoll == DataSent[0] \subseteq {0}
<1> DEFINE whole == Reply(42, <<<<0>>>>)
<1> USE DEF StartCmd, ErrCmd
<1>1. DataSent[0] = {Value(ResponseCmd(s, 42, 1), 0) : s \in Answers(SendCmd(42, <<One>>), whole)}
  <2>1. 0 \in {0, 1} /\ <<0>> = <<0>>
    OBVIOUS
  <2>2. DataSent[0] = Values(42, <<One>>, 0, 0)
    BY <2>1 DEF DataSent
  <2> QED
    BY <2>2 DEF Values, Exchanged
<1>2. Answers(SendCmd(42, <<One>>), whole) \subseteq Faults(42) \union {whole}
  BY PollFrame DEF Answers
<1>3. Faults(42) = {<<>>, <<239>>, <<255>> \o Reply(43, <<<<1>>>>), Reply(42, <<>>)}
  BY DEF Faults, Dummy
<1>4. Reply(42, <<>>) = <<224, 170, 0, 238>>
  <2>1. Len(<<>>) = 0 /\ 42 + 128 = 170
    OBVIOUS
  <2>2. Reply(42, <<>>) = (<<224, 170, 0>> \o <<>>) \o <<238>>
    BY <2>1 DEF Reply, ReplyFlag, EndCmd
  <2> QED
    BY <2>2
<1> DEFINE other == <<255>> \o Reply(43, <<<<1>>>>)
<1>5. other = <<255>> \o <<224, 171, 1, 1, 1, 238>>
  <2>1. /\ Len(<<<<1>>>>) = 1 /\ <<<<1>>>>[1] = <<1>> /\ Len(<<1>>) = 1
        /\ <<<<1>>>> # <<>> /\ 43 + 128 = 171
    OBVIOUS
  <2>2. Reply(43, <<<<1>>>>) = (<<224, 171, 1>> \o (<<1>> \o <<1>>)) \o <<238>>
    BY <2>1 DEF Reply, ReplyFlag, EndCmd
  <2>3. Reply(43, <<<<1>>>>) = <<224, 171, 1, 1, 1, 238>>
    BY <2>2
  <2> QED
    BY <2>3
<1> HIDE DEF other
<1>6. whole = <<224, 170, 1, 1, 0, 238>>
  <2>1. /\ Len(<<<<0>>>>) = 1 /\ <<<<0>>>>[1] = <<0>> /\ Len(<<0>>) = 1
        /\ <<<<0>>>> # <<>> /\ 42 + 128 = 170
    OBVIOUS
  <2>2. whole = (<<224, 170, 1>> \o (<<1>> \o <<0>>)) \o <<238>>
    BY <2>1 DEF Reply, ReplyFlag, EndCmd
  <2> QED
    BY <2>2
<1> HIDE DEF whole
<1>7. ResponseCmd(<<>>, 42, 1) = Failed
  <2>1. WaitSpiChar(<<>>).back = 0
    BY DEF WaitSpiChar
  <2> QED
    BY <2>1 DEF ResponseCmd, Replied
<1>8. ResponseCmd(<<239>>, 42, 1) = Failed
  <2> DEFINE s == <<239>>
  <2>1. s \in Seq(Int) /\ Len(s) = 1 /\ s[1] = 239
    OBVIOUS
  <2> HIDE DEF s
  <2>2. NoAnswer(s)
    BY <2>1 DEF NoAnswer
  <2>3. ResponseCmd(s, 42, 1) = Failed
    BY <2>1, <2>2, NoAnswerFails
  <2> QED
    BY <2>3 DEF s
<1>9. ResponseCmd(other, 42, 1) = Failed
  <2>1. other \in Seq(Int) /\ Len(other) = 7
    BY <1>5
  <2>2. other[1] = 255 /\ other[2] = 224 /\ other[3] = 171
    BY <1>5
  <2>3. /\ 2 \in 1..Len(other) /\ other[2] \in {224, 239} /\ 2 < Len(other) /\ other[2 + 1] # 170
        /\ \A l \in 1..Len(other) : l < 2 => other[l] \notin {224, 239}
    BY <2>1, <2>2
  <2>4. NoAnswer(other)
    BY <2>3 DEF NoAnswer
  <2> QED
    BY <2>1, <2>4, NoAnswerFails
<1>10. ResponseCmd(Reply(42, <<>>), 42, 1) = Failed
  <2> DEFINE s == Reply(42, <<>>)
  <2>1. s = <<224, 170, 0, 238>>
    BY <1>4
  <2> HIDE DEF s
  <2>2. s \in Seq(Int) /\ Len(s) = 4 /\ s[1] = 224 /\ s[3] = 0
    BY <2>1
  <2>3. NoAnswer(s)
    BY <2>2 DEF NoAnswer
  <2>4. ResponseCmd(s, 42, 1) = Failed
    BY <2>2, <2>3, NoAnswerFails
  <2> QED
    BY <2>4 DEF s
<1>11. Value(ResponseCmd(whole, 42, 1), 0) = 0
  <2> DEFINE w == WaitSpiChar(whole)
  <2>1. CASE w.back = 0
    BY <2>1 DEF ResponseCmd, Replied, Value, Failed
  <2>2. whole \in Seq(Int) /\ Len(whole) = 6 /\ whole[1] = 224
    BY <1>6
  <2>3. CASE w.back # 0 /\ w.rest = Skip(whole, 1)
    <3> DEFINE body == Rest(w.rest)
    <3>1. w.rest = SubSeq(whole, 2, 6)
      BY <2>2, <2>3 DEF Skip
    <3>2. w.rest = <<170, 1, 1, 0, 238>>
      BY <1>6, <3>1
    <3>3. Byte(w.rest) = 170 /\ body = SubSeq(w.rest, 2, 5)
      <4> DEFINE t == w.rest
      <4>1. t = <<170, 1, 1, 0, 238>>
        BY <3>2
      <4> HIDE DEF t
      <4>2. t \in Seq(Int) /\ Len(t) = 5 /\ t # <<>> /\ t[1] = 170
        BY <4>1
      <4>3. Byte(t) = t[1] /\ Rest(t) = SubSeq(t, 2, Len(t))
        BY <4>2, RestIs
      <4> QED
        BY <4>2, <4>3 DEF t
    <3>4. body = <<1, 1, 0, 238>>
      BY <3>2, <3>3
    <3> HIDE DEF body
    <3>5. body \in Seq(Int) /\ Len(body) = 4 /\ body # <<>> /\ body[1] = 1
      BY <3>4
    <3>6. Byte(body) = 1 /\ Rest(body) = SubSeq(body, 2, 4)
      BY <3>5, RestIs
    <3>7. Rest(body) = <<1, 0, 238>>
      BY <3>4, <3>6
    <3>8. Byte(Rest(body)) = 1
      <4>1. Rest(body) \in Seq(Int) /\ Rest(body) # <<>> /\ Rest(body)[1] = 1
        BY <3>7
      <4> DEFINE t == Rest(body)
      <4>2. t \in Seq(Int) /\ t # <<>> /\ t[1] = 1
        BY <4>1
      <4> HIDE DEF t
      <4>3. Byte(t) = 1
        BY <4>2, RestIs
      <4> QED
        BY <4>3 DEF t
    <3>9. Skip(body, 2) = SubSeq(body, 3, 4)
      BY <3>5 DEF Skip
    <3>10. Skip(body, 2) = <<0, 238>>
      BY <3>4, <3>9
    <3>11. Bytes(Skip(body, 2), 1)[1] = 0
      BY <3>10 DEF Bytes
    <3>12. ResponseCmd(whole, 42, 1) = Read(<<Bytes(Skip(body, 2), 1)>>)
      BY <2>3, <3>3, <3>6, <3>8 DEF ResponseCmd, Replied, ReplyFlag, body
    <3> QED
      BY <3>11, <3>12 DEF Read, Value
  <2>4. 1 \in 1..Len(whole) /\ \A l \in 1..Len(whole) : l < 1 => whole[l] \notin {224, 239}
    BY <2>2
  <2> QED
    BY <2>1, <2>2, <2>3, <2>4, WaitStops
<1>12. Value(Failed, 0) = 0
  BY DEF Failed, Value
<1>13. \A s \in Answers(SendCmd(42, <<One>>), whole) : Value(ResponseCmd(s, 42, 1), 0) = 0
  BY <1>2, <1>3, <1>7, <1>8, <1>9, <1>10, <1>11, <1>12 DEF other
<1> QED
  BY <1>1, <1>13

(* What a client's write returned stays true of the data: it is not       *)
(* written again before the next call, nor taken back.                    *)
Written == op.back = "written" => op.at = "idle" /\ sent = "out"

LEMMA WriteToUnwritten ==
    ASSUME NEW s, NEW start, WriteTo(s, start), start.back # "written",
           start = [at |-> start.at, who |-> start.who, sock |-> start.sock,
                    left |-> start.left, all |-> start.all, back |-> start.back]
    PROVE  op'.back # "written"
  BY DEF WriteTo, Ends, NoCall

(* The calls that begin, and the steps that read nothing of the data.      *)
LEMMA OthersUnwritten ==
    ASSUME CallShape, Written,
           \/ JoinByName \/ ScanFor \/ Ask \/ Connect \/ ConnectByName \/ Write \/ Reads
           \/ Stop \/ ServerBegin \/ ServerAvailable \/ ServerWrite \/ UdpBegin
           \/ BeginPacket \/ UdpTransfer \/ UdpStop
           \/ Joining \/ Scanning \/ Resolving \/ Connecting \/ LookAgain \/ Closing
           \/ Available \/ Each
    PROVE  op'.back # "written"
<1>1. ASSUME NEW back, back # "written", Ends(back) PROVE op'.back # "written"
  BY <1>1 DEF Ends, NoCall
<1>2. ASSUME NEW at, NEW who, NEW s, Goes(at, who, s) PROVE op'.back # "written"
  BY <1>2 DEF Goes, NoCall
<1>3. ASSUME op.at # "idle" PROVE op.back # "written"
  BY <1>3 DEF Written
<1>4. ASSUME NEW back, back # "written", op.at # "idle", Again(back) PROVE op'.back # "written"
  <2>1. CASE Ends(back)
    BY <1>1, <1>4, <2>1
  <2>2. CASE op' = [op EXCEPT !.left = Spent(@)]
    BY <1>3, <1>4, <2>2 DEF CallShape
  <2> QED
    BY <1>4, <2>1, <2>2 DEF Again
<1>5. ASSUME op.at # "idle", NextSock PROVE op'.back # "written"
  BY <1>3, <1>5 DEF NextSock, CallShape
<1>6. ASSUME NEW c, StartClient(c) PROVE op'.back # "written"
  BY <1>1, <1>2, <1>6 DEF StartClient
<1>7. CASE JoinByName \/ ScanFor \/ Ask \/ ConnectByName \/ ServerAvailable
  BY <1>1, <1>2, <1>7 DEF JoinByName, ScanFor, Ask, ConnectByName, ServerAvailable
<1>8. CASE ServerWrite
  BY <1>8 DEF ServerWrite, NoCall
<1>9. CASE Stop \/ ServerBegin \/ UdpBegin \/ BeginPacket \/ UdpStop
  BY <1>1, <1>2, <1>9 DEF Stop, ServerBegin, UdpBegin, BeginPacket, UdpStop
<1>10. CASE Reads \/ UdpTransfer
  <2>1. \A n \in {0, 1} : "written" \notin ReadByte[n]
    BY DEF ReadByte
  <2>2. \A n \in {0, 1} : "written" \notin ReadBuffer[n]
    BY DEF ReadBuffer
  <2>3. CASE Reads
    BY <1>1, <2>1, <2>2, <2>3 DEF Reads
  <2>4. CASE UdpTransfer
    BY <1>1, <2>1, <2>2, <2>4 DEF UdpTransfer
  <2> QED
    BY <1>10, <2>3, <2>4
<1>11. CASE Connect \/ Resolving
  <2>1. CASE Connect
    BY <1>6, <2>1 DEF Connect
  <2>2. CASE Resolving
    BY <1>4, <1>6, <2>2 DEF Resolving
  <2> QED
    BY <1>11, <2>1, <2>2
<1>12. CASE Write
  <2>1. NoCall.back # "written"
        /\ NoCall = [at |-> NoCall.at, who |-> NoCall.who, sock |-> NoCall.sock,
                     left |-> NoCall.left, all |-> NoCall.all, back |-> NoCall.back]
    BY DEF NoCall
  <2> QED
    BY <1>1, <1>12, <2>1, WriteToUnwritten DEF Write
<1>13. CASE Joining \/ Scanning
  BY <1>1, <1>4, <1>13 DEF Joining, Scanning
<1>14. CASE Connecting
  BY <1>3, <1>14 DEF Connecting, CallShape
<1>15. CASE LookAgain
  BY <1>1, <1>15 DEF LookAgain
<1>16. CASE Closing
  BY <1>1, <1>4, <1>16 DEF Closing
<1>17. CASE Available
  BY <1>1, <1>5, <1>17 DEF Available
<1>18. CASE Each
  <2>1. op.at # "idle" /\ op.back # "written"
    BY <1>3, <1>18 DEF Each
  <2>2. ASSUME NEW s, WriteTo(s, op) PROVE op'.back # "written"
    BY <2>1, <2>2, WriteToUnwritten DEF CallShape
  <2> QED
    BY <1>1, <1>5, <1>18, <2>1, <2>2 DEF Each
<1> QED
  BY <1>7, <1>8, <1>9, <1>10, <1>11, <1>12, <1>13, <1>14, <1>15, <1>16, <1>17, <1>18

(* A poll ends a write with success only when the shield has sent the data. *)
LEMMA SendingKeepsWritten == ASSUME CallShape, Written, Sending PROVE Written'
<1>1. PICK v \in DataSent[IF sent = "out" THEN 1 ELSE 0] :
          IF v # 0
          THEN IF op.all THEN op' = [op EXCEPT !.at = "each", !.sock = @ + 1] ELSE Ends("written")
          ELSE IF op.all /\ Spent(op.left) = 0 THEN op' = [op EXCEPT !.at = "each", !.sock = @ + 1]
          ELSE Again("failed")
  BY DEF Sending
<1>2. op.back # "written"
  BY DEF Sending, Written
<1>3. CASE v # 0 /\ Ends("written")
  <2>1. sent = "out"
    BY <1>1, <1>3, NoFalsePoll
  <2> QED
    BY <1>3, <2>1 DEF Sending, Ends, NoCall, Written
<1>4. CASE op' = [op EXCEPT !.at = "each", !.sock = @ + 1]
  BY <1>2, <1>4 DEF CallShape, Written
<1>5. CASE Again("failed")
  BY <1>2, <1>5 DEF Again, Ends, NoCall, CallShape, Written
<1> QED
  BY <1>1, <1>3, <1>4, <1>5

LEMMA WrittenKept == ASSUME ShieldInv, Written, [ShieldNext]_shieldVars PROVE Written'
<1>1. CallShape
  BY DEF ShieldInv, ShieldShape
<1>2. CASE ShieldTurns
  BY <1>2 DEF ShieldTurns, Written
<1>3. CASE UNCHANGED shieldVars
  BY <1>3 DEF shieldVars, Written
<1>4. CASE Sending
  BY <1>1, <1>4, SendingKeepsWritten
<1>5. CASE ShieldNext /\ ~ShieldTurns /\ ~Sending
  <2>1. op'.back # "written"
    BY <1>1, <1>5, OthersUnwritten DEF ShieldNext, Steps
  <2> QED
    BY <2>1 DEF Written
<1> QED
  BY <1>2, <1>3, <1>4, <1>5

LEMMA ShieldRuns == WirelessSpec => ShieldInit /\ [][ShieldNext]_shieldVars
<1>1. WirelessInit => ShieldInit
  BY DEF WirelessInit
<1>2. [WirelessNext]_wirelessVars => [ShieldNext]_shieldVars
  BY DEF WirelessNext, wirelessVars
<1> QED
  BY <1>1, <1>2, PTL DEF WirelessSpec

(* A write of a client that returns its length is one that the shield has  *)
(* taken and sent, whatever replies were lost in its exchanges and polls.  *)
THEOREM WrittenWasSentHolds == WirelessSpec => []WrittenWasSent
<1>1. ShieldInit => ShieldInv /\ Written
  BY ShieldInitial DEF ShieldInit, NoCall, Written
<1>2. ShieldInv /\ Written /\ [ShieldNext]_shieldVars => (ShieldInv /\ Written)'
  BY ShieldInvKept, WrittenKept
<1>3. Written => WrittenWasSent
  BY DEF Written, WrittenWasSent
<1> QED
  BY <1>1, <1>2, <1>3, ShieldRuns, PTL

-----------------------------------------------------------------------------
Networks == [ssid : Ssids, pass : Passes]

(* The call of run() has its fields.                                       *)
RunShape(c) ==
    c = [at |-> c.at, firstRun |-> c.firstRun, queue |-> c.queue, skip |-> c.skip,
         hidden |-> c.hidden, tried |-> c.tried, result |-> c.result]

(* The entries a call has passed over have been tried: those it skips and  *)
(* those before the place its last loop has reached.                       *)
Passed(c) ==
    /\ c.hidden \in Nat
    /\ \A j \in 1..Len(list) : j <= c.hidden \/ j \in c.skip => list[j] \in c.tried

(* Nothing is passed over outside the loops, the entry being tried counts  *)
(* as tried, and a result stays until the next call.                       *)
MultiInv ==
    /\ list \in Seq(Networks)
    /\ RunShape(call) /\ Passed(call)
    /\ call.at \notin {"visible", "hidden"} => call.skip = {} /\ call.hidden = 0
    /\ call.at = "visible" => list[Head(call.queue).entry] \in call.tried
    /\ call.at # "idle" => call.result = None
    /\ call.result = "CONNECT_FAILED" => \A j \in 1..Len(list) : list[j] \in call.tried

(* Trying an entry makes it one that has been tried.                       *)
LEMMA TryTries ==
    ASSUME NEW c, RunShape(c), NEW entry, NEW bssid, Try(c, entry, bssid)
    PROVE  /\ RunShape(call') /\ call'.tried = c.tried \union {list[entry]}
           /\ call'.at = c.at /\ call'.queue = c.queue /\ call'.skip = c.skip
           /\ call'.hidden = c.hidden /\ call'.result = c.result
  BY DEF Try, RunShape

(* What the loop over hidden networks does next: between the last entry it *)
(* tried and the next there are only entries to skip.                      *)
LEMMA HiddenKeeps ==
    ASSUME list \in Seq(Networks), UNCHANGED list, RunShape(call),
           NEW c, RunShape(c), Passed(c), c.result = None, TryHidden(c)
    PROVE  MultiInv'
<1>1. CASE HiddenLeft(c) = {}
  <2>1. \A j \in 1..Len(list) : list[j] \in c.tried
    BY <1>1 DEF HiddenLeft, Passed
  <2>2. /\ RunShape(call') /\ call'.at = "idle" /\ call'.tried = c.tried
        /\ call'.skip = {} /\ call'.hidden = 0
    BY <1>1 DEF TryHidden, Return, RunShape
  <2>3. Passed(call)'
    BY <2>2 DEF Passed
  <2> QED
    BY <2>1, <2>2, <2>3 DEF MultiInv
<1>2. CASE HiddenLeft(c) # {}
  <2> DEFINE j == Min(HiddenLeft(c))
             d == [c EXCEPT !.at = "hidden", !.hidden = j]
  <2>1. j \in HiddenLeft(c) /\ \A k \in HiddenLeft(c) : j <= k
    <3>1. HiddenLeft(c) \subseteq Nat
      BY DEF HiddenLeft, Passed
    <3> QED
      BY <1>2, <3>1, LeastIn
  <2> HIDE DEF j
  <2>2. j \in Nat /\ j > c.hidden
    BY <2>1 DEF HiddenLeft, Passed
  <2>0. d = [c EXCEPT !.at = "hidden", !.hidden = j]
    OBVIOUS
  <2>4. Try(d, j, None)
    BY <1>2, <2>0 DEF TryHidden, j
  <2> HIDE DEF d
  <2>3. /\ RunShape(d) /\ d.at = "hidden" /\ d.hidden = j /\ d.skip = c.skip
        /\ d.tried = c.tried /\ d.result = None
    BY <2>0 DEF RunShape
  <2>5. /\ RunShape(call') /\ call'.tried = c.tried \union {list[j]}
        /\ call'.at = "hidden" /\ call'.skip = c.skip
        /\ call'.hidden = j /\ call'.result = None
    BY <2>3, <2>4, TryTries
  <2>6. ASSUME NEW k \in 1..Len(list), k <= j \/ k \in c.skip
        PROVE  list[k] \in c.tried \union {list[j]}
    <3>1. k \in HiddenLeft(c) \/ k <= c.hidden \/ k \in c.skip
      BY DEF HiddenLeft, Passed
    <3> QED
      BY <2>1, <2>2, <2>6, <3>1 DEF Passed
  <2>7. None # "CONNECT_FAILED"
    BY DEF None
  <2> QED
    BY <2>2, <2>5, <2>6, <2>7 DEF MultiInv, Passed
<1> QED
  BY <1>1, <1>2

(* The loop over what the scan found tries the head of its queue.          *)
LEMMA NextKeeps ==
    ASSUME list \in Seq(Networks), UNCHANGED list, RunShape(call),
           NEW c, RunShape(c), Passed(c), c.result = None, TryNext(c)
    PROVE  MultiInv'
<1>1. CASE c.queue = <<>>
  BY <1>1, HiddenKeeps DEF TryNext
<1>2. CASE c.queue # <<>>
  <2> DEFINE d == [c EXCEPT !.at = "visible"]
  <2>1. /\ RunShape(d) /\ d.at = "visible" /\ d.hidden = c.hidden /\ d.skip = c.skip
        /\ d.tried = c.tried /\ d.result = None /\ d.queue = c.queue
    BY DEF RunShape
  <2>2. Try(d, Head(c.queue).entry, Head(c.queue).net.bssid)
    BY <1>2 DEF TryNext
  <2> HIDE DEF d
  <2>3. /\ RunShape(call') /\ call'.tried = c.tried \union {list[Head(c.queue).entry]}
        /\ call'.at = "visible" /\ call'.skip = c.skip /\ call'.queue = c.queue
        /\ call'.hidden = c.hidden /\ call'.result = None
    BY <2>1, <2>2, TryTries
  <2>4. None # "CONNECT_FAILED"
    BY DEF None
  <2> QED
    BY <2>3, <2>4 DEF MultiInv, Passed
<1> QED
  BY <1>1, <1>2

(* run() from its look at the connection: a result, or a fresh start.      *)
LEMMA LookKeeps ==
    ASSUME MultiInv, call.at \in {"idle", "saved"}, NEW r, Look(r), UNCHANGED list
    PROVE  MultiInv'
<1>1. /\ RunShape(call') /\ call'.skip = {} /\ call'.hidden = 0
      /\ call'.at \in {"idle", "scan"} /\ call'.result # "CONNECT_FAILED"
      /\ call'.at = "scan" => call'.result = None
  BY DEF Look, StartScan, Return, RunShape, MultiInv, None
<1> QED
  BY <1>1 DEF MultiInv, Passed

(* A wait is over.                                                         *)
LEMMA WaitsKeep == ASSUME MultiInv, Waits PROVE MultiInv'
<1> USE DEF MultiInv
<1>0. None # "CONNECT_FAILED"
  BY DEF None
<1>1. CASE Saved
  BY <1>1, LookKeeps DEF Saved
<1>2. CASE ScanWaited
  <2>1. CASE call' = Return("NO_SSID_AVAIL")
    <3>1. /\ RunShape(call') /\ call'.skip = {} /\ call'.hidden = 0
          /\ call'.at = "idle" /\ call'.result = "NO_SSID_AVAIL"
      BY <2>1 DEF Return, RunShape
    <3>2. UNCHANGED list
      BY <1>2 DEF ScanWaited
    <3>3. Passed(call)'
      BY <3>1, <3>2 DEF Passed
    <3> QED
      BY <3>1, <3>2, <3>3
  <2>2. ASSUME NEW o, TryNext([call EXCEPT !.queue = Queue(o)]) PROVE MultiInv'
    <3> DEFINE c == [call EXCEPT !.queue = Queue(o)]
    <3>1. RunShape(c) /\ c.skip = call.skip /\ c.hidden = call.hidden
          /\ c.tried = call.tried /\ c.result = call.result
      BY DEF RunShape
    <3>2. Passed(c)
      BY <3>1 DEF Passed
    <3>3. c.result = None
      BY <1>2, <3>1 DEF ScanWaited
    <3> HIDE DEF c
    <3> QED
      BY <1>2, <2>2, <3>1, <3>2, <3>3, NextKeeps DEF ScanWaited, c
  <2> QED
    BY <1>2, <2>1, <2>2 DEF ScanWaited
<1>3. ASSUME call' = Return("CONNECTED"), UNCHANGED list PROVE MultiInv'
  <2>1. /\ RunShape(call') /\ call'.skip = {} /\ call'.hidden = 0
        /\ call'.at = "idle" /\ call'.result = "CONNECTED"
    BY <1>3 DEF Return, RunShape
  <2> QED
    BY <1>3, <2>1 DEF Passed
<1>4. CASE Visible
  <2> DEFINE c == [call EXCEPT !.queue = Tail(@), !.skip = @ \union {Skipped(Head(call.queue))}]
  <2>1. ASSUME TryNext(c) PROVE MultiInv'
    <3>0. c = [call EXCEPT !.queue = Tail(@), !.skip = @ \union {Head(call.queue).entry}]
      BY DEF Skipped
    <3> HIDE DEF c
    <3>1. /\ RunShape(c) /\ c.hidden = call.hidden /\ c.tried = call.tried
          /\ c.skip = call.skip \union {Head(call.queue).entry} /\ c.result = call.result
      BY <3>0 DEF RunShape
    <3>2. Passed(c) /\ c.result = None
      BY <1>4, <3>1 DEF Passed, Visible
    <3> QED
      BY <1>4, <2>1, <3>1, <3>2, NextKeeps DEF Visible
  <2> QED
    BY <1>3, <1>4, <2>1 DEF Visible
<1>5. CASE Hidden
  BY <1>3, <1>5, HiddenKeeps DEF Hidden
<1> QED
  BY <1>1, <1>2, <1>4, <1>5 DEF Waits

(* The list changes between two runs only, and takes the result along.     *)
LEMMA CallsKeep ==
    ASSUME MultiInv,
           \/ AddAP \/ CleanAPlist \/ Run \/ Overrun \/ OwnScan \/ Resumed \/ ScanReports
           \/ LinkChanges \/ UNCHANGED multiVars
    PROVE  MultiInv'
<1> USE DEF MultiInv
<1>0. None # "CONNECT_FAILED"
  BY DEF None
<1>1. CASE AddAP
  <2>1. list' \in Seq(Networks)
    <3>1. ASSUME NEW s \in Ssids \union {None, TooLong}, NEW p \in Passes \union {TooLong},
                 s \notin {None, TooLong}, p # TooLong
          PROVE  Append(list, Entry(s, p)) \in Seq(Networks)
      <4>1. Entry(s, p) \in Networks
        BY <3>1 DEF Entry, Networks
      <4> QED
        BY <4>1
    <3> QED
      BY <1>1, <3>1 DEF AddAP
  <2>2. RunShape(call') /\ call'.result = None /\ call'.at = "idle"
        /\ call'.skip = {} /\ call'.hidden = 0
    BY <1>1 DEF AddAP, RunShape
  <2> QED
    BY <1>0, <2>1, <2>2 DEF Passed
<1>2. CASE CleanAPlist
  <2>1. list' \in Seq(Networks)
    BY <1>2 DEF CleanAPlist
  <2>2. RunShape(call') /\ call'.result = None /\ call'.at = "idle"
        /\ call'.skip = {} /\ call'.hidden = 0
    BY <1>2 DEF CleanAPlist, RunShape
  <2> QED
    BY <1>0, <2>1, <2>2 DEF Passed
<1>3. CASE Run
  <2>1. CASE call' = [call EXCEPT !.at = "saved", !.firstRun = FALSE, !.result = None]
    <3>1. RunShape(call') /\ call'.result = None /\ call'.at = "saved"
          /\ call'.skip = {} /\ call'.hidden = 0
      BY <1>3, <2>1 DEF Run, RunShape
    <3> QED
      BY <1>0, <1>3, <3>1 DEF Passed, Run
  <2>2. CASE Look(radio)
    BY <1>3, <2>2, LookKeeps DEF Run
  <2> QED
    BY <1>3, <2>1, <2>2 DEF Run
<1>4. CASE Overrun
  <2>1. list' = <<>> /\ RunShape(call') /\ call'.result = None /\ call'.at = "idle"
        /\ call'.skip = {} /\ call'.hidden = 0
    BY <1>4 DEF Overrun, Idle, RunShape
  <2> QED
    BY <1>0, <2>1 DEF Passed
<1>5. CASE OwnScan
  <2>1. ASSUME NEW at \in {"idle", "suspended"}, call' = [call EXCEPT !.at = at, !.result = None]
        PROVE  MultiInv'
    <3>1. /\ RunShape(call') /\ call'.result = None /\ call'.at \in {"idle", "suspended"}
          /\ call'.skip = {} /\ call'.hidden = 0
      BY <1>5, <2>1 DEF RunShape, OwnScan
    <3>2. UNCHANGED list
      BY <1>5 DEF OwnScan
    <3>3. Passed(call)'
      BY <3>1, <3>2 DEF Passed
    <3> QED
      BY <1>0, <3>1, <3>2, <3>3
  <2>2. CASE UNCHANGED call
    BY <1>5, <2>2 DEF Passed, OwnScan
  <2>3. ASSUME NEW async \in BOOLEAN, NEW x,
               call' = [call EXCEPT !.at = IF async \/ x.back = "FAILED" \/ scan.started THEN @ ELSE "suspended",
                                    !.result = None]
        PROVE  \E at \in {"idle", "suspended"} : call' = [call EXCEPT !.at = at, !.result = None]
    BY <1>5, <2>3 DEF OwnScan
  <2>4. CASE call' = [call EXCEPT !.result = None]
    <3>1. call' = [call EXCEPT !.at = "idle", !.result = None]
      BY <1>5, <2>4 DEF OwnScan, RunShape
    <3> QED
      BY <2>1, <3>1
  <2>5. \/ \E async \in BOOLEAN : \E x \in ScanNetworks(radio, scan, async) :
               call' = [call EXCEPT !.at = IF async \/ x.back = "FAILED" \/ scan.started THEN @ ELSE "suspended",
                                    !.result = None]
        \/ call' = [call EXCEPT !.result = None]
        \/ UNCHANGED call
    BY <1>5 DEF OwnScan
  <2> QED
    BY <2>1, <2>2, <2>3, <2>4, <2>5
<1>6. CASE Resumed
  <2>1. RunShape(call') /\ call'.result = None /\ call'.at = "idle"
        /\ call'.skip = {} /\ call'.hidden = 0
    BY <1>6 DEF Resumed, RunShape
  <2> QED
    BY <1>0, <1>6, <2>1 DEF Passed, Resumed
<1>7. CASE ScanReports \/ LinkChanges \/ UNCHANGED multiVars
  BY <1>7 DEF ScanReports, LinkChanges, multiVars, Passed
<1> QED
  BY <1>1, <1>2, <1>3, <1>4, <1>5, <1>6, <1>7

LEMMA MultiInitial == call = Idle /\ list = <<>> => MultiInv
<1> SUFFICES ASSUME call = Idle, list = <<>> PROVE MultiInv
  OBVIOUS
<1>1. /\ RunShape(call) /\ call.at = "idle" /\ call.result = None
      /\ call.skip = {} /\ call.hidden = 0
  BY DEF Idle, RunShape
<1>2. list \in Seq(Networks) /\ Len(list) = 0
  OBVIOUS
<1>3. None # "CONNECT_FAILED"
  BY DEF None
<1> QED
  BY <1>1, <1>2, <1>3 DEF MultiInv, Passed

(* run() says that no connection could be made only when it has tried      *)
(* every network of the list.                                              *)
THEOREM TriesEveryEntryHolds == WirelessSpec => []TriesEveryEntry
<1>1. WirelessInit => MultiInv
  <2>1. NoMulti => call = Idle /\ list = <<>>
    BY DEF NoMulti
  <2>2. MultiInit => call = Idle /\ list = <<>>
    BY DEF MultiInit
  <2>3. WirelessInit => NoMulti \/ MultiInit
    BY DEF WirelessInit
  <2> QED
    BY <2>1, <2>2, <2>3, MultiInitial
<1>2. MultiInv /\ [WirelessNext]_wirelessVars => MultiInv'
  <2>1. MultiInv /\ UNCHANGED multiOnly => MultiInv'
    BY DEF MultiInv, multiOnly, Passed
  <2>2. MultiInv /\ MultiNext => MultiInv'
    BY WaitsKeep, CallsKeep DEF MultiNext
  <2> QED
    BY <2>1, <2>2 DEF WirelessNext, wirelessVars
<1>3. MultiInv => TriesEveryEntry
  BY DEF MultiInv, TriesEveryEntry, Range
<1> QED
  BY <1>1, <1>2, <1>3, PTL DEF WirelessSpec

-----------------------------------------------------------------------------
(* A radio has the fields that a new chip has, and so have its networks.   *)
IsConf(c) == DOMAIN c = {"ssid", "pass", "bssid"}
Sound(r) ==
    /\ DOMAIN r = {"mode", "flashMode", "sleep", "status", "conf", "flashConf", "ap", "flashAp",
                   "apIp", "lease", "ip", "dhcp", "persistent", "useStaticIp", "lastMode",
                   "smartStarted", "smartDone", "refusals"}
    /\ IsConf(r.conf) /\ IsConf(r.flashConf)

(* What most functions leave alone: the station's network, in force and in *)
(* flash, and whether settings persist.                                    *)
SameNetwork(r, x) ==
    Sound(x) /\ x.conf = r.conf /\ x.flashConf = r.flashConf /\ x.persistent = r.persistent
SameMode(r, x) == SameNetwork(r, x) /\ x.mode = r.mode /\ x.flashMode = r.flashMode

LEMMA SameModeAll ==
    ASSUME NEW r, Sound(r)
    PROVE  /\ SameMode(r, r) /\ SameMode(r, WakeUp(r))
           /\ SameMode(r, StationConnect(r)) /\ SameMode(r, StationDisconnect(r))
           /\ SameMode(r, Dhcp(r))
  BY DEF Sound, SameMode, SameNetwork, WakeUp, StationConnect, StationDisconnect, Dhcp

LEMMA RefusedKeeps == ASSUME NEW r, Sound(r), NEW x \in Refused(r) PROVE SameMode(r, x)
  BY DEF Refused, Sound, SameMode, SameNetwork

LEMMA OpmodeKeeps ==
    ASSUME NEW r, Sound(r), NEW m
    PROVE  /\ SameNetwork(r, Opmode(r, m)) /\ Opmode(r, m).mode = m
           /\ ~r.persistent => Opmode(r, m).flashMode = r.flashMode
  BY DEF Opmode, Sound, SameNetwork

(* mode(): the mode is reached when it says so, and stays when it does not; *)
(* the flash is touched if settings persist only.                          *)
LEMMA ModeKeeps ==
    ASSUME NEW r, Sound(r), NEW m, NEW x \in Mode(r, m)
    PROVE  /\ SameNetwork(r, x.radio)
           /\ x.back \in BOOLEAN
           /\ x.radio.mode = IF x.back THEN m ELSE r.mode
           /\ ~r.persistent => x.radio.flashMode = r.flashMode
<1> DEFINE woken == IF m # Off /\ r.sleep # "NONE" THEN WakeUp(r) ELSE r
           late(y) == [y EXCEPT !.flashMode = IF y.persistent THEN m ELSE @]
<1>1. SameMode(r, woken)
  BY SameModeAll
<1>2. \/ ModeIs(r, m) /\ x = Result(TRUE, r)
      \/ x = Result(TRUE, Opmode(woken, m))
      \/ \E y \in Refused(woken) : x = Result(FALSE, y) \/ x = Result(FALSE, late(y))
  BY DEF Mode
<1> HIDE DEF woken
<1>3. CASE ModeIs(r, m) /\ x = Result(TRUE, r)
  BY <1>3, SameModeAll DEF ModeIs, Result, SameMode
<1>4. CASE x = Result(TRUE, Opmode(woken, m))
  BY <1>1, <1>4, OpmodeKeeps DEF Result, SameMode, SameNetwork
<1>5. ASSUME NEW y \in Refused(woken), x = Result(FALSE, y) PROVE SameMode(r, x.radio) /\ x.back = FALSE
  BY <1>1, <1>5, RefusedKeeps DEF Result, SameMode, SameNetwork
<1>6. ASSUME NEW y \in Refused(woken), x = Result(FALSE, late(y))
      PROVE  /\ SameNetwork(r, x.radio) /\ x.back = FALSE /\ x.radio.mode = r.mode
             /\ ~r.persistent => x.radio.flashMode = r.flashMode
  <2>1. SameMode(r, y)
    BY <1>1, RefusedKeeps DEF SameMode, SameNetwork
  <2>2. /\ SameNetwork(y, late(y)) /\ late(y).mode = y.mode
        /\ ~y.persistent => late(y).flashMode = y.flashMode
    BY <2>1 DEF SameMode, SameNetwork, Sound
  <2> QED
    BY <1>6, <2>1, <2>2 DEF Result, SameMode, SameNetwork
<1> QED
  BY <1>2, <1>3, <1>4, <1>5, <1>6 DEF SameMode

LEMMA SameJoins ==
    ASSUME NEW r, NEW x, SameNetwork(r, x)
    PROVE  /\ Sound(x) /\ SameMode(x, x) /\ \A y : SameNetwork(x, y) => SameNetwork(r, y)
           /\ \A y : SameMode(x, y) => SameNetwork(r, y) /\ y.mode = x.mode /\ y.flashMode = x.flashMode
  BY DEF SameNetwork, SameMode

LEMMA EnableKeeps ==
    ASSUME NEW r, Sound(r), NEW i, NEW on \in BOOLEAN, NEW x \in Enable(r, i, on)
    PROVE  /\ SameNetwork(r, x.radio) /\ x.back \in BOOLEAN
           /\ (i \in r.mode) = on => SameMode(r, x.radio) /\ x.back
           /\ ~r.persistent => x.radio.flashMode = r.flashMode
<1>1. CASE (i \in r.mode) = on
  <2>1. x = Result(TRUE, r)
    BY <1>1, Zenon DEF Enable
  <2>2. x.radio = r /\ x.back = TRUE
    BY <2>1 DEF Result
  <2> QED
    BY <2>2, SameModeAll DEF SameMode
<1>2. CASE (i \in r.mode) # on
  <2>1. \E m : x \in Mode(r, m)
    BY <1>2, Zenon DEF Enable
  <2> QED
    BY <1>2, <2>1, ModeKeeps
<1> QED
  BY <1>1, <1>2

LEMMA StationOnKeeps ==
    ASSUME NEW r, Sound(r), NEW x \in EnableSTA(r, TRUE)
    PROVE  /\ SameNetwork(r, x.radio) /\ x.back \in BOOLEAN
           /\ "STA" \in r.mode => SameMode(r, x.radio) /\ x.back
  BY EnableKeeps DEF EnableSTA

(* Forced sleep, and waking up from it.                                    *)
LEMMA ForceSleepKeeps ==
    ASSUME NEW r, Sound(r), NEW x \in ForceSleepBegin(r)
    PROVE  /\ SameNetwork(r, x.radio) /\ x.back \in BOOLEAN
           /\ ~r.persistent => x.radio.flashMode = r.flashMode
<1> DEFINE s == [r EXCEPT !.lastMode = r.mode]
           asleep(y) == [y EXCEPT !.sleep = "MODEM"]
<1>1. SameMode(r, s)
  BY DEF Sound, SameMode, SameNetwork
<1>2. PICK z \in Mode(s, Off) :
          \/ x = Result(TRUE, asleep(z.radio))
          \/ \E y \in Refused(z.radio) : x = Result(FALSE, asleep(y))
          \/ x = Result(FALSE, z.radio)
  BY DEF ForceSleepBegin, After
<1> HIDE DEF s
<1>3. SameNetwork(s, z.radio) /\ (~s.persistent => z.radio.flashMode = s.flashMode)
  BY <1>1, ModeKeeps DEF SameMode, SameNetwork
<1>4. \A y : Sound(y) => SameMode(y, asleep(y))
  BY DEF Sound, SameMode, SameNetwork
<1>5. \A y \in Refused(z.radio) : SameMode(z.radio, y)
  BY <1>3, RefusedKeeps DEF SameNetwork
<1> HIDE DEF asleep
<1>6. \A y : Sound(y) /\ SameMode(z.radio, y) =>
          SameNetwork(r, y) /\ (~r.persistent => y.flashMode = r.flashMode)
  BY <1>1, <1>3 DEF SameMode, SameNetwork
<1>7. Sound(z.radio) /\ SameMode(z.radio, z.radio)
  BY <1>3, SameModeAll DEF SameNetwork
<1>8. CASE x = Result(TRUE, asleep(z.radio)) \/ x = Result(FALSE, z.radio)
  <2>1. \/ x.radio = asleep(z.radio) /\ x.back = TRUE
        \/ x.radio = z.radio /\ x.back = FALSE
    BY <1>8 DEF Result
  <2>2. SameMode(z.radio, x.radio) /\ x.back \in BOOLEAN
    BY <1>4, <1>7, <2>1
  <2> QED
    BY <1>6, <2>2 DEF SameMode, SameNetwork
<1>9. ASSUME NEW y \in Refused(z.radio), x = Result(FALSE, asleep(y)) PROVE SameMode(z.radio, x.radio) /\ x.back = FALSE
  BY <1>4, <1>5, <1>9 DEF Result, SameMode, SameNetwork
<1> QED
  BY <1>2, <1>6, <1>8, <1>9 DEF SameMode, SameNetwork

LEMMA WakeKeeps ==
    ASSUME NEW r, Sound(r), NEW x \in ForceSleepWake(r) PROVE SameNetwork(r, x.radio)
<1>1. PICK z \in Mode(WakeUp(r), r.lastMode) :
          \/ x = Result(TRUE, StationConnect(z.radio))
          \/ \E back : x = Result(back, z.radio)
  BY DEF ForceSleepWake, After
<1>2. SameNetwork(r, z.radio)
  BY SameModeAll, ModeKeeps DEF SameMode, SameNetwork
<1> QED
  BY <1>1, <1>2, SameModeAll DEF Result, SameMode, SameNetwork

-----------------------------------------------------------------------------
(* The station.                                                            *)
LEMMA SetConfigSets ==
    ASSUME NEW r, Sound(r), NEW c, IsConf(c)
    PROVE  /\ Sound(SetConfig(r, c)) /\ SetConfig(r, c).conf = c
           /\ SetConfig(r, c).mode = r.mode /\ SetConfig(r, c).persistent = r.persistent
  BY DEF Sound, SetConfig

LEMMA ConfIs == ASSUME NEW s, NEW p, NEW b
    PROVE  /\ IsConf(Conf(s, p, b)) /\ IsConf(NoConf)
           /\ Conf(s, p, b).ssid = s /\ Conf(s, p, b).pass = p
  BY DEF Conf, IsConf, NoConf

(* begin() of a network: in force when it goes on, or what the comparison  *)
(* found in its place.                                                     *)
Joins(back) == back \notin {"CONNECT_FAILED", "WRONG_PASSWORD"}
Now == TRUE

LEMMA BeginJoins ==
    ASSUME NEW r, Sound(r), NEW s, NEW p, NEW b, NEW connect,
           NEW x \in Begin(r, s, p, b, connect)
    PROVE  /\ Sound(x.radio)
           /\ "STA" \in r.mode /\ Joins(x.back) =>
                  /\ x.radio.mode = r.mode /\ x.radio.persistent = r.persistent
                  /\ \/ x.radio.conf = Conf(s, p, b)
                     \/ Compared(r) = Conf(s, p, b) /\ x.radio.conf = r.conf
<1> DEFINE c == Conf(s, p, b)
           done(y) == Dhcp(MaybeConnect(Configured(y, c), connect))
<1>1. PICK z \in EnableSTA(r, TRUE) :
          \/ x = Result("CONNECT_FAILED", z.radio)
          \/ x = Result("WRONG_PASSWORD", z.radio)
          \/ z.back /\ x = Report(done(z.radio))
  BY DEF Begin, After
<1>2. /\ SameNetwork(r, z.radio)
      /\ "STA" \in r.mode => SameMode(r, z.radio)
  BY StationOnKeeps
<1> HIDE DEF c
<1>3. IsConf(c)
  BY ConfIs DEF c
<1>4. ASSUME NEW y, Sound(y)
      PROVE  /\ Sound(done(y)) /\ done(y).mode = y.mode /\ done(y).persistent = y.persistent
             /\ done(y).conf = c \/ (Compared(y) = c /\ done(y).conf = y.conf)
  <2>1. /\ Sound(Configured(y, c)) /\ Configured(y, c).mode = y.mode
        /\ Configured(y, c).persistent = y.persistent
        /\ Configured(y, c).conf = c \/ (Compared(y) = c /\ Configured(y, c).conf = y.conf)
    BY <1>3, <1>4, SetConfigSets DEF Configured
  <2> DEFINE d == Configured(y, c)
  <2> HIDE DEF d
  <2>2. SameMode(d, MaybeConnect(d, connect))
    BY <2>1, SameModeAll DEF MaybeConnect, d
  <2>3. SameMode(d, Dhcp(MaybeConnect(d, connect)))
    BY <2>2, SameModeAll DEF SameMode, SameNetwork
  <2> QED
    BY <2>1, <2>3 DEF d, SameMode, SameNetwork
<1> HIDE DEF done
<1>5. CASE x = Result("CONNECT_FAILED", z.radio) \/ x = Result("WRONG_PASSWORD", z.radio)
  BY <1>2, <1>5 DEF Result, Joins, SameNetwork
<1>6. CASE x = Report(done(z.radio))
  BY <1>2, <1>4, <1>6 DEF Report, Result, SameMode, SameNetwork, Compared, c
<1> QED
  BY <1>1, <1>5, <1>6

LEMMA BeginSavedKeeps ==
    ASSUME NEW r, Sound(r), NEW x \in BeginSaved(r) PROVE SameNetwork(r, x.radio)
<1>1. PICK z \in EnableSTA(r, TRUE) :
          \/ x = Report(Dhcp(StationConnect(z.radio)))
          \/ x = Result("CONNECT_FAILED", z.radio)
  BY DEF BeginSaved, After
<1>2. SameNetwork(r, z.radio)
  BY StationOnKeeps
<1> QED
  BY <1>1, <1>2, SameModeAll DEF Report, Result, SameMode, SameNetwork

LEMMA ConfigKeeps ==
    ASSUME NEW r, Sound(r), NEW a, NEW x \in Config(r, a)
    PROVE  SameNetwork(r, x.radio) /\ ("STA" \in r.mode => SameMode(r, x.radio))
<1> DEFINE stopped(y) == [y EXCEPT !.dhcp = FALSE]
           fixed(y) == [stopped(y) EXCEPT !.useStaticIp = TRUE, !.ip = a]
           leased(y) == [y EXCEPT !.useStaticIp = FALSE, !.dhcp = TRUE]
<1>0. PICK z \in EnableSTA(r, TRUE) :
          x \in IF z.back
                THEN CASE a = None -> {Result(TRUE, leased(z.radio))}
                       [] a = TooLong -> {Result(FALSE, z.radio)}
                       [] OTHER -> {Result(TRUE, fixed(z.radio))}
                                   \union {Result(FALSE, stopped(y)) : y \in Refused(z.radio)}
                ELSE {Result(FALSE, z.radio)}
  BY DEF Config, After
<1>1. \E y \in {z.radio} \union Refused(z.radio) :
          x.radio \in {y, stopped(y), fixed(y), leased(y)}
  <2> HIDE DEF stopped, fixed, leased
  <2>1. None # TooLong
    BY DEF None, TooLong
  <2> QED
    BY <1>0, <2>1 DEF Result
<1>2. SameNetwork(r, z.radio) /\ ("STA" \in r.mode => SameMode(r, z.radio))
  BY StationOnKeeps
<1>3. \A y : Sound(y) => SameMode(y, stopped(y)) /\ SameMode(y, leased(y))
  BY DEF Sound, SameMode, SameNetwork
<1>4. \A y : Sound(y) => SameMode(y, [y EXCEPT !.useStaticIp = TRUE, !.ip = a])
  BY DEF Sound, SameMode, SameNetwork
<1>5. \A y : Sound(y) => SameMode(y, fixed(y))
  BY <1>3, <1>4, ZenonT(30) DEF SameMode, SameNetwork
<1>6. \A y \in {z.radio} \union Refused(z.radio) : SameMode(z.radio, y)
  BY <1>2, RefusedKeeps, SameModeAll DEF SameNetwork
<1> HIDE DEF stopped, fixed, leased
<1> QED
  BY <1>1, <1>2, <1>3, <1>5, <1>6 DEF Result, SameMode, SameNetwork

LEMMA ReconnectKeeps ==
    ASSUME NEW r, Sound(r), NEW x \in Reconnect(r) PROVE SameMode(r, x.radio)
  BY SameModeAll, RefusedKeeps DEF Reconnect, Result, SameMode, SameNetwork

LEMMA LinkKeeps ==
    ASSUME NEW r, Sound(r), NEW x \in LinkOutcomes(r) PROVE SameMode(r, x)
<1>1. /\ \A y, t : Sound(y) => SameMode(y, [y EXCEPT !.status = t])
      /\ SameMode(r, Reached(r))
  BY DEF Sound, SameMode, SameNetwork, Reached
<1> QED
  <2>1. CASE r.status = "CONNECTING"
    BY <1>1, <2>1 DEF LinkOutcomes
  <2>2. CASE r.status = "GOT_IP"
    <3>1. x = [StationDisconnect(r) EXCEPT !.status = "CONNECTING"]
      BY <2>2 DEF LinkOutcomes
    <3>2. SameMode(r, StationDisconnect(r))
      BY SameModeAll
    <3> QED
      BY <1>1, <3>1, <3>2 DEF SameMode, SameNetwork
  <2>3. CASE r.status \notin {"CONNECTING", "GOT_IP"}
    BY <2>3 DEF LinkOutcomes
  <2> QED
    BY <2>1, <2>2, <2>3

LEMMA DisconnectSound ==
    ASSUME NEW r, Sound(r), NEW off \in BOOLEAN, NEW x \in Disconnect(r, off) PROVE Sound(x.radio)
<1> DEFINE left == IF "STA" \in r.mode
                   THEN {Result(TRUE, StationDisconnect(r))} \union {Result(FALSE, y) : y \in Refused(r)}
                   ELSE {Result(TRUE, r)}
           cleared(y) == Result(y.back, SetConfig(y.radio, NoConf))
<1>1. PICK y \in left :
          \/ x = cleared(y)
          \/ \E z \in EnableSTA(cleared(y).radio, FALSE) : x = Result(cleared(y).back, z.radio)
  BY DEF Disconnect
<1>2. Sound(y.radio)
  BY RefusedKeeps, SameModeAll DEF Result, SameMode, SameNetwork
<1> HIDE DEF left
<1>3. Sound(cleared(y).radio)
  BY <1>2, SetConfigSets, ConfIs DEF Result
<1> HIDE DEF cleared
<1>4. \A z \in EnableSTA(cleared(y).radio, FALSE) : Sound(z.radio)
  BY <1>3, EnableKeeps DEF EnableSTA, SameNetwork
<1>5. CASE x = cleared(y)
  BY <1>3, <1>5
<1>6. ASSUME NEW z \in EnableSTA(cleared(y).radio, FALSE), x = Result(cleared(y).back, z.radio)
      PROVE  Sound(x.radio)
  BY <1>4, <1>6 DEF Result
<1> QED
  BY <1>1, <1>5, <1>6

LEMMA RefusedSound == ASSUME NEW r, Sound(r), NEW x \in Refused(r) PROVE Sound(x)
  BY RefusedKeeps DEF SameMode, SameNetwork

LEMMA ResultIs == \A back, r : Result(back, r).radio = r /\ Result(back, r).back = back
  BY DEF Result

LEMMA SmartKeeps ==
    ASSUME NEW r, Sound(r), NEW x \in BeginSmartConfig(r) \union StopSmartConfig(r)
    PROVE  Sound(x.radio)
<1> DEFINE started(y) == [y EXCEPT !.smartStarted = TRUE, !.smartDone = FALSE]
           stopped(y) == [y EXCEPT !.smartStarted = FALSE]
<1>1. \A y : Sound(y) => Sound(started(y)) /\ Sound(stopped(y))
  BY DEF Sound
<1>2. CASE x \in BeginSmartConfig(r)
  <2>1. x = Result(FALSE, r)
        \/ \E z \in EnableSTA(r, TRUE) :
              \/ x = Result(TRUE, started(z.radio)) \/ x = Result(FALSE, z.radio)
              \/ \E y \in Refused(z.radio) : x = Result(FALSE, y)
    BY <1>2 DEF BeginSmartConfig, After
  <2> HIDE DEF started
  <2>2. \/ x.radio = r
        \/ \E z \in EnableSTA(r, TRUE) :
              \/ x.radio = started(z.radio) \/ x.radio = z.radio \/ x.radio \in Refused(z.radio)
    <3>1. \A back, y : x = Result(back, y) => x.radio = y
      BY ResultIs
    <3> QED
      BY <2>1, <3>1
  <2>3. \A z \in EnableSTA(r, TRUE) : Sound(z.radio)
    BY StationOnKeeps DEF SameNetwork
  <2> QED
    BY <1>1, <2>2, <2>3, RefusedSound
<1>3. CASE x \in StopSmartConfig(r)
  <2>1. x = Result(TRUE, r) \/ x = Result(TRUE, stopped(r)) \/ \E y \in Refused(r) : x = Result(FALSE, y)
    BY <1>3 DEF StopSmartConfig
  <2> HIDE DEF stopped
  <2>2. x.radio = r \/ x.radio = stopped(r) \/ x.radio \in Refused(r)
    BY <2>1 DEF Result
  <2> QED
    BY <1>1, <2>2, RefusedSound
<1> QED
  BY <1>2, <1>3

(* What the callbacks store is a network.                                  *)
LEMMA StoredSound ==
    ASSUME NEW r, Sound(r), NEW s, NEW p, NEW success \in BOOLEAN
    PROVE  Sound(SmartLink(r, Conf(s, p, None))) /\ Sound(WpsStatus(r, success, Conf(s, p, None)))
<1> DEFINE c == Conf(s, p, None)
           stored == [r EXCEPT !.conf = c, !.flashConf = c]
<1>1. IsConf(c)
  BY ConfIs
<1> HIDE DEF c
<1>2. Sound(stored)
  BY <1>1 DEF Sound
<1> HIDE DEF stored
<1>3. Sound(StationConnect(stored)) /\ Sound(StationConnect(StationDisconnect(stored)))
  BY <1>2, SameModeAll DEF SameMode, SameNetwork
<1>4. \A y : Sound(y) => Sound([y EXCEPT !.smartDone = TRUE])
  BY DEF Sound
<1>5. SmartLink(r, c) = [StationConnect(StationDisconnect(stored)) EXCEPT !.smartDone = TRUE]
  BY DEF SmartLink, stored
<1>6. WpsStatus(r, success, c) = IF success THEN StationConnect(stored) ELSE r
  BY DEF WpsStatus, stored
<1> QED
  BY <1>3, <1>4, <1>5, <1>6 DEF c

LEMMA WpsSound ==
    ASSUME NEW r, Sound(r), NEW x \in BeginWPSConfig(r) PROVE Sound(x.radio)
<1> DEFINE pending(y) == {Result(TRUE, y)} \union {Result(FALSE, w) : w \in Refused(y)}
<1>0. PICK z \in EnableSTA(r, TRUE) :
          x \in IF z.back THEN UNION {pending(y.radio) : y \in Disconnect(z.radio, FALSE)}
                ELSE {Result(FALSE, z.radio)}
  BY DEF BeginWPSConfig, After
<1>1. \/ x.radio = z.radio
      \/ \E y \in Disconnect(z.radio, FALSE) : x.radio = y.radio \/ x.radio \in Refused(y.radio)
  <2>1. CASE x = Result(FALSE, z.radio)
    BY <2>1 DEF Result
  <2>2. ASSUME NEW y \in Disconnect(z.radio, FALSE), x \in pending(y.radio)
        PROVE  x.radio = y.radio \/ x.radio \in Refused(y.radio)
    BY <2>2 DEF Result
  <2> HIDE DEF pending
  <2>3. x = Result(FALSE, z.radio) \/ \E y \in Disconnect(z.radio, FALSE) : x \in pending(y.radio)
    BY <1>0
  <2> QED
    BY <2>1, <2>2, <2>3
<1>2. Sound(z.radio)
  BY StationOnKeeps DEF SameNetwork
<1>3. \A y \in Disconnect(z.radio, FALSE) : Sound(y.radio)
  BY <1>2, DisconnectSound
<1> QED
  BY <1>1, <1>2, <1>3, RefusedSound

-----------------------------------------------------------------------------
(* The access point has a network of its own.                              *)
LEMMA ApOnSound ==
    ASSUME NEW r, Sound(r), NEW on \in BOOLEAN, NEW x \in EnableAP(r, on) PROVE Sound(x.radio)
  BY EnableKeeps DEF EnableAP, SameNetwork

LEMMA ApConfigSound ==
    ASSUME NEW r, Sound(r), NEW ip, NEW x \in SoftAPConfig(r, ip) PROVE Sound(x.radio)
<1> DEFINE given(y) == [y EXCEPT !.apIp = ip, !.lease = ip]
           leaseOnly(y) == [y EXCEPT !.lease = ip]
<1>1. \A y : Sound(y) => Sound(given(y)) /\ Sound(leaseOnly(y))
  BY DEF Sound
<1>2. PICK z \in EnableAP(r, TRUE) :
          \/ x = Result(FALSE, z.radio) \/ x = Result(TRUE, given(z.radio))
          \/ \E y \in Refused(z.radio) : x = Result(FALSE, leaseOnly(y)) \/ x = Result(FALSE, given(y))
  BY DEF SoftAPConfig, After
<1> HIDE DEF given, leaseOnly
<1>3. Sound(z.radio)
  BY ApOnSound
<1> QED
  BY <1>1, <1>2, <1>3, RefusedSound DEF Result

LEMMA ApSound ==
    ASSUME NEW r, Sound(r), NEW s, NEW p, NEW x \in SoftAP(r, s, p) PROVE Sound(x.radio)
<1> DEFINE conf == [ssid |-> s, pass |-> p]
           set(y) == IF ApCompared(y) = conf THEN {Result(TRUE, y)}
                     ELSE {Result(TRUE, SetAp(y, conf))} \union {Result(FALSE, w) : w \in Refused(y)}
           refused(y) == {Result(FALSE, y)}
<1>0. PICK z \in EnableAP(r, TRUE) :
          x \in IF z.back
                THEN IF s \in {None, ApLong} \/ p = ApLong THEN refused(z.radio)
                     ELSE UNION {IF y.back THEN Addressed(y.radio) ELSE refused(y.radio) : y \in set(z.radio)}
                ELSE refused(z.radio)
  BY DEF SoftAP, After
<1>1. \/ x.radio = z.radio
      \/ \E y \in set(z.radio) : x \in Addressed(y.radio) \/ x.radio = y.radio
  <2>1. \A y : x \in refused(y) => x.radio = y
    BY DEF Result
  <2> HIDE DEF refused, set
  <2> QED
    BY <1>0, <2>1
<1>2. Sound(z.radio)
  BY ApOnSound
<1>3. \A y : Sound(y) => Sound(SetAp(y, conf))
  BY DEF Sound, SetAp
<1>4. \A y \in set(z.radio) : Sound(y.radio)
  BY <1>2, <1>3, RefusedSound DEF Result
<1> HIDE DEF set
<1>5. \A y : Sound(y) => \A w \in Addressed(y) : Sound(w.radio)
  BY ApConfigSound DEF Addressed, Result
<1> QED
  BY <1>1, <1>2, <1>4, <1>5

LEMMA ApLeaveSound ==
    ASSUME NEW r, Sound(r), NEW off \in BOOLEAN, NEW x \in SoftAPDisconnect(r, off)
    PROVE  Sound(x.radio)
<1>1. PICK z \in {Result(TRUE, SetAp(r, NoAp))} \union {Result(FALSE, y) : y \in Refused(r)} :
          x \in IF z.back THEN IF off THEN EnableAP(z.radio, FALSE) ELSE {Result(TRUE, z.radio)}
                ELSE {Result(FALSE, z.radio)}
  BY DEF SoftAPDisconnect, After
<1>2. Sound(SetAp(r, NoAp))
  BY DEF Sound, SetAp
<1>3. Sound(z.radio)
  BY <1>1, <1>2, RefusedSound DEF Result
<1>4. x \in EnableAP(z.radio, FALSE) \/ x.radio = z.radio
  <2>1. \A back, y : x = Result(back, y) => x.radio = y
    BY ResultIs
  <2> QED
    BY <1>1, <2>1
<1> QED
  BY <1>3, <1>4, ApOnSound

-----------------------------------------------------------------------------
(* The chip starts with the network that is in flash.                      *)
LEMMA BootsSound ==
    ASSUME NEW r, Sound(r), NEW atBoot
    PROVE  Sound(Boots(r, atBoot)) /\ Boots(r, atBoot).conf = Boots(r, atBoot).flashConf
  BY DEF Sound, Boots

LEMMA FreshSound ==
    /\ Sound(Fresh) /\ Sound([Fresh EXCEPT !.flashConf = NoConf])
    /\ \A s, p : Sound([Fresh EXCEPT !.flashConf = Conf(s, p, None)])
<1>1. IsConf(NoConf) /\ \A s, p : IsConf(Conf(s, p, None))
  BY ConfIs
<1>2. Sound(Fresh)
  BY <1>1 DEF Sound, Fresh
<1>3. \A c : IsConf(c) => Sound([Fresh EXCEPT !.flashConf = c])
  BY <1>2 DEF Sound
<1> QED
  BY <1>1, <1>2, <1>3

-----------------------------------------------------------------------------
(* shutdown: persistence is off while it lasts, so that the flash is spared *)
(* also by what undoes it.                                                 *)
LEMMA ShutdownKeeps ==
    ASSUME Sound(radio), NEW x \in Shutdown(radio)
    PROVE  /\ Sound(x.radio) /\ x.back \in BOOLEAN /\ x.radio.conf = radio.conf
           /\ x.radio.flashConf = radio.flashConf /\ x.radio.flashMode = radio.flashMode
<1> DEFINE p == Persistent(radio, FALSE)
           undone(y) == {Persistent(z.radio, radio.persistent) : z \in Mode(y, radio.mode)}
           Spared(y) == /\ Sound(y) /\ y.conf = radio.conf
                        /\ y.flashConf = radio.flashConf /\ y.flashMode = radio.flashMode
<1>0. \A back, y : x = Result(back, y) => x.radio = y /\ x.back = back
  BY ResultIs
<1>1. \A y, on : Spared(y) => Spared(Persistent(y, on)) /\ Persistent(y, on).persistent = on
  BY DEF Sound, Persistent
<1>2. Spared(p) /\ ~p.persistent
  <2>1. Spared(radio)
    OBVIOUS
  <2> QED
    BY <1>1, <2>1, ZenonT(30)
<1>3. CASE \E y \in Refused(radio) : x = Result(FALSE, y)
  <2>1. PICK y \in Refused(radio) : x = Result(FALSE, y)
    BY <1>3
  <2>2. SameMode(radio, y)
    BY RefusedKeeps
  <2>3. x.radio = y /\ x.back = FALSE
    BY <1>0, <2>1
  <2> QED
    BY <2>2, <2>3 DEF SameMode, SameNetwork
<1>4. ASSUME NEW z \in ForceSleepBegin(p),
             x \in IF z.back THEN {Result(TRUE, z.radio)} ELSE {Result(FALSE, y) : y \in undone(z.radio)}
      PROVE  x.back \in BOOLEAN /\ Spared(x.radio)
  <2> HIDE DEF p
  <2>1. SameNetwork(p, z.radio) /\ z.radio.flashMode = p.flashMode
    BY <1>2, ForceSleepKeeps
  <2>2. Spared(z.radio) /\ ~z.radio.persistent
    BY <1>2, <2>1 DEF SameNetwork
  <2>3. ASSUME NEW y \in Mode(z.radio, radio.mode) PROVE Spared(Persistent(y.radio, radio.persistent))
    <3>1. SameNetwork(z.radio, y.radio) /\ y.radio.flashMode = z.radio.flashMode
      BY <2>2, ModeKeeps
    <3>2. Spared(y.radio)
      BY <2>2, <3>1 DEF SameNetwork
    <3> QED
      BY <1>1, <3>2
  <2>4. \A y \in undone(z.radio) : Spared(y)
    BY <2>3
  <2> HIDE DEF undone, Spared
  <2> QED
    BY <1>0, <1>4, <2>2, <2>4
<1>5. \/ \E y \in Refused(radio) : x = Result(FALSE, y)
      \/ \E z \in ForceSleepBegin(p) :
             x \in IF z.back THEN {Result(TRUE, z.radio)} ELSE {Result(FALSE, y) : y \in undone(z.radio)}
  BY DEF Shutdown, After
<1> QED
  BY <1>3, <1>4, <1>5

(* Going back to the network that was saved.                               *)
SavedConf == Conf(saved.conf.ssid, saved.conf.pass, saved.conf.bssid)

LEMMA RejoinedKeeps ==
    ASSUME NEW r, Sound(r), NEW x \in Rejoined(r)
    PROVE  /\ Sound(x.radio) /\ x.back \in BOOLEAN
           /\ "STA" \in r.mode /\ x.back =>
                  /\ x.radio.mode = r.mode /\ x.radio.persistent = r.persistent
                  /\ x.radio.conf = SavedConf \/ (Compared(r) = SavedConf /\ x.radio.conf = r.conf)
<1> DEFINE addressed == IF saved.ip = None THEN {r} ELSE {y.radio : y \in Config(r, saved.ip)}
<1>1. PICK a \in addressed :
          \E y \in Begin(a, saved.conf.ssid, saved.conf.pass, saved.conf.bssid, Now) :
              x = Result(Joins(y.back), y.radio)
  <2>1. PICK a \in addressed :
            \E y \in Begin(a, saved.conf.ssid, saved.conf.pass, saved.conf.bssid, TRUE) :
                x = Result(y.back \notin {"CONNECT_FAILED", "WRONG_PASSWORD"}, y.radio)
    <3> DEFINE joined(z) == Begin(z, saved.conf.ssid, saved.conf.pass, saved.conf.bssid, TRUE)
               answer(y) == Result(y.back \notin {"CONNECT_FAILED", "WRONG_PASSWORD"}, y.radio)
    <3>1. x \in UNION {{answer(y) : y \in joined(z)} : z \in addressed}
      BY Zenon DEF Rejoined
    <3> HIDE DEF joined, answer, addressed
    <3>2. \E z \in addressed : \E y \in joined(z) : x = answer(y)
      BY <3>1, Zenon
    <3> QED
      BY <3>2, Zenon DEF joined, answer
  <2> QED
    BY <2>1, Zenon DEF Now, Joins
<1>2. SameNetwork(r, a) /\ ("STA" \in r.mode => SameMode(r, a))
  BY ConfigKeeps, SameModeAll DEF SameMode
<1>3. PICK y \in Begin(a, saved.conf.ssid, saved.conf.pass, saved.conf.bssid, Now) :
              x.radio = y.radio /\ x.back = Joins(y.back)
  <2>1. PICK y \in Begin(a, saved.conf.ssid, saved.conf.pass, saved.conf.bssid, Now) :
            x = Result(Joins(y.back), y.radio)
    BY <1>1
  <2>2. \A b, z : x = Result(b, z) => x.radio = z /\ x.back = b
    BY ResultIs
  <2>3. x.radio = y.radio /\ x.back = Joins(y.back)
    BY <2>1, <2>2
  <2> QED
    BY <2>3
<1>4. /\ Sound(y.radio)
      /\ "STA" \in a.mode /\ Joins(y.back) =>
             /\ y.radio.mode = a.mode /\ y.radio.persistent = a.persistent
             /\ y.radio.conf = SavedConf \/ (Compared(a) = SavedConf /\ y.radio.conf = a.conf)
  <2>1. Sound(a)
    BY <1>2 DEF SameNetwork
  <2> QED
    BY <2>1, BeginJoins DEF SavedConf
<1>5. Compared(a) = Compared(r)
  BY <1>2 DEF SameNetwork, Compared
<1> QED
  <2>1. x.back \in BOOLEAN /\ Sound(x.radio)
    BY <1>3, <1>4 DEF Joins
  <2>2. ASSUME "STA" \in r.mode, x.back PROVE Joins(y.back) /\ SameMode(r, a)
    BY <1>2, <1>3, <2>2
  <2> QED
    BY <1>3, <1>4, <1>5, <2>1, <2>2 DEF SameMode, SameNetwork

LEMMA ResumeKeeps ==
    ASSUME NEW r, Sound(r), NEW x \in Resume(r)
    PROVE  /\ Sound(x.radio) /\ x.back \in BOOLEAN
           /\ x.back =>
                  /\ x.radio.mode = saved.mode /\ x.radio.persistent = saved.persistent
                  /\ "STA" \in saved.mode =>
                         \/ x.radio.conf = SavedConf
                         \/ /\ SavedConf = IF saved.persistent THEN r.flashConf ELSE r.conf
                            /\ x.radio.conf = r.conf
<1> DEFINE w == Persistent(WakeUp(r), saved.persistent)
           network(y) == IF "STA" \in saved.mode THEN Rejoined(y) ELSE {Result(TRUE, y)}
<1>0. \A back, y : x = Result(back, y) => x.radio = y /\ x.back = back
  BY ResultIs
<1>1. CASE ~saved.valid
  <2>1. x = Result(FALSE, WakeUp(r))
    BY <1>1 DEF Resume
  <2>2. x.radio = WakeUp(r) /\ x.back = FALSE
    BY <1>0, <2>1
  <2> QED
    BY <2>2, SameModeAll DEF SameMode, SameNetwork
<1>2. CASE saved.valid
  <2>1. PICK z \in Mode(w, saved.mode) :
            x \in IF z.back
                  THEN UNION {IF n.back THEN {Result("AP" \notin saved.mode, n.radio)}
                              ELSE {Result(FALSE, n.radio)} : n \in network(z.radio)}
                  ELSE {Result(FALSE, z.radio)}
    BY <1>2 DEF Resume, After
  <2>2. /\ Sound(w) /\ w.conf = r.conf /\ w.flashConf = r.flashConf
        /\ w.persistent = saved.persistent
    BY DEF Sound, Persistent, WakeUp
  <2> HIDE DEF w
  <2>3. SameNetwork(w, z.radio) /\ z.back \in BOOLEAN /\ (z.back => z.radio.mode = saved.mode)
    BY <2>2, ModeKeeps
  <2>4. CASE ~z.back
    BY <1>0, <2>1, <2>3, <2>4 DEF SameNetwork
  <2>5. CASE z.back
    <3>1. PICK n \in network(z.radio) :
              x.radio = n.radio /\ x.back \in BOOLEAN /\ (x.back => n.back)
      <4> HIDE DEF network
      <4>1. PICK n \in network(z.radio) :
                x \in IF n.back THEN {Result("AP" \notin saved.mode, n.radio)} ELSE {Result(FALSE, n.radio)}
        BY <2>1, <2>5
      <4> QED
        BY <1>0, <4>1
    <3>2. CASE "STA" \in saved.mode
      <4>1. n \in Rejoined(z.radio) /\ "STA" \in z.radio.mode /\ Sound(z.radio)
        BY <2>3, <2>5, <3>1, <3>2 DEF SameNetwork
      <4>2. /\ Sound(n.radio) /\ n.back \in BOOLEAN
            /\ n.back =>
                  /\ n.radio.mode = z.radio.mode /\ n.radio.persistent = z.radio.persistent
                  /\ \/ n.radio.conf = SavedConf
                     \/ Compared(z.radio) = SavedConf /\ n.radio.conf = z.radio.conf
        BY <4>1, RejoinedKeeps
      <4> QED
        BY <2>2, <2>3, <2>5, <3>1, <4>2 DEF SameNetwork, Compared
    <3>3. CASE "STA" \notin saved.mode
      <4>1. n.radio = z.radio
        <5>1. n = Result(TRUE, z.radio)
          BY <3>1, <3>3
        <5> QED
          BY <5>1, ResultIs
      <4> QED
        BY <2>2, <2>3, <2>5, <3>1, <3>3, <4>1 DEF SameNetwork
    <3> QED
      BY <3>2, <3>3
  <2> QED
    BY <2>3, <2>4, <2>5
<1> QED
  BY <1>1, <1>2

-----------------------------------------------------------------------------
(* Whatever a sketch calls, the radio stays one.                           *)
LEMMA CallSound ==
    ASSUME NEW results, \A x \in results : Sound(x.radio), Calling(results)
    PROVE  Sound(radio') /\ cycle' = "awake"
  BY DEF Calling

LEMMA CallsSound ==
    ASSUME Sound(radio),
           SetPersistent \/ SetMode \/ Sleep \/ Join \/ Address \/ Leave \/ OpenAp \/ Smart
    PROVE  Sound(radio') /\ cycle' = "awake"
<1>1. CASE SetPersistent
  <2>1. PICK on \in BOOLEAN : Calling({Result(TRUE, Persistent(radio, on))})
    BY <1>1 DEF SetPersistent
  <2>2. Sound(Persistent(radio, on))
    BY DEF Sound, Persistent
  <2> QED
    BY <2>1, <2>2, CallSound DEF Result
<1>2. CASE SetMode
  <2>1. \A m : \A x \in Mode(radio, m) : Sound(x.radio)
    BY ModeKeeps DEF SameNetwork
  <2> QED
    BY <1>2, <2>1, CallSound DEF SetMode
<1>3. CASE Sleep
  <2>1. /\ \A x \in ForceSleepBegin(radio) : Sound(x.radio)
        /\ \A x \in ForceSleepWake(radio) : Sound(x.radio)
    BY ForceSleepKeeps, WakeKeeps DEF SameNetwork
  <2>2. \A x \in SetSleepMode(radio) : Sound(x.radio)
    BY RefusedSound DEF SetSleepMode, Result
  <2> QED
    BY <1>3, <2>1, <2>2, CallSound DEF Sleep
<1>4. CASE Join
  <2>1. ASSUME NEW s, NEW p, NEW b, Calling(Begin(radio, s, p, b, TRUE)) PROVE Sound(radio') /\ cycle' = "awake"
    <3>1. Calling(Begin(radio, s, p, b, Now))
      BY <2>1, Zenon DEF Now
    <3>2. \A x \in Begin(radio, s, p, b, Now) : Sound(x.radio)
      BY BeginJoins
    <3> QED
      BY <3>1, <3>2, CallSound
  <2>2. \A x \in BeginSaved(radio) : Sound(x.radio)
    BY BeginSavedKeeps DEF SameNetwork
  <2> QED
    BY <1>4, <2>1, <2>2, CallSound DEF Join
<1>5. CASE Address
  <2>1. \A a : \A x \in Config(radio, a) : Sound(x.radio)
    BY ConfigKeeps DEF SameNetwork
  <2> QED
    BY <1>5, <2>1, CallSound DEF Address
<1>6. CASE Leave
  <2>1. /\ \A x \in Reconnect(radio) : Sound(x.radio)
        /\ \A off \in BOOLEAN : \A x \in Disconnect(radio, off) : Sound(x.radio)
    BY ReconnectKeeps, DisconnectSound DEF SameMode, SameNetwork
  <2> QED
    BY <1>6, <2>1, CallSound DEF Leave
<1>7. CASE OpenAp
  <2>1. /\ \A s, p : \A x \in SoftAP(radio, s, p) : Sound(x.radio)
        /\ \A ip : \A x \in SoftAPConfig(radio, ip) : Sound(x.radio)
        /\ \A off \in BOOLEAN : \A x \in SoftAPDisconnect(radio, off) : Sound(x.radio)
    BY ApSound, ApConfigSound, ApLeaveSound
  <2> QED
    BY <1>7, <2>1, CallSound DEF OpenAp
<1>8. CASE Smart
  <2>1. \A x \in BeginSmartConfig(radio) \union StopSmartConfig(radio) : Sound(x.radio)
    BY SmartKeeps
  <2> QED
    BY <1>8, <2>1, CallSound DEF Smart
<1> QED
  BY <1>1, <1>2, <1>3, <1>4, <1>5, <1>6, <1>7, <1>8

(* What the SDK reports while the radio is down leaves its network alone.  *)
LEMMA EventsKeep ==
    ASSUME Sound(radio), LinkEvent \/ Downgraded
    PROVE  SameMode(radio, radio') /\ UNCHANGED <<saved, before, cycle>>
<1>1. CASE LinkEvent
  BY <1>1, LinkKeeps DEF LinkEvent, Event
<1>2. CASE Downgraded
  BY <1>2, ReconnectKeeps DEF Downgraded, Event
<1> QED
  BY <1>1, <1>2

LEMMA CallbacksSound ==
    ASSUME Sound(radio), SmartCallback \/ WpsCallback
    PROVE  Sound(radio') /\ cycle' = "awake"
<1>1. CASE SmartCallback
  <2>1. \A x \in SmartLinkOver(radio) : Sound(x)
    BY SmartKeeps DEF SmartLinkOver
  <2> QED
    BY <1>1, <2>1, StoredSound DEF SmartCallback
<1>2. CASE WpsCallback
  BY <1>2, StoredSound DEF WpsCallback
<1> QED
  BY <1>1, <1>2

-----------------------------------------------------------------------------
(* While the radio is down, what is saved is of the radio that was shut    *)
(* down; its network is still in force, or the one in flash after a        *)
(* restart, with which resume compares.                                    *)
Remembers ==
    cycle = "down" =>
        /\ saved.valid /\ saved.mode = before.mode /\ saved.persistent = before.persistent
        /\ "STA" \in before.mode =>
               /\ saved.conf.ssid = before.conf.ssid /\ saved.conf.pass = before.conf.pass
               /\ radio.conf = before.conf \/ radio.conf = radio.flashConf
StationInv == Sound(radio) /\ Remembers /\ ResumeRestores

LEMMA AwakeHolds == ASSUME Sound(radio'), cycle' = "awake" PROVE StationInv'
  BY DEF StationInv, Remembers, ResumeRestores

LEMMA ShutdownStep == ASSUME StationInv, ShutdownRadio PROVE StationInv'
<1>1. PICK x \in Shutdown(radio) :
          /\ radio' = x.radio
          /\ saved' = IF x.back THEN Saving(radio, radio.persistent)
                      ELSE HalfSaved(Saving(radio, radio.persistent))
          /\ before' = IF x.back THEN radio ELSE before
          /\ cycle' = IF x.back THEN "down" ELSE "awake"
  BY DEF ShutdownRadio
<1>2. Sound(radio') /\ radio'.conf = radio.conf /\ x.back \in BOOLEAN
  BY <1>1, ShutdownKeeps DEF StationInv
<1>3. CASE ~x.back
  BY <1>1, <1>2, <1>3, AwakeHolds
<1>4. CASE x.back
  <2>1. saved' = Saving(radio, radio.persistent) /\ before' = radio /\ cycle' = "down"
    BY <1>1, <1>4
  <2>2. /\ saved'.valid /\ saved'.mode = radio.mode /\ saved'.persistent = radio.persistent
        /\ "STA" \in radio.mode => saved'.conf.ssid = radio.conf.ssid /\ saved'.conf.pass = radio.conf.pass
    BY <2>1 DEF Saving, StationInv, Sound, IsConf
  <2> QED
    BY <1>2, <2>1, <2>2 DEF StationInv, Remembers, ResumeRestores
<1> QED
  BY <1>2, <1>3, <1>4

LEMMA ResumeStep == ASSUME StationInv, ResumeRadio PROVE StationInv'
<1>1. PICK x \in Resume(radio) :
          /\ radio' = x.radio /\ before' = before
          /\ cycle' = IF cycle = "down" /\ x.back THEN "up" ELSE "awake"
  BY DEF ResumeRadio
<1>2. /\ Sound(x.radio) /\ x.back \in BOOLEAN
      /\ x.back =>
             /\ x.radio.mode = saved.mode /\ x.radio.persistent = saved.persistent
             /\ "STA" \in saved.mode =>
                    \/ x.radio.conf = SavedConf
                    \/ /\ SavedConf = IF saved.persistent THEN radio.flashConf ELSE radio.conf
                       /\ x.radio.conf = radio.conf
  BY ResumeKeeps DEF StationInv
<1>3. CASE cycle' = "awake"
  BY <1>1, <1>2, <1>3, AwakeHolds
<1>4. CASE cycle = "down" /\ x.back
  <2>1. radio'.mode = before'.mode /\ radio'.persistent = before'.persistent
    BY <1>1, <1>2, <1>4 DEF StationInv, Remembers
  <2>2. SavedConf.ssid = saved.conf.ssid /\ SavedConf.pass = saved.conf.pass
    BY ConfIs DEF SavedConf
  <2>3. "STA" \in before.mode => radio'.conf.ssid = before.conf.ssid /\ radio'.conf.pass = before.conf.pass
    BY <1>1, <1>2, <1>4, <2>2 DEF StationInv, Remembers
  <2> QED
    BY <1>1, <1>2, <1>4, <2>1, <2>3 DEF StationInv, Remembers, ResumeRestores
<1> QED
  BY <1>1, <1>2, <1>3, <1>4

LEMMA StationStep == ASSUME StationInv, [StationNext]_stationVars PROVE StationInv'
<1> USE DEF StationInv
<1>1. CASE LinkEvent \/ Downgraded
  BY <1>1, EventsKeep DEF SameMode, SameNetwork, Remembers, ResumeRestores
<1>2. CASE SmartCallback \/ WpsCallback
  BY <1>2, CallbacksSound, AwakeHolds
<1>3. CASE SetPersistent \/ SetMode \/ Sleep \/ Join \/ Address \/ Leave \/ OpenAp \/ Smart
  BY <1>3, CallsSound, AwakeHolds
<1>4. CASE BeginWPS
  BY <1>4, WpsSound, AwakeHolds DEF BeginWPS
<1>5. CASE Register \/ Forget \/ UNCHANGED stationVars
  BY <1>5 DEF Register, Forget, stationVars, Remembers, ResumeRestores
<1>6. CASE ShutdownRadio
  BY <1>6, ShutdownStep
<1>7. CASE ResumeRadio
  BY <1>7, ResumeStep
<1>8. CASE Restart
  <2>1. /\ Sound(radio') /\ radio'.conf = radio'.flashConf
        /\ UNCHANGED <<saved, before>> /\ cycle' = IF cycle = "down" THEN cycle ELSE "awake"
    BY <1>8, BootsSound DEF Restart
  <2> QED
    BY <2>1 DEF Remembers, ResumeRestores
<1> QED
  BY <1>1, <1>2, <1>3, <1>4, <1>5, <1>6, <1>7, <1>8 DEF StationNext, StationEvents

-----------------------------------------------------------------------------
(* The other sketches: what ESP8266WiFiMulti does to the radio.            *)
LEMMA ScanSound ==
    ASSUME NEW r, Sound(r), NEW sc, NEW async, NEW x \in ScanNetworks(r, sc, async)
    PROVE  Sound(x.radio)
<1> DEFINE stirred(y) == IF y.status \in {"GOT_IP", "IDLE"} THEN y ELSE StationDisconnect(y)
<1>0. \A back, y, n : x = Scanned(back, y, n) => x.radio = y
  BY DEF Scanned
<1> DEFINE ready == ScanDelete([sc EXCEPT !.async = async])
           going(y) == Scanned("RUNNING", y, [ready EXCEPT !.started = TRUE, !.complete = FALSE])
<1>1. \/ x.radio = r
      \/ \E z \in EnableSTA(r, TRUE) :
            x.radio = stirred(z.radio) \/ x.radio \in Refused(stirred(z.radio))
  <2>1. \/ x = Scanned("RUNNING", r, sc)
        \/ \E z \in EnableSTA(r, TRUE) :
              \/ x = going(stirred(z.radio))
              \/ \E y \in Refused(stirred(z.radio)) : x = Scanned("FAILED", y, ready)
    BY DEF ScanNetworks
  <2> HIDE DEF stirred, ready
  <2> QED
    BY <1>0, <2>1
<1>2. \A z \in EnableSTA(r, TRUE) : Sound(z.radio)
  BY StationOnKeeps DEF SameNetwork
<1>3. \A y : Sound(y) => Sound(stirred(y))
  BY SameModeAll DEF SameMode, SameNetwork
<1> HIDE DEF stirred
<1> QED
  BY <1>1, <1>2, <1>3, RefusedSound

LEMMA LookSound == ASSUME Sound(radio), Look(radio) PROVE Sound(radio')
<1>1. CASE radio' = radio
  BY <1>1
<1>2. CASE StartScan(radio)
  <2>1. PICK y \in {x.radio : x \in Disconnect(radio, FALSE)} :
            \E x \in ScanNetworks(y, ScanDelete(scan), TRUE) : radio' = x.radio
    BY <1>2 DEF StartScan
  <2>2. Sound(y)
    BY DisconnectSound
  <2> QED
    BY <2>1, <2>2, ScanSound
<1> QED
  BY <1>1, <1>2 DEF Look

LEMMA TrySound ==
    ASSUME Sound(radio), NEW c, NEW entry, NEW bssid, Try(c, entry, bssid) PROVE Sound(radio')
<1>1. PICK x \in Begin(radio, list[entry].ssid, list[entry].pass, bssid, Now) : radio' = x.radio
  BY Zenon DEF Try, Now
<1> QED
  BY <1>1, BeginJoins

LEMMA TriesSound ==
    ASSUME Sound(radio), NEW c, TryHidden(c) \/ TryNext(c) PROVE Sound(radio')
<1>1. ASSUME TryHidden(c) PROVE Sound(radio')
  BY <1>1, TrySound DEF TryHidden
<1> QED
  BY <1>1, TrySound DEF TryNext

LEMMA MultiSound == ASSUME Sound(radio), [MultiNext]_multiVars PROVE Sound(radio')
<1>1. CASE Run
  <2>1. \A x \in BeginSaved(radio) : Sound(x.radio)
    BY BeginSavedKeeps DEF SameNetwork
  <2> QED
    BY <1>1, <2>1, LookSound DEF Run
<1>2. CASE Saved
  BY <1>2, LookSound DEF Saved
<1>3. CASE ScanWaited
  BY <1>3, TriesSound DEF ScanWaited
<1>4. CASE Visible
  BY <1>4, TriesSound DEF Visible
<1>5. CASE Hidden
  BY <1>5, TriesSound DEF Hidden
<1>6. CASE Overrun
  BY <1>6, BootsSound DEF Overrun
<1>7. CASE OwnScan
  <2>1. \A sc, async : \A x \in ScanNetworks(radio, sc, async) : Sound(x.radio)
    BY ScanSound
  <2>2. \A x \in ScanNetworksAsync(radio, scan) : Sound(x.radio)
    <3>1. TRUE = Now
      BY DEF Now
    <3> QED
      BY <2>1, <3>1 DEF ScanNetworksAsync
  <2>3. \/ \E async : \E x \in ScanNetworks(radio, scan, async) : radio' = x.radio
        \/ \E x \in ScanNetworksAsync(radio, scan) : radio' = x.radio
        \/ radio' = radio
    BY <1>7 DEF OwnScan
  <2> QED
    BY <2>1, <2>2, <2>3
<1>8. CASE LinkChanges
  BY <1>8, LinkKeeps DEF LinkChanges, SameMode, SameNetwork
<1>9. CASE AddAP \/ CleanAPlist \/ Resumed \/ ScanReports \/ UNCHANGED multiVars
  BY <1>9 DEF AddAP, CleanAPlist, Resumed, ScanReports, multiVars
<1> QED
  BY <1>1, <1>2, <1>3, <1>4, <1>5, <1>6, <1>7, <1>8, <1>9 DEF MultiNext, Waits

-----------------------------------------------------------------------------
(* Whichever sketch runs, the radio is one, and only the first shuts it    *)
(* down.                                                                   *)
RadioInv == StationInv /\ (family # "station" => cycle = "awake")

LEMMA StartsSound == ASSUME NEW atBoot, NEW r \in Starts(atBoot) PROVE Sound(r)
<1> DEFINE kept == {NoConf} \union {Conf(s, p, None) : s \in Ssids, p \in Passes}
<1>1. PICK c \in kept : r = Boots([Fresh EXCEPT !.flashConf = c], atBoot)
  BY DEF Starts
<1>2. Sound([Fresh EXCEPT !.flashConf = NoConf])
  BY FreshSound
<1>3. \A s, p : Sound([Fresh EXCEPT !.flashConf = Conf(s, p, None)])
  BY FreshSound
<1>4. Sound([Fresh EXCEPT !.flashConf = c])
  BY <1>2, <1>3
<1> QED
  BY <1>1, <1>4, BootsSound

LEMMA RadioStarts == WirelessInit => RadioInv
<1> SUFFICES ASSUME WirelessInit PROVE RadioInv
  OBVIOUS
<1>1. cycle = "awake" /\ family \in {"station", "multi", "shield"}
  BY DEF WirelessInit, StationInit, NoStation
<1>4. Sound(radio)
  <2>1. CASE StationInit
    BY <2>1, StartsSound DEF StationInit
  <2>2. CASE MultiInit
    BY <2>2, StartsSound DEF MultiInit
  <2>3. CASE radio = Fresh
    BY <2>3, FreshSound
  <2> QED
    BY <2>1, <2>2, <2>3 DEF WirelessInit
<1> QED
  BY <1>1, <1>4 DEF RadioInv, StationInv, Remembers, ResumeRestores

LEMMA RadioStep == ASSUME RadioInv, [WirelessNext]_wirelessVars PROVE RadioInv'
<1> USE DEF RadioInv
<1>1. CASE UNCHANGED family /\ family = "station" /\ StationNext
  BY <1>1, StationStep
<1>3. CASE UNCHANGED family /\ family = "multi" /\ MultiNext /\ UNCHANGED stationOnly
  BY <1>3, MultiSound, AwakeHolds DEF StationInv, stationOnly
<1>4. CASE UNCHANGED <<radio, stationOnly, family>>
  BY <1>4 DEF stationOnly, StationInv, Remembers, ResumeRestores
<1> QED
  BY <1>1, <1>3, <1>4 DEF WirelessNext, wirelessVars, stationOnly

(* A radio that has been shut down and resumed has the interfaces, the     *)
(* persistence and the network it was shut down with, over any restarts    *)
(* and whatever the SDK reports in between: resumeFromShutdown of          *)
(* ESP8266WiFiGeneric.cpp.                                                 *)
THEOREM ResumeRestoresHolds == WirelessSpec => []ResumeRestores
<1>1. RadioInv => ResumeRestores
  BY DEF RadioInv, StationInv
<1> QED
  BY RadioStarts, RadioStep, <1>1, PTL DEF WirelessSpec

(* Shutting down never touches the flash, though it turns the radio off    *)
(* and, when it is undone half way, on again: persistence is off while it  *)
(* lasts.                                                                  *)
THEOREM ShutdownSparesFlashHolds == WirelessSpec => ShutdownSparesFlash
<1>1. ASSUME RadioInv, ShutdownRadio
      PROVE  radio'.flashMode = radio.flashMode /\ radio'.flashConf = radio.flashConf
  BY <1>1, ShutdownKeeps DEF RadioInv, StationInv, ShutdownRadio
<1>2. RadioInv /\ [WirelessNext]_wirelessVars =>
          [ShutdownRadio => radio'.flashMode = radio.flashMode /\ radio'.flashConf = radio.flashConf]_stationVars
  BY <1>1
<1> QED
  BY RadioStarts, RadioStep, <1>2, PTL DEF WirelessSpec, ShutdownSparesFlash
=============================================================================
