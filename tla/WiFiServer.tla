----------------------------- MODULE WiFiServer -----------------------------
(***************************************************************************)
(* A server of ESP8266WiFi and the clients it hands out: WiFiServer.cpp,   *)
(* ArduinoWiFiServer.h, the copies of WiFiClient.cpp and the reference     *)
(* counts of include/ClientContext.h.  A WiFiClient is a pointer to a      *)
(* counted context.  lwIP calls the server and the contexts back whenever  *)
(* the sketch yields: between two of its calls and, within a call, at      *)
(* every available() that finds nothing.                                   *)
(***************************************************************************)
EXTENDS Integers, Sequences, FiniteSets

CONSTANTS
    Guests,       \* the sketch's own clients
    MaxMonitored, \* MAX_MONITORED_CLIENTS
    Contexts,     \* bound: contexts on the heap
    Backlogs,     \* what begin is called with
    NoContext     \* a null _client

ASSUME ServerAssumption ==
    /\ MaxMonitored \in Nat \ {0} /\ Backlogs \subseteq Nat
    /\ IsFiniteSet(Guests) /\ Guests \intersect (0..MaxMonitored - 1) = {}
    /\ IsFiniteSet(Contexts) /\ NoContext \notin Contexts

VARIABLES
    ctx,       \* the contexts: _refcnt, _pcb, the bytes to read, and of lwIP
               \* whether the peer has ended and whether it holds back a place
    holding,   \* _client of every WiFiClient
    unclaimed, \* _unclaimed and the contexts chained to it
    listener,  \* _listen_pcb, with lwIP's count of the places held back
    index,     \* where available() of ArduinoWiFiServer goes on
    walk       \* where it, or close(), is among the monitored clients

serverVars == <<ctx, holding, unclaimed, listener, index, walk>>

Slots == 0..MaxMonitored - 1
Holders == Slots \union Guests

Deleted == [live |-> FALSE, refs |-> 0, pcb |-> FALSE, unread |-> 0, ended |-> FALSE,
            delayed |-> FALSE, passed |-> 0]
Newcomer == [Deleted EXCEPT !.live = TRUE, !.pcb = TRUE, !.delayed = TRUE]
NotListening == [open |-> FALSE, backlog |-> 0, pending |-> 0]
NoWalk == [at |-> "idle", slot |-> 0, into |-> 0]

\* the heap gives the same context whenever it can
FreeContext == IF \E c \in Contexts : ~ctx[c].live THEN CHOOSE c \in Contexts : ~ctx[c].live
               ELSE NoContext

ServerInit ==
    /\ ctx = [c \in Contexts |-> Deleted]
    /\ holding = [h \in Holders |-> NoContext]
    /\ unclaimed = <<>> /\ listener = NotListening
    /\ index = 0 /\ walk = NoWalk

-----------------------------------------------------------------------------
(* ClientContext.h: ref, unref, and operator= of WiFiClient.  An object    *)
(* assigned to itself would delete the context it goes on to count: no     *)
(* caller does that, and neither does this module.                         *)
Ref(cs, c) == IF c = NoContext THEN cs ELSE [cs EXCEPT ![c].refs = @ + 1]

\* discard_received, close, delete
Unref(cs, c) ==
    IF c = NoContext THEN cs
    ELSE IF cs[c].refs = 1 THEN [cs EXCEPT ![c] = Deleted]
    ELSE [cs EXCEPT ![c].refs = @ - 1]

BugAssigned(cs, h, c) == Unref(cs, holding[h])
Assigned(cs, h, c) == Ref(Unref(cs, holding[h]), c)

\* A client returned by value: the temporary counts too, until it goes.
FromTemporary(h, c) ==
    /\ ctx' = Unref(Assigned(Ref(ctx, c), h, c), c)
    /\ holding' = [holding EXCEPT ![h] = c]

\* lwIP frees a pcb, and with it the place it held back.
Freed(cs, c) == [cs EXCEPT ![c].pcb = FALSE, ![c].delayed = FALSE]
PlacesAfter(cs) ==
    [listener EXCEPT !.pending = Cardinality({c \in Contexts : cs[c].delayed})]

StateClosed(c) == c = NoContext \/ ~ctx[c].pcb \/ ctx[c].ended
HasData(c) == c # NoContext /\ ctx[c].unread > 0

-----------------------------------------------------------------------------
(* begin.  It closes first; a backlog of 0, no memory or a port in use     *)
(* leave it closed.  What the old listener held back is no longer counted. *)
NoneDelayed == [c \in Contexts |-> [ctx[c] EXCEPT !.delayed = FALSE]]

Begin(backlog) ==
    /\ ctx' = IF listener.open THEN NoneDelayed ELSE ctx
    /\ \/ listener' = NotListening
       \/ backlog > 0 /\ listener' = [open |-> TRUE, backlog |-> backlog, pending |-> 0]
    /\ UNCHANGED <<holding, unclaimed, index, walk>>

CloseListener ==
    /\ listener.open
    /\ ctx' = NoneDelayed /\ listener' = NotListening
    /\ UNCHANGED <<holding, unclaimed, index, walk>>

(* _accept: lwIP has a new connection, and room for it in the backlog.     *)
OnAccept ==
    /\ listener.open /\ listener.pending < listener.backlog
    /\ LET c == FreeContext
       IN  /\ c # NoContext
           /\ ctx' = [ctx EXCEPT ![c] = Newcomer] /\ unclaimed' = Append(unclaimed, c)
    /\ listener' = [listener EXCEPT !.pending = @ + 1]
    /\ UNCHANGED <<holding, index, walk>>

OnData(c) ==
    /\ ctx[c].pcb /\ ~ctx[c].ended /\ ctx[c].unread = 0
    /\ ctx' = [ctx EXCEPT ![c].unread = 1]
    /\ UNCHANGED <<holding, unclaimed, listener, index, walk>>

(* _recv without data: the context keeps the pcb while there is something  *)
(* to read and lets it go otherwise; _error lets it go at once.            *)
OnEnd(c) ==
    /\ ctx[c].pcb /\ ~ctx[c].ended
    /\ ctx' = IF ctx[c].unread > 0 THEN [ctx EXCEPT ![c].ended = TRUE] ELSE Freed(ctx, c)
    /\ listener' = PlacesAfter(ctx')
    /\ UNCHANGED <<holding, unclaimed, index, walk>>

OnFailure(c) ==
    /\ ctx[c].pcb
    /\ ctx' = Freed(ctx, c) /\ listener' = PlacesAfter(ctx')
    /\ UNCHANGED <<holding, unclaimed, index, walk>>

-----------------------------------------------------------------------------
(* accept: the first client nobody has claimed, and its place in the       *)
(* backlog is free again; none is a client without a connection.           *)
PlaceGivenBack(c) ==
    listener' = IF ctx[c].delayed THEN [listener EXCEPT !.pending = @ - 1] ELSE listener

Accept(h) ==
    IF unclaimed = <<>>
    THEN FromTemporary(h, NoContext) /\ UNCHANGED <<unclaimed, listener>>
    ELSE LET c == Head(unclaimed)
             claimed == [ctx EXCEPT ![c].delayed = FALSE]
         IN  /\ ctx' = Unref(Assigned(Ref(claimed, c), h, c), c)
             /\ holding' = [holding EXCEPT ![h] = c]
             /\ unclaimed' = Tail(unclaimed)
             /\ PlaceGivenBack(c)

GuestAccepts(g) == Accept(g) /\ UNCHANGED <<index, walk>>

(* What the sketch does with its clients.                                  *)
CopyClient(g, from) ==
    /\ g # from
    /\ ctx' = Assigned(ctx, g, holding[from])
    /\ holding' = [holding EXCEPT ![g] = holding[from]]
    /\ UNCHANGED <<unclaimed, listener, index, walk>>

DropClient(g) ==
    /\ holding[g] # NoContext
    /\ ctx' = Unref(ctx, holding[g]) /\ holding' = [holding EXCEPT ![g] = NoContext]
    /\ UNCHANGED <<unclaimed, listener, index, walk>>

ReadClient(g) ==
    /\ HasData(holding[g])
    /\ ctx' = [ctx EXCEPT ![holding[g]].unread = 0, ![holding[g]].passed = 0]
    /\ UNCHANGED <<holding, unclaimed, listener, index, walk>>

(* stop closes the connection and keeps the context; stopAll stops every   *)
(* client there is; stopAllExcept compares the clients, not the contexts,  *)
(* and so may stop the one it spares through a copy of it.                 *)
Stopped(hs) ==
    LET cs == {holding[h] : h \in hs} \ {NoContext}
    IN  /\ \E c \in cs : ctx[c].pcb
        /\ ctx' = [c \in Contexts |-> IF c \in cs THEN [ctx[c] EXCEPT !.pcb = FALSE] ELSE ctx[c]]
        /\ UNCHANGED <<holding, unclaimed, listener, index>>

StopClient(g) == Stopped({g}) /\ UNCHANGED walk
StopAll == Stopped(Holders) /\ UNCHANGED walk
StopAllExcept(g) == Stopped(Holders \ {g}) /\ UNCHANGED walk

-----------------------------------------------------------------------------
(* ArduinoWiFiServer.  `if (client)' is two looks with a yield between:    *)
(* whether there is something to read, then whether it is connected.  A    *)
(* monitored client that is neither is replaced by the next unclaimed one. *)
Goes(at, slot) == walk' = [walk EXCEPT !.at = at, !.slot = slot]
AfterSlot(at, last) == IF walk.slot + 1 = MaxMonitored THEN last ELSE Goes(at, walk.slot + 1)

Available(g) ==
    /\ walk' = [at |-> "fill", slot |-> 0, into |-> g]
    /\ UNCHANGED <<ctx, holding, unclaimed, listener, index>>

LookForData ==
    /\ walk.at \in {"fill", "end"} /\ holding[walk.slot] # NoContext
    /\ IF ~HasData(holding[walk.slot])
       THEN Goes(IF walk.at = "fill" THEN "fill?" ELSE "end?", walk.slot)
       ELSE IF walk.at = "fill" THEN AfterSlot("fill", Goes("find", 0))
       ELSE Goes("stop", walk.slot)
    /\ UNCHANGED <<ctx, holding, unclaimed, listener, index>>

Replace ==
    /\ \/ walk.at = "fill" /\ holding[walk.slot] = NoContext
       \/ walk.at = "fill?" /\ StateClosed(holding[walk.slot])
    /\ Accept(walk.slot) /\ AfterSlot("fill", Goes("find", 0))
    /\ UNCHANGED index

Keep ==
    /\ walk.at = "fill?" /\ ~StateClosed(holding[walk.slot])
    /\ AfterSlot("fill", Goes("find", 0))
    /\ UNCHANGED <<ctx, holding, unclaimed, listener, index>>

(* The search goes on after the client returned last.                      *)
BugTurn(i) == walk.slot
Turn(i) == IF i = MaxMonitored THEN 0 ELSE i

PassedOver(cs, s) ==
    LET over == {holding[t] : t \in Slots \ {s}} \ {NoContext}
    IN  [c \in Contexts |-> IF c \in over /\ cs[c].unread > 0 THEN [cs[c] EXCEPT !.passed = @ + 1]
                            ELSE IF c = holding[s] THEN [cs[c] EXCEPT !.passed = 0] ELSE cs[c]]

Find ==
    /\ walk.at = "find"
    /\ LET s == Turn(index)  c == holding[s]  g == walk.into
       IN  /\ index' = s + 1
           /\ IF HasData(c)
              THEN /\ ctx' = Unref(Assigned(Ref(PassedOver(ctx, s), c), g, c), c)
                   /\ holding' = [holding EXCEPT ![g] = c]
                   /\ walk' = NoWalk
              ELSE IF walk.slot + 1 < MaxMonitored
              THEN Goes("find", walk.slot + 1) /\ UNCHANGED <<ctx, holding>>
              ELSE FromTemporary(g, NoContext) /\ walk' = NoWalk
    /\ UNCHANGED <<unclaimed, listener>>

(* close: the listener, then every monitored client that is still one.     *)
End ==
    /\ IF listener.open THEN ctx' = NoneDelayed /\ listener' = NotListening
       ELSE UNCHANGED <<ctx, listener>>
    /\ walk' = [NoWalk EXCEPT !.at = "end"]
    /\ UNCHANGED <<holding, unclaimed, index>>

EndSkips ==
    /\ \/ walk.at = "end" /\ holding[walk.slot] = NoContext
       \/ walk.at = "end?" /\ StateClosed(holding[walk.slot])
    /\ AfterSlot("end", walk' = NoWalk)
    /\ UNCHANGED <<ctx, holding, unclaimed, listener, index>>

EndStops ==
    /\ \/ walk.at = "end?" /\ ~StateClosed(holding[walk.slot])
       \/ walk.at = "stop"
    /\ ctx' = [ctx EXCEPT ![holding[walk.slot]].pcb = FALSE]
    /\ AfterSlot("end", walk' = NoWalk)
    /\ UNCHANGED <<holding, unclaimed, listener, index>>

-----------------------------------------------------------------------------
ServerCall ==
    /\ walk.at = "idle"
    /\ \/ \E b \in Backlogs : Begin(b)
       \/ CloseListener \/ StopAll \/ End
       \/ \E g \in Guests :
             \/ GuestAccepts(g) \/ DropClient(g) \/ ReadClient(g) \/ Available(g)
             \/ StopClient(g) \/ StopAllExcept(g)
             \/ \E from \in Guests : CopyClient(g, from)

ServerWalks == LookForData \/ Replace \/ Keep \/ Find \/ EndSkips \/ EndStops

ServerCallback ==
    \/ OnAccept
    \/ \E c \in Contexts : OnData(c) \/ OnEnd(c) \/ OnFailure(c)

ServerNext == ServerCall \/ ServerWalks \/ ServerCallback

ServerSpec == ServerInit /\ [][ServerNext]_serverVars

-----------------------------------------------------------------------------
(* The types of the server's variables.                                    *)
ContextRecord ==
    [live : BOOLEAN, refs : Nat, pcb : BOOLEAN, unread : Nat, ended : BOOLEAN,
     delayed : BOOLEAN, passed : Nat]
ServerTypeOK ==
    /\ ctx \in [Contexts -> ContextRecord]
    /\ holding \in [Holders -> Contexts \union {NoContext}]
    /\ unclaimed \in Seq(Contexts)
    /\ listener \in [open : BOOLEAN, backlog : Nat, pending : Nat]
    /\ index \in 0..MaxMonitored
    /\ walk \in [at : {"idle", "fill", "fill?", "find", "end", "end?", "stop"},
                 slot : Slots, into : Guests \union {0}]
    /\ walk.at \in {"fill", "fill?", "find"} => walk.into \in Guests

(* A context lives as long as somebody may use it and no longer: it counts *)
(* the clients that hold it, none exactly while it waits to be claimed; a  *)
(* deleted one is held by nobody and waits nowhere.  And a server with     *)
(* nobody to hand out holds no place of its backlog back: it goes on       *)
(* listening, whatever became of the clients it handed out.                *)
ContextsCounted ==
    /\ \A c \in Contexts :
          LET waiting == \E k \in DOMAIN unclaimed : unclaimed[k] = c
          IN  /\ ctx[c].refs = Cardinality({h \in Holders : holding[h] = c})
              /\ ctx[c].live => (ctx[c].refs = 0 <=> waiting)
              /\ ~ctx[c].live => ctx[c].refs = 0 /\ ~waiting
    /\ unclaimed = <<>> => listener.pending = 0

(* No monitored client waits for ever behind others that always have data: *)
(* from when it has something to read, available() returns each of the     *)
(* other ones at most once before it.                                      *)
RoundRobin ==
    \A s \in Slots :
        holding[s] # NoContext => ctx[holding[s]].passed < MaxMonitored
=============================================================================
