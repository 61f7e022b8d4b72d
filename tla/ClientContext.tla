--------------------------- MODULE ClientContext ---------------------------
(***************************************************************************)
(* A WiFiClient and the ClientContext behind it (libraries/lib_dependen-   *)
(* cies/ESP8266WiFi/src: WiFiClient.cpp, include/ClientContext.h), which   *)
(* the telemetry writes through.                                           *)
(*                                                                         *)
(* The sketch is the only thread.  lwIP runs while the thread sleeps in    *)
(* esp_delay or esp_yield, or between two calls, so the callbacks are      *)
(* actions enabled at those points and everything between two points is    *)
(* one step.  Bytes are counted, not named; for a byte that lwIP has not   *)
(* seen acknowledged the model keeps whether lwIP copied it or only        *)
(* borrowed the caller's buffer.  A connection that was closed or aborted  *)
(* leaves the model.                                                       *)
(***************************************************************************)
EXTENDS Integers, Sequences, PbufChain

CONSTANTS
    SndBuf,    \* TCP_SND_BUF
    Wnd,       \* TCP_WND
    Sizes,     \* lengths passed to write
    Timeout,   \* _timeout_ms, in ticks
    FlushWait  \* max_wait_ms of wait_until_acked, in ticks

ASSUME ContextAssumption ==
    /\ SndBuf \in Nat \ {0} /\ Wnd \in Nat \ {0}
    /\ Sizes \subseteq Nat \ {0}
    /\ Timeout \in Nat /\ FlushWait \in 0..Timeout

VARIABLES
    at,             \* where the thread sleeps, "idle" between calls
    purpose,        \* whose wait_until_acked it is
    client,         \* WiFiClient::_client is set
    pcb,            \* _pcb is set
    sync,           \* _sync
    connectPending, \* _connect_pending
    sendWaiting,    \* _send_waiting
    datalen,        \* _datalen, not 0 exactly while _datasource is set
    written,        \* _written
    rxBuf,          \* _rx_buf: the lengths of the chained buffers
    rxOffset,       \* _rx_buf_offset
    sampled,        \* sndbuf, what wait_until_acked saw before it yielded
    elapsed,        \* ticks since _op_start_time or last_sent
    slept,          \* ticks since esp_delay was called
    tcp,            \* external: state of lwIP's connection
    unacked,        \* external: what lwIP holds of it, oldest byte first
    uncredited,     \* external: bytes received and not given back by tcp_recved
    gaveUp          \* history: a flush ended without seeing the send buffer empty

callVars == <<at, purpose, elapsed, slept, sampled>>
writeVars == <<sendWaiting, datalen, written>>
readVars == <<rxBuf, rxOffset, uncredited>>
linkVars == <<client, pcb, tcp, unacked>>
contextVars == <<callVars, writeVars, readVars, linkVars, sync, connectPending, gaveUp>>

Least(a, b) == IF a < b THEN a ELSE b

TotLen == TotalLength(rxBuf)
GetSize == TotLen - rxOffset
Room == SndBuf - Len(unacked)
AvailableForWrite == IF pcb THEN Room ELSE 0

State == IF ~pcb \/ tcp = "CLOSE_WAIT" THEN "CLOSED" ELSE tcp
Connected == client /\ State # "CLOSED" /\ (State = "ESTABLISHED" \/ GetSize > 0)

-----------------------------------------------------------------------------
ContextInit ==
    /\ at = "idle" /\ purpose = "none" /\ elapsed = 0 /\ slept = 0 /\ sampled = 0
    /\ client = FALSE /\ pcb = FALSE /\ tcp = "none" /\ unacked = <<>>
    /\ sync = FALSE /\ connectPending = FALSE /\ gaveUp = FALSE
    /\ sendWaiting = FALSE /\ datalen = 0 /\ written = 0
    /\ rxBuf = <<>> /\ rxOffset = 0 /\ uncredited = 0

Sleep(where) == at' = where /\ slept' = 0

Return ==
    /\ at' = "idle" /\ purpose' = "none" /\ elapsed' = 0 /\ slept' = 0 /\ sampled' = 0

BugLetGo ==  \* _pcb = nullptr is missing
    /\ UNCHANGED pcb
    /\ tcp' = "none"
    /\ unacked' = <<>>

(* close() and abort(): the callbacks are removed, the pcb is let go.      *)
LetGo ==
    /\ pcb' = FALSE
    /\ tcp' = "none"
    /\ unacked' = <<>>

(* What the initialisers of a new context set.                             *)
NewContext ==
    /\ sync' = FALSE /\ gaveUp' = FALSE
    /\ sendWaiting' = FALSE /\ datalen' = 0 /\ written' = 0

(* The last unref: discard_received, close, delete.                        *)
Release ==
    /\ LetGo
    /\ NewContext
    /\ client' = FALSE
    /\ rxBuf' = <<>> /\ rxOffset' = 0 /\ uncredited' = 0

-----------------------------------------------------------------------------
(* connect.  A client that has a context stops and releases it first.      *)

(* tcp_new or tcp_connect fails.                                           *)
OpenFails == Release /\ Return /\ UNCHANGED connectPending

OpenStarts ==
    /\ client' = TRUE /\ pcb' = TRUE /\ tcp' = "SYN_SENT" /\ unacked' = <<>>
    /\ rxBuf' = <<>> /\ rxOffset' = 0 /\ uncredited' = 0
    /\ connectPending' = TRUE
    /\ Sleep("connecting") /\ purpose' = "none" /\ elapsed' = 0 /\ sampled' = 0
    /\ NewContext

Open == OpenFails \/ OpenStarts

(* wait_until_acked up to its first yield; without a pcb it returns TRUE.  *)
BeginFlush(why, queue) ==
    /\ Sleep("flushing")
    /\ purpose' = why
    /\ elapsed' = 0
    /\ sampled' = SndBuf - Len(queue)

Connect ==
    /\ at = "idle"
    /\ \/ ~pcb /\ Open
       \/ pcb /\ BeginFlush("connect", unacked)
              /\ UNCHANGED <<writeVars, readVars, linkVars, sync, connectPending, gaveUp>>

(* esp_delay is over: notified or timed out.                               *)
ConnectReturns ==
    /\ at = "connecting"
    /\ ~connectPending \/ slept >= Timeout
    /\ connectPending' = FALSE
    /\ Return
    /\ \/ State = "ESTABLISHED" /\ UNCHANGED <<readVars, linkVars, writeVars, sync, gaveUp>>
       \/ State # "ESTABLISHED" /\ Release

-----------------------------------------------------------------------------
(* write.                                                                  *)

BugAccepted(left) == IF pcb THEN {0, Least(Room, left)} ELSE {0}  \* state() not asked

(* What _write_some hands to lwIP: nothing without a pcb or to a peer that *)
(* closed; else as much as fits, in one tcp_write, which may lack memory.  *)
Accepted(left) == IF State = "CLOSED" THEN {0} ELSE {0, Least(Room, left)}

Handed(k) == [n \in 1..k |-> IF sync THEN "lent" ELSE "copied"]

BugEndOfWrite(queue) ==  \* "if (_sync) wait_until_acked()" is missing
    /\ datalen' = 0
    /\ sendWaiting' = FALSE
    /\ Return

EndOfWrite(queue) ==
    /\ datalen' = 0
    /\ sendWaiting' = FALSE
    /\ IF sync /\ pcb THEN BeginFlush("write", queue) ELSE Return

(* One iteration of _write_from_source, with total bytes to write of which *)
(* done are written and time ticks since the last progress.                *)
WriteSome(total, done, time) ==
    /\ \E k \in Accepted(total - done) :
          LET now == IF k > 0 THEN 0 ELSE time
              queue == unacked \o Handed(k)
          IN  /\ unacked' = queue
              /\ written' = done + k
              /\ IF done + k = total \/ now > Timeout \/ State = "CLOSED"
                 THEN EndOfWrite(queue)
                 ELSE /\ datalen' = total
                      /\ sendWaiting' = TRUE
                      /\ Sleep("sending")
                      /\ elapsed' = now
                      /\ UNCHANGED <<purpose, sampled>>
    /\ UNCHANGED <<readVars, client, pcb, tcp, sync, connectPending, gaveUp>>

Write(size) ==
    /\ at = "idle"
    /\ pcb
    /\ WriteSome(size, 0, 0)

WriteResumes ==
    /\ at = "sending"
    /\ ~sendWaiting \/ slept >= Timeout
    /\ WriteSome(datalen, written, elapsed)

-----------------------------------------------------------------------------
(* wait_until_acked, after its yield: enough, too late, or once more.      *)

Flushed == State # "ESTABLISHED" \/ sampled = SndBuf

BugFlushContinues ==  \* the timeout starts again in every round
    /\ at = "flushing"
    /\ ~Flushed
    /\ elapsed <= FlushWait
    /\ elapsed' = 0
    /\ sampled' = Room
    /\ elapsed # 0 \/ Room # sampled
    /\ UNCHANGED <<at, purpose, slept, writeVars, readVars, linkVars, sync, connectPending, gaveUp>>

FlushContinues ==
    /\ at = "flushing"
    /\ ~Flushed
    /\ elapsed <= FlushWait
    /\ Room # sampled
    /\ sampled' = Room
    /\ elapsed' = 0
    /\ UNCHANGED <<at, purpose, slept, writeVars, readVars, linkVars, sync, connectPending, gaveUp>>

(* After the flush stop closes, connect releases and opens anew.           *)
AfterFlush ==
    \/ /\ purpose \in {"write", "flush"}
       /\ Return
       /\ gaveUp' = (gaveUp \/ sampled # SndBuf)
       /\ UNCHANGED <<readVars, linkVars, writeVars, sync, connectPending>>
    \/ /\ purpose = "stop"
       /\ Return
       /\ LetGo
       /\ UNCHANGED <<client, readVars, writeVars, sync, connectPending, gaveUp>>
    \/ /\ purpose = "connect"
       /\ Open

FlushReturns ==
    /\ at = "flushing"
    /\ Flushed \/ elapsed > FlushWait
    /\ AfterFlush

Flush ==
    /\ at = "idle" /\ pcb
    /\ BeginFlush("flush", unacked)
    /\ UNCHANGED <<writeVars, readVars, linkVars, sync, connectPending, gaveUp>>

Stop ==
    /\ at = "idle" /\ pcb
    /\ BeginFlush("stop", unacked)
    /\ UNCHANGED <<writeVars, readVars, linkVars, sync, connectPending, gaveUp>>

(* The destructor.                                                         *)
Destroy ==
    /\ at = "idle" /\ client
    /\ Release
    /\ UNCHANGED <<callVars, connectPending>>

SetSync ==
    /\ at = "idle" /\ client
    /\ sync' = ~sync
    /\ UNCHANGED <<callVars, writeVars, readVars, linkVars, connectPending, gaveUp>>

-----------------------------------------------------------------------------
(* read: _consume after _consume until size bytes are taken; a buffer that *)
(* is used up is freed, and each byte taken is credited to lwIP.           *)

BugRead(size) ==  \* what was asked for is credited, not what was there
    /\ at = "idle" /\ client /\ rxBuf # <<>>
    /\ LET taken == Least(size, GetSize)
           end == rxOffset + taken
           used == {n \in 0..Len(rxBuf) : Ends(rxBuf)[n] <= end}
           freed == CHOOSE n \in used : \A m \in used : m <= n
       IN  /\ rxBuf' = SubSeq(rxBuf, freed + 1, Len(rxBuf))
           /\ rxOffset' = end - Ends(rxBuf)[freed]
           /\ uncredited' = IF pcb THEN uncredited - size ELSE uncredited
    /\ UNCHANGED <<callVars, writeVars, linkVars, sync, connectPending, gaveUp>>

Read(size) ==
    /\ at = "idle" /\ client /\ rxBuf # <<>>
    /\ LET taken == Least(size, GetSize)
           end == rxOffset + taken
           used == {n \in 0..Len(rxBuf) : Ends(rxBuf)[n] <= end}
           freed == CHOOSE n \in used : \A m \in used : m <= n
       IN  /\ rxBuf' = SubSeq(rxBuf, freed + 1, Len(rxBuf))
           /\ rxOffset' = end - Ends(rxBuf)[freed]
           /\ uncredited' = IF pcb THEN uncredited - taken ELSE uncredited
    /\ UNCHANGED <<callVars, writeVars, linkVars, sync, connectPending, gaveUp>>

-----------------------------------------------------------------------------
(* The callbacks.                                                          *)

BugNotifyError == UNCHANGED <<sendWaiting, connectPending>>  \* never called

NotifyError == sendWaiting' = FALSE /\ connectPending' = FALSE

OnConnected ==
    /\ tcp = "SYN_SENT"
    /\ tcp' = "ESTABLISHED"
    /\ connectPending' = FALSE
    /\ UNCHANGED <<callVars, writeVars, readVars, client, pcb, unacked, sync, gaveUp>>

OnAcked(n) ==
    /\ n \in 1..Len(unacked)
    /\ unacked' = SubSeq(unacked, n + 1, Len(unacked))
    /\ sendWaiting' = FALSE
    /\ UNCHANGED <<callVars, datalen, written, readVars, client, pcb, tcp,
                   sync, connectPending, gaveUp>>

OnRecv(n) ==
    /\ tcp = "ESTABLISHED"
    /\ uncredited + n <= Wnd
    /\ rxBuf' = Append(rxBuf, n)
    /\ uncredited' = uncredited + n
    /\ UNCHANGED <<callVars, writeVars, rxOffset, linkVars, sync, connectPending, gaveUp>>

(* recv with no buffer: the peer has closed.  What was received stays to   *)
(* be read and the connection with it; with nothing to read it is aborted. *)
OnClosed ==
    /\ tcp = "ESTABLISHED"
    /\ NotifyError
    /\ IF TotLen > 0 THEN tcp' = "CLOSE_WAIT" /\ UNCHANGED <<pcb, unacked>> ELSE LetGo
    /\ UNCHANGED <<callVars, datalen, written, readVars, client, sync, gaveUp>>

(* err: lwIP has dropped the connection.                                   *)
OnError ==
    /\ tcp # "none"
    /\ NotifyError
    /\ LetGo
    /\ UNCHANGED <<callVars, datalen, written, readVars, client, sync, gaveUp>>

(* Time, counted while a call waits for it; lwIP's poll timer goes with it *)
(* and wakes a write that waits for room.                                  *)
Tick ==
    /\ at # "idle"
    /\ elapsed <= Timeout \/ slept < Timeout
    /\ elapsed' = Least(elapsed + 1, Timeout + 1)
    /\ slept' = Least(slept + 1, Timeout)
    /\ sendWaiting' \in {sendWaiting} \cup (IF pcb THEN {FALSE} ELSE {})
    /\ UNCHANGED <<at, purpose, sampled, datalen, written, readVars, linkVars,
                   sync, connectPending, gaveUp>>

-----------------------------------------------------------------------------
Resume == ConnectReturns \/ WriteResumes \/ FlushContinues \/ FlushReturns

Call ==
    \/ Connect
    \/ \E size \in Sizes : Write(size)
    \/ Flush
    \/ Stop
    \/ Destroy
    \/ SetSync
    \/ \E size \in Sizes : Read(size)

Callback ==
    \/ OnConnected
    \/ \E n \in 1..SndBuf : OnAcked(n)
    \/ \E n \in 1..Wnd : OnRecv(n)
    \/ OnClosed
    \/ OnError

ContextNext == Call \/ Resume \/ Callback \/ Tick

(* Time passes and a thread that may go on does; the network owes nothing. *)
ContextSpec ==
    ContextInit /\ [][ContextNext]_contextVars /\ WF_contextVars(Resume) /\ WF_contextVars(Tick)

-----------------------------------------------------------------------------

(* The context holds a pcb exactly while lwIP has one for it, and never    *)
(* outside a client: no path of connect, close, abort or the callbacks     *)
(* leaves a pointer to a pcb that lwIP let go, or a pcb nobody points to.  *)
PcbIsLive == (pcb <=> tcp # "none") /\ (pcb => client)

(* Between calls nothing of a call is left (the asserts at the entry of    *)
(* _write_from_source) and no connection is half open: a connect that      *)
(* timed out, failed or was overtaken by an error takes its attempt back.  *)
IdleIsClean ==
    at = "idle" => /\ ~sendWaiting /\ ~connectPending /\ datalen = 0
                   /\ tcp # "SYN_SENT"

(* A call whose connection goes away is not left to sleep: the error and   *)
(* close callbacks wake connect and write, whichever is waiting.           *)
LossWakesCaller ==
    /\ at = "connecting" /\ ~pcb => ~connectPending
    /\ at = "sending" /\ State = "CLOSED" => ~sendWaiting

(* The receive window: what lwIP has delivered and not had back is what is *)
(* still to be read, however reads cut across the chained buffers.         *)
WindowAccounted ==
    /\ pcb => uncredited = GetSize
    /\ rxBuf # <<>> => rxOffset < rxBuf[1]
    /\ rxBuf = <<>> => rxOffset = 0

(* A borrowed buffer outlives the write that lent it only after a flush    *)
(* that ended without having seen the send buffer empty; what it saw       *)
(* before it yielded is still good afterwards.                             *)
LentOnlyAfterGivingUp ==
    at = "idle" /\ ~gaveUp => \A n \in 1..Len(unacked) : unacked[n] = "copied"

(* Nothing is handed to lwIP for a peer that has closed or before it has   *)
(* accepted: a write that slept asks again before it goes on.              *)
BytesOnlyWhileOpen ==
    [][Len(unacked') > Len(unacked) => tcp = "ESTABLISHED"]_contextVars

(* Every call of the client returns, whatever the network does or fails to *)
(* do: a write that makes no progress, a flush nobody acknowledges.        *)
CallsReturn == at # "idle" ~> at = "idle"
=============================================================================
