------------------------ MODULE ContextProofs ----------------------------
(***************************************************************************)
(* Theorems about the two contexts lwIP calls back: ClientContext and      *)
(* UdpContext.                                                             *)
(*                                                                         *)
(* Of a client LinkInv is the first inductive invariant: the pointer and   *)
(* lwIP agree, each flag is raised only where the thread sleeps on it, and *)
(* nobody sleeps on a connection that is gone.  SendInv follows borrowed   *)
(* bytes, WindowInv received ones.  The chains of received buffers, which  *)
(* both contexts keep, have their laws in between.  For UDP the chain is   *)
(* described by what any two neighbours in it have to do with each other,  *)
(* which a cut and an addition both preserve; that the buffers up to the   *)
(* next helper are one whole packet follows.                               *)
(***************************************************************************)
EXTENDS ClientContext, UdpContext, SequenceTheorems, WellFoundedInduction, TLAPS

LinkTypes ==
    /\ at \in {"idle", "connecting", "sending", "flushing"}
    /\ tcp \in {"none", "SYN_SENT", "ESTABLISHED", "CLOSE_WAIT"}
    /\ pcb \in BOOLEAN /\ client \in BOOLEAN

FlagsWhereAwaited ==
    /\ connectPending => at = "connecting"
    /\ sendWaiting => at = "sending"
    /\ datalen # 0 => at = "sending"
    /\ tcp = "SYN_SENT" => at = "connecting"

LinkInv == LinkTypes /\ FlagsWhereAwaited /\ PcbIsLive /\ LossWakesCaller

LEMMA LinkInit == ContextInit => LinkInv
  BY DEF ContextInit, LinkInv, LinkTypes, FlagsWhereAwaited, PcbIsLive,
         LossWakesCaller, State

(* Opening a connection, from a released context or in place of a stopped  *)
(* one.                                                                    *)
LEMMA OpenLink == ASSUME LinkInv, Open, at \in {"idle", "flushing"} PROVE LinkInv'
<1>1. CASE OpenFails
  BY <1>1 DEF OpenFails, Release, LetGo, NewContext, Return, LinkInv, LinkTypes,
              FlagsWhereAwaited, PcbIsLive, LossWakesCaller, State
<1>2. CASE OpenStarts
  BY <1>2 DEF OpenStarts, NewContext, Sleep, LinkInv, LinkTypes,
              FlagsWhereAwaited, PcbIsLive, LossWakesCaller, State
<1>3. QED
  BY <1>1, <1>2 DEF Open

(* One iteration of a write.                                               *)
LEMMA WriteLink ==
    ASSUME LinkInv, NEW total, NEW done, NEW time, WriteSome(total, done, time),
           at \in {"idle", "sending"}
    PROVE  LinkInv'
<1>1. ~connectPending /\ tcp # "SYN_SENT"
  BY DEF LinkInv, FlagsWhereAwaited
<1>2. UNCHANGED <<client, pcb, tcp, connectPending>>
  BY DEF WriteSome
<1>3. PICK k \in Accepted(total - done) :
         \/ EndOfWrite(unacked \o Handed(k))
         \/ State # "CLOSED" /\ sendWaiting' = TRUE /\ Sleep("sending")
  BY DEF WriteSome
<1>4. CASE EndOfWrite(unacked \o Handed(k))
  BY <1>1, <1>2, <1>4
     DEF EndOfWrite, BeginFlush, Sleep, Return, LinkInv, LinkTypes,
         FlagsWhereAwaited, PcbIsLive, LossWakesCaller, State
<1>5. CASE State # "CLOSED" /\ sendWaiting' = TRUE /\ Sleep("sending")
  BY <1>1, <1>2, <1>5
     DEF Sleep, LinkInv, LinkTypes, FlagsWhereAwaited, PcbIsLive, LossWakesCaller, State
<1>6. QED
  BY <1>3, <1>4, <1>5

(* The callbacks.                                                          *)
LEMMA CallbackLink == ASSUME LinkInv, Callback PROVE LinkInv'
<1> USE DEF LinkInv, LinkTypes, FlagsWhereAwaited, PcbIsLive, LossWakesCaller, State,
            callVars
<1>1. CASE OnConnected
  BY <1>1 DEF OnConnected, writeVars
<1>2. CASE \E n \in 1..SndBuf : OnAcked(n)
  BY <1>2 DEF OnAcked
<1>3. CASE \E n \in 1..Wnd : OnRecv(n)
  BY <1>3 DEF OnRecv, writeVars, linkVars
<1>4. CASE OnClosed
  BY <1>4 DEF OnClosed, NotifyError, LetGo
<1>5. CASE OnError
  BY <1>5 DEF OnError, NotifyError, LetGo
<1>6. QED
  BY <1>1, <1>2, <1>3, <1>4, <1>5 DEF Callback

LEMMA ResumeLink == ASSUME LinkInv, Resume PROVE LinkInv'
<1> USE DEF LinkInv, LinkTypes, FlagsWhereAwaited, PcbIsLive, LossWakesCaller, State
<1>1. CASE ConnectReturns
  <2>1. at' = "idle" /\ connectPending' = FALSE
    BY <1>1 DEF ConnectReturns, Return
  <2>2. CASE Release
    BY <2>1, <2>2 DEF Release, LetGo, NewContext
  <2>3. CASE State = "ESTABLISHED" /\ UNCHANGED <<linkVars, writeVars>>
    <3>1. tcp = "ESTABLISHED"
      BY <2>3
    <3>2. UNCHANGED <<client, pcb, tcp, sendWaiting, datalen>>
      BY <2>3 DEF linkVars, writeVars
    <3>3. at = "connecting"
      BY <1>1 DEF ConnectReturns
    <3>4. QED
      BY <2>1, <3>1, <3>2, <3>3
  <2>4. QED
    BY <1>1, <2>2, <2>3 DEF ConnectReturns
<1>2. CASE WriteResumes
  BY <1>2, WriteLink DEF WriteResumes
<1>3. CASE FlushContinues
  BY <1>3 DEF FlushContinues, writeVars, linkVars
<1>4. CASE FlushReturns
  <2>1. CASE purpose = "connect" /\ Open
    BY <1>4, <2>1, OpenLink DEF FlushReturns
  <2>2. CASE purpose = "stop" /\ Return /\ LetGo /\
             UNCHANGED <<client, readVars, writeVars, sync, connectPending, gaveUp>>
    BY <1>4, <2>2 DEF FlushReturns, Return, LetGo, writeVars
  <2>3. CASE Return /\ UNCHANGED <<readVars, linkVars, writeVars, sync, connectPending>>
    BY <1>4, <2>3 DEF FlushReturns, Return, writeVars, linkVars
  <2>4. QED
    BY <1>4, <2>1, <2>2, <2>3 DEF FlushReturns, AfterFlush
<1>5. QED
  BY <1>1, <1>2, <1>3, <1>4 DEF Resume

LEMMA CallLink == ASSUME LinkInv, Call PROVE LinkInv'
<1> USE DEF LinkInv, LinkTypes, FlagsWhereAwaited, PcbIsLive, LossWakesCaller, State
<1>1. CASE Connect
  BY <1>1, OpenLink DEF Connect, BeginFlush, Sleep, writeVars, linkVars
<1>2. CASE \E size \in Sizes : Write(size)
  BY <1>2, WriteLink DEF Write
<1>3. CASE Flush \/ Stop
  BY <1>3 DEF Flush, Stop, BeginFlush, Sleep, writeVars, linkVars
<1>4. CASE Destroy
  BY <1>4 DEF Destroy, Release, LetGo, NewContext, callVars
<1>5. CASE SetSync
  BY <1>5 DEF SetSync, callVars, writeVars, linkVars
<1>6. CASE \E size \in Sizes : Read(size)
  BY <1>6 DEF Read, callVars, writeVars, linkVars
<1>7. QED
  BY <1>1, <1>2, <1>3, <1>4, <1>5, <1>6 DEF Call

LEMMA LinkStep == LinkInv /\ [ContextNext]_contextVars => LinkInv'
<1> SUFFICES ASSUME LinkInv, [ContextNext]_contextVars PROVE LinkInv'
  OBVIOUS
<1>1. CASE Tick
  BY <1>1 DEF Tick, linkVars, LinkInv, LinkTypes, FlagsWhereAwaited, PcbIsLive,
              LossWakesCaller, State
<1>2. CASE UNCHANGED contextVars
  BY <1>2 DEF contextVars, callVars, writeVars, linkVars, LinkInv, LinkTypes,
              FlagsWhereAwaited, PcbIsLive, LossWakesCaller, State
<1>3. QED
  BY <1>1, <1>2, CallLink, ResumeLink, CallbackLink DEF ContextNext

LEMMA LinkInvariant == ContextSpec => []LinkInv
  BY LinkInit, LinkStep, PTL DEF ContextSpec

(* The context's pointer and lwIP's connection come and go together, on    *)
(* every path of connect, close, abort and the callbacks.                  *)
THEOREM PcbIsLiveHolds == ContextSpec => []PcbIsLive
<1>1. LinkInv => PcbIsLive
  BY DEF LinkInv
<1>2. QED
  BY <1>1, LinkInvariant, PTL

(* No call leaves a flag raised or a connection half open behind it.       *)
THEOREM IdleIsCleanHolds == ContextSpec => []IdleIsClean
<1>1. LinkInv => IdleIsClean
  BY DEF LinkInv, FlagsWhereAwaited, IdleIsClean
<1>2. QED
  BY <1>1, LinkInvariant, PTL

(* A caller whose connection is lost has been woken.                       *)
THEOREM LossWakesCallerHolds == ContextSpec => []LossWakesCaller
<1>1. LinkInv => LossWakesCaller
  BY DEF LinkInv
<1>2. QED
  BY <1>1, LinkInvariant, PTL

-----------------------------------------------------------------------------
(* The send queue.  SendInv says where borrowed bytes can be: in a write   *)
(* that still runs, in a flush, or after a flush that gave up; and that    *)
(* the sample of a flush which is equal to SndBuf is still right.          *)

Queue == Seq({"copied", "lent"})
AllCopied(q) == \A n \in 1..Len(q) : q[n] = "copied"

SendInv ==
    /\ unacked \in Queue /\ Len(unacked) <= SndBuf
    /\ ~pcb => unacked = <<>>
    /\ datalen \in Nat /\ written \in Nat /\ (at = "sending" => written <= datalen)
    /\ at = "flushing" /\ sampled = SndBuf => unacked = <<>>
    /\ ~gaveUp /\ at # "flushing" => AllCopied(unacked) \/ (at = "sending" /\ sync)

LEMMA EmptyQueue == <<>> \in Queue /\ Len(<<>>) = 0 /\ AllCopied(<<>>)
  BY EmptySeq DEF Queue, AllCopied

LEMMA SendInit == ContextInit => SendInv
  BY ContextAssumption, EmptyQueue DEF ContextInit, SendInv

(* What a write hands over.                                                *)
LEMMA HandedQueue ==
    ASSUME NEW k \in Nat
    PROVE  /\ Handed(k) \in Queue /\ Len(Handed(k)) = k
           /\ ~sync => AllCopied(Handed(k))
<1>1. Handed(k) \in [1..k -> {"copied", "lent"}]
  BY DEF Handed
<1>2. Handed(k) \in Queue
  BY <1>1, SeqDef DEF Queue
<1>3. Len(Handed(k)) = k
  BY <1>1, <1>2, LenProperties DEF Queue
<1>4. QED
  BY <1>2, <1>3 DEF Handed, AllCopied

LEMMA QueueGrows ==
    ASSUME unacked \in Queue, Len(unacked) <= SndBuf,
           NEW left \in Nat, NEW k \in Accepted(left)
    PROVE  /\ k \in Nat /\ k <= left
           /\ unacked \o Handed(k) \in Queue
           /\ Len(unacked \o Handed(k)) = Len(unacked) + k
           /\ Len(unacked \o Handed(k)) <= SndBuf
           /\ AllCopied(unacked) /\ ~sync => AllCopied(unacked \o Handed(k))
<1>1. Len(unacked) \in Nat /\ SndBuf \in Nat
  BY LenProperties, ContextAssumption DEF Queue
<1>2. k \in Nat /\ k <= left /\ Len(unacked) + k <= SndBuf
  BY <1>1 DEF Accepted, Least, Room
<1>3. /\ Handed(k) \in Queue /\ Len(Handed(k)) = k
      /\ ~sync => AllCopied(Handed(k))
  BY <1>2, HandedQueue
<1>4. /\ unacked \o Handed(k) \in Queue
      /\ Len(unacked \o Handed(k)) = Len(unacked) + k
      /\ \A i \in 1..(Len(unacked) + k) :
             (unacked \o Handed(k))[i] = IF i <= Len(unacked) THEN unacked[i]
                                         ELSE Handed(k)[i - Len(unacked)]
  BY <1>3, ConcatProperties DEF Queue
<1>5. ASSUME AllCopied(unacked), ~sync PROVE AllCopied(unacked \o Handed(k))
  BY <1>1, <1>2, <1>3, <1>4, <1>5 DEF AllCopied
<1>6. QED
  BY <1>2, <1>4, <1>5

LEMMA QueueShrinks ==
    ASSUME unacked \in Queue, NEW n \in 1..Len(unacked)
    PROVE  LET rest == SubSeq(unacked, n + 1, Len(unacked))
           IN  /\ rest \in Queue /\ Len(rest) = Len(unacked) - n
               /\ AllCopied(unacked) => AllCopied(rest)
<1>1. Len(unacked) \in Nat
      /\ \A i \in 1..Len(unacked) : unacked[i] \in {"copied", "lent"}
  BY LenProperties, ElementOfSeq DEF Queue
<1>2. \A i \in (n + 1)..Len(unacked) : unacked[i] \in {"copied", "lent"}
  BY <1>1
<1> DEFINE rest == SubSeq(unacked, n + 1, Len(unacked))
<1>3. /\ rest \in Queue
      /\ Len(rest) = IF n + 1 <= Len(unacked) THEN Len(unacked) - (n + 1) + 1 ELSE 0
      /\ \A i \in 1..(Len(unacked) - (n + 1) + 1) : rest[i] = unacked[n + 1 + i - 1]
  BY <1>1, <1>2, SubSeqProperties DEF Queue
<1>4. Len(rest) = Len(unacked) - n
  BY <1>1, <1>3
<1>5. ASSUME AllCopied(unacked) PROVE AllCopied(rest)
  BY <1>1, <1>3, <1>4, <1>5 DEF AllCopied
<1>6. QED
  BY <1>3, <1>4, <1>5

LEMMA FlushSample ==
    ASSUME NEW q \in Queue, NEW why, BeginFlush(why, q), sampled' = SndBuf
    PROVE  q = <<>>
<1>1. Len(q) \in Nat /\ SndBuf \in Nat
  BY LenProperties, ContextAssumption DEF Queue
<1>2. Len(q) = 0
  BY <1>1 DEF BeginFlush
<1>3. QED
  BY <1>2, EmptySeq DEF Queue

LEMMA OpenSend == ASSUME SendInv, Open PROVE SendInv'
  BY EmptyQueue, ContextAssumption
     DEF Open, OpenFails, OpenStarts, Release, LetGo, NewContext, Return, Sleep, SendInv

LEMMA WriteSend ==
    ASSUME SendInv, NEW total \in Nat, NEW done \in Nat, done <= total, NEW time,
           at \in {"idle", "sending"},
           WriteSome(total, done, time)
    PROVE  SendInv'
<1>1. PICK k \in Accepted(total - done) :
         /\ unacked' = unacked \o Handed(k)
         /\ written' = done + k
         /\ \/ EndOfWrite(unacked \o Handed(k))
            \/ datalen' = total /\ Sleep("sending")
  BY DEF WriteSome
<1>2. gaveUp' = gaveUp /\ sync' = sync /\ pcb' = pcb
  BY DEF WriteSome
<1>3. total - done \in Nat
  OBVIOUS
<1>4. /\ k \in Nat /\ k <= total - done
      /\ unacked' \in Queue /\ Len(unacked') <= SndBuf
      /\ AllCopied(unacked) /\ ~sync => AllCopied(unacked')
  BY <1>1, <1>3, QueueGrows DEF SendInv
<1>5. ~gaveUp => AllCopied(unacked) \/ (at = "sending" /\ sync)
  BY DEF SendInv
<1>6. ~pcb => unacked' = <<>>
  <2>1. SUFFICES ASSUME ~pcb PROVE unacked' = <<>>
    OBVIOUS
  <2>2. k = 0 /\ unacked = <<>>
    BY <2>1 DEF Accepted, State, SendInv
  <2>3. Len(unacked') = 0
    BY <1>1, <2>2, <1>3, QueueGrows, EmptyQueue DEF SendInv
  <2>4. QED
    BY <1>4, <2>3, EmptySeq DEF Queue
<1>7. CASE datalen' = total /\ Sleep("sending")
  BY <1>1, <1>2, <1>4, <1>5, <1>7, <1>6 DEF Sleep, SendInv
<1>8. CASE EndOfWrite(unacked \o Handed(k))
  <2>1. datalen' = 0 /\ written' \in Nat
    BY <1>1, <1>4, <1>8 DEF EndOfWrite
  <2>2. CASE BeginFlush("write", unacked \o Handed(k))
    <3>1. at' = "flushing"
      BY <2>2 DEF BeginFlush, Sleep
    <3>2. sampled' = SndBuf => unacked' = <<>>
      BY <1>1, <1>4, <2>2, FlushSample
    <3>3. QED
      BY <1>2, <1>4, <1>6, <2>1, <3>1, <3>2 DEF SendInv
  <2>3. CASE Return /\ ~(sync /\ pcb)
    <3>1. at' = "idle"
      BY <2>3 DEF Return
    <3>2. ~gaveUp => AllCopied(unacked')
      <4>1. CASE ~sync
        BY <1>4, <1>5, <4>1
      <4>2. CASE ~pcb
        BY <1>6, <4>2, EmptyQueue
      <4>3. QED
        BY <2>3, <4>1, <4>2
    <3>3. QED
      BY <1>2, <1>4, <1>6, <2>1, <3>1, <3>2 DEF SendInv
  <2>4. QED
    BY <1>8, <2>2, <2>3 DEF EndOfWrite
<1>9. QED
  BY <1>1, <1>7, <1>8

LEMMA CallbackSend == ASSUME SendInv, Callback PROVE SendInv'
<1>1. CASE OnConnected
  BY <1>1 DEF OnConnected, SendInv, callVars, writeVars
<1>2. CASE \E n \in 1..SndBuf : OnAcked(n)
  <2>1. PICK n \in 1..SndBuf : OnAcked(n)
    BY <1>2
  <2>2. n \in 1..Len(unacked) /\ unacked' = SubSeq(unacked, n + 1, Len(unacked))
    BY <2>1 DEF OnAcked
  <2>3. UNCHANGED <<at, sampled, pcb, sync, gaveUp, datalen, written>>
    BY <2>1 DEF OnAcked, callVars
  <2>4. Len(unacked) \in Nat /\ SndBuf \in Nat /\ unacked # <<>>
    BY <2>2, LenProperties, ContextAssumption, EmptyQueue DEF SendInv, Queue
  <2>5. /\ unacked' \in Queue /\ Len(unacked') <= SndBuf
        /\ AllCopied(unacked) => AllCopied(unacked')
    BY <2>2, <2>4, QueueShrinks DEF SendInv
  <2>6. QED
    BY <2>3, <2>4, <2>5 DEF SendInv
<1>3. CASE \E n \in 1..Wnd : OnRecv(n)
  BY <1>3 DEF OnRecv, SendInv, callVars, writeVars, linkVars
<1>4. CASE OnClosed
  <2>1. CASE LetGo
    BY <1>4, <2>1, EmptyQueue, ContextAssumption DEF OnClosed, LetGo, SendInv, callVars
  <2>2. CASE UNCHANGED <<pcb, unacked>>
    BY <1>4, <2>2 DEF OnClosed, SendInv, callVars
  <2>3. QED
    BY <1>4, <2>1, <2>2 DEF OnClosed
<1>5. CASE OnError
  BY <1>5, EmptyQueue, ContextAssumption DEF OnError, LetGo, SendInv, callVars
<1>6. QED
  BY <1>1, <1>2, <1>3, <1>4, <1>5 DEF Callback

LEMMA ResumeSend == ASSUME SendInv, Resume PROVE SendInv'
<1>1. CASE ConnectReturns
  <2>1. at' = "idle" /\ at = "connecting"
    BY <1>1 DEF ConnectReturns, Return
  <2>2. CASE Release
    BY <2>1, <2>2, EmptyQueue, ContextAssumption DEF Release, LetGo, NewContext, SendInv
  <2>3. CASE UNCHANGED <<linkVars, writeVars, sync, gaveUp>>
    BY <2>1, <2>3 DEF linkVars, writeVars, SendInv
  <2>4. QED
    BY <1>1, <2>2, <2>3 DEF ConnectReturns
<1>2. CASE WriteResumes
  <2>1. at = "sending" /\ WriteSome(datalen, written, elapsed)
    BY <1>2 DEF WriteResumes
  <2>2. datalen \in Nat /\ written \in Nat /\ written <= datalen
    BY <2>1 DEF SendInv
  <2>3. QED
    BY <2>1, <2>2, WriteSend
<1>3. CASE FlushContinues
  <2>1. at' = at /\ UNCHANGED <<unacked, pcb, sync, gaveUp, datalen, written>>
    BY <1>3 DEF FlushContinues, linkVars, writeVars
  <2>2. at = "flushing" /\ sampled' = SndBuf - Len(unacked)
    BY <1>3 DEF FlushContinues, Room
  <2>3. Len(unacked) \in Nat /\ SndBuf \in Nat
    BY LenProperties, ContextAssumption DEF SendInv, Queue
  <2>4. sampled' = SndBuf => unacked = <<>>
    BY <2>2, <2>3, EmptySeq DEF SendInv, Queue
  <2>5. QED
    BY <2>1, <2>2, <2>4 DEF SendInv
<1>4. CASE FlushReturns
  <2>1. at = "flushing"
    BY <1>4 DEF FlushReturns
  <2>2. CASE Open
    BY <2>2, OpenSend
  <2>3. CASE Return /\ LetGo /\ UNCHANGED <<writeVars, sync, gaveUp>>
    BY <2>3, EmptyQueue, ContextAssumption DEF Return, LetGo, writeVars, SendInv
  <2>4. CASE /\ Return /\ gaveUp' = (gaveUp \/ sampled # SndBuf)
             /\ UNCHANGED <<linkVars, writeVars, sync>>
    <3>1. at' = "idle" /\ UNCHANGED <<pcb, unacked, datalen, written>>
      BY <2>4 DEF Return, linkVars, writeVars
    <3>2. ~gaveUp' => unacked' = <<>>
      BY <2>1, <2>4, <3>1 DEF SendInv
    <3>3. QED
      BY <3>1, <3>2, EmptyQueue DEF SendInv
  <2>5. QED
    BY <1>4, <2>2, <2>3, <2>4 DEF FlushReturns, AfterFlush
<1>5. QED
  BY <1>1, <1>2, <1>3, <1>4 DEF Resume

LEMMA CallSend == ASSUME SendInv, Call PROVE SendInv'
<1>1. ASSUME NEW why, at = "idle", BeginFlush(why, unacked),
             UNCHANGED <<writeVars, linkVars, sync, gaveUp>>
      PROVE  SendInv'
  <2>1. at' = "flushing" /\ (sampled' = SndBuf => unacked = <<>>)
    BY <1>1, FlushSample DEF BeginFlush, Sleep, SendInv
  <2>2. QED
    BY <1>1, <2>1 DEF SendInv, writeVars, linkVars
<1>2. CASE Connect
  BY <1>1, <1>2, OpenSend DEF Connect
<1>3. CASE \E size \in Sizes : Write(size)
  <2>1. PICK size \in Sizes : Write(size)
    BY <1>3
  <2>2. size \in Nat
    BY ContextAssumption
  <2>3. QED
    BY <2>1, <2>2, WriteSend DEF Write
<1>4. CASE Flush \/ Stop
  BY <1>1, <1>4 DEF Flush, Stop
<1>5. CASE Destroy
  BY <1>5, EmptyQueue, ContextAssumption
     DEF Destroy, Release, LetGo, NewContext, callVars, SendInv
<1>6. CASE SetSync
  BY <1>6 DEF SetSync, callVars, writeVars, linkVars, SendInv
<1>7. CASE \E size \in Sizes : Read(size)
  BY <1>7 DEF Read, callVars, writeVars, linkVars, SendInv
<1>8. QED
  BY <1>2, <1>3, <1>4, <1>5, <1>6, <1>7 DEF Call

LEMMA SendStep == SendInv /\ [ContextNext]_contextVars => SendInv'
<1> SUFFICES ASSUME SendInv, [ContextNext]_contextVars PROVE SendInv'
  OBVIOUS
<1>1. CASE Tick
  BY <1>1 DEF Tick, linkVars, SendInv
<1>2. CASE UNCHANGED contextVars
  BY <1>2 DEF contextVars, callVars, writeVars, linkVars, SendInv
<1>3. QED
  BY <1>1, <1>2, CallSend, ResumeSend, CallbackSend DEF ContextNext

LEMMA SendInvariant == ContextSpec => []SendInv
  BY SendInit, SendStep, PTL DEF ContextSpec

(* lwIP borrows a buffer of a returned write only after a flush ended      *)
(* without having seen the send buffer empty.                              *)
THEOREM LentOnlyAfterGivingUpHolds == ContextSpec => []LentOnlyAfterGivingUp
<1>1. SendInv => LentOnlyAfterGivingUp
  BY DEF SendInv, LentOnlyAfterGivingUp, AllCopied
<1>2. QED
  BY <1>1, SendInvariant, PTL

(* Only a write hands bytes over, and only if the peer has accepted and    *)
(* not closed.                                                             *)
LEMMA WriteWhileOpen ==
    ASSUME LinkInv, SendInv, at \in {"idle", "sending"},
           NEW total \in Nat, NEW done \in Nat, done <= total, NEW time,
           WriteSome(total, done, time), Len(unacked') > Len(unacked)
    PROVE  tcp = "ESTABLISHED"
<1>1. PICK k \in Accepted(total - done) : unacked' = unacked \o Handed(k)
  BY DEF WriteSome
<1>2. total - done \in Nat
  OBVIOUS
<1>3. k \in Nat /\ Len(unacked') = Len(unacked) + k /\ Len(unacked) \in Nat
  BY <1>1, <1>2, QueueGrows, LenProperties DEF SendInv, Queue
<1>4. State # "CLOSED"
  BY <1>1, <1>3 DEF Accepted
<1>5. QED
  BY <1>4 DEF State, LinkInv, LinkTypes, FlagsWhereAwaited, PcbIsLive

(* Nothing is handed to lwIP for a peer that has closed or not yet         *)
(* accepted.                                                               *)
THEOREM BytesOnlyWhileOpenHolds == ContextSpec => BytesOnlyWhileOpen
<1>1. ASSUME LinkInv, SendInv, ContextNext, Len(unacked') > Len(unacked)
      PROVE  tcp = "ESTABLISHED"
  <2>1. Len(unacked) \in Nat /\ Len(<<>>) = 0
    BY <1>1, LenProperties, EmptyQueue DEF SendInv, Queue
  <2>2. unacked' # <<>> /\ unacked' # unacked
    BY <1>1, <2>1
  <2>3. ~Tick /\ ~ConnectReturns /\ ~FlushContinues /\ ~FlushReturns
    BY <2>2 DEF Tick, ConnectReturns, FlushContinues, FlushReturns, AfterFlush, Open,
                OpenFails, OpenStarts, Release, LetGo, linkVars
  <2>4. ~Connect /\ ~Flush /\ ~Stop /\ ~Destroy /\ ~SetSync
        /\ ~(\E size \in Sizes : Read(size))
    BY <2>2 DEF Connect, Open, OpenFails, OpenStarts, Flush, Stop, Destroy, SetSync, Read,
                Release, LetGo, linkVars
  <2>5. ~OnConnected /\ ~(\E n \in 1..Wnd : OnRecv(n)) /\ ~OnClosed /\ ~OnError
    BY <2>2 DEF OnConnected, OnRecv, OnClosed, OnError, LetGo, linkVars
  <2>6. ~(\E n \in 1..SndBuf : OnAcked(n))
    <3>1. SUFFICES ASSUME NEW n \in 1..SndBuf, OnAcked(n) PROVE FALSE
      OBVIOUS
    <3>2. n \in 1..Len(unacked) /\ unacked' = SubSeq(unacked, n + 1, Len(unacked))
      BY <3>1 DEF OnAcked
    <3>3. Len(unacked') = Len(unacked) - n
      BY <1>1, <3>2, QueueShrinks DEF SendInv
    <3>4. QED
      BY <1>1, <2>1, <3>2, <3>3
  <2>7. CASE \E size \in Sizes : Write(size)
    <3>1. PICK size \in Sizes : Write(size)
      BY <2>7
    <3>2. size \in Nat
      BY ContextAssumption
    <3>3. QED
      BY <1>1, <3>1, <3>2, WriteWhileOpen DEF Write
  <2>8. CASE WriteResumes
    <3>1. at = "sending" /\ WriteSome(datalen, written, elapsed)
      BY <2>8 DEF WriteResumes
    <3>2. datalen \in Nat /\ written \in Nat /\ written <= datalen
      BY <1>1, <3>1 DEF SendInv
    <3>3. QED
      BY <1>1, <3>1, <3>2, WriteWhileOpen
  <2>9. QED
    BY <1>1, <2>3, <2>4, <2>5, <2>6, <2>7, <2>8 DEF ContextNext, Call, Resume, Callback
<1>2. LinkInv /\ SendInv /\ [ContextNext]_contextVars
        => [Len(unacked') > Len(unacked) => tcp = "ESTABLISHED"]_contextVars
  BY <1>1
<1>3. QED
  BY <1>2, LinkInvariant, SendInvariant, PTL DEF ContextSpec, BytesOnlyWhileOpen
-----------------------------------------------------------------------------
(* The receive chain.  Where the buffers end is a recursion over the       *)
(* chain; it is shown to have a solution by looking for the first buffer   *)
(* whose end it does not determine.                                        *)
Chain == Seq(Nat)

LEMMA HasLeast ==
    ASSUME NEW S, S \subseteq Nat, S # {}
    PROVE  \E s \in S : \A t \in S : s <= t
<1>1. PICK s \in S : \A t \in S : ~ (<<t, s>> \in OpToRel(<, Nat))
  BY NatLessThanWellFounded, WFMin
<1>2. ASSUME NEW t \in S PROVE s <= t
  <2>1. s \in Nat /\ t \in Nat /\ <<t, s>> \in Nat \X Nat
    OBVIOUS
  <2>2. ~ (t < s)
    BY <1>1, <2>1 DEF OpToRel
  <2> QED
    BY <2>1, <2>2
<1> QED
  BY <1>2

AddsUp(f, chain, n) ==
    /\ f \in [0..n -> Nat]
    /\ f[0] = 0
    /\ \A i \in 1..n : f[i] = f[i - 1] + chain[i]

LEMMA CanBeAdded ==
    ASSUME NEW chain \in Chain
    PROVE  \A n \in 0..Len(chain) : \E f : AddsUp(f, chain, n)
<1> DEFINE Bad == {n \in 0..Len(chain) : ~ \E f : AddsUp(f, chain, n)}
<1>1. SUFFICES ASSUME Bad # {} PROVE FALSE
  OBVIOUS
<1>2. Len(chain) \in Nat /\ \A i \in 1..Len(chain) : chain[i] \in Nat
  BY ElementOfSeq, LenProperties DEF Chain
<1>3. PICK n \in Bad : \A k \in Bad : n <= k
  <2>1. Bad \subseteq Nat
    BY <1>2
  <2> QED
    BY <1>1, <2>1, HasLeast
<1>4. n \in Nat /\ n <= Len(chain) /\ ~ \E f : AddsUp(f, chain, n)
  BY <1>2
<1> HIDE DEF Bad
<1>5. n # 0
  <2> DEFINE f == [i \in 0..0 |-> 0]
  <2>1. AddsUp(f, chain, 0)
    BY DEF AddsUp
  <2> QED
    BY <2>1, <1>4
<1>6. n - 1 \in 0..Len(chain) /\ n - 1 \notin Bad
  BY <1>2, <1>3, <1>4, <1>5
<1>7. PICK f : AddsUp(f, chain, n - 1)
  BY <1>6 DEF Bad
<1> DEFINE g == [i \in 0..n |-> IF i = n THEN f[n - 1] + chain[n] ELSE f[i]]
<1>8. \A i \in 0..(n - 1) : i \in 0..n /\ i # n /\ g[i] = f[i] /\ f[i] \in Nat
  BY <1>4, <1>5, <1>7 DEF AddsUp
<1>9. n \in 0..n /\ n - 1 \in 0..(n - 1) /\ n \in 1..Len(chain) /\ g[n] = f[n - 1] + chain[n]
  BY <1>4, <1>5
<1>10. g = [i \in 0..n |-> g[i]]
  OBVIOUS
<1> HIDE DEF g
<1>11. g \in [0..n -> Nat]
  <2>1. \A i \in 0..n : i = n \/ i \in 0..(n - 1)
    BY <1>4
  <2>2. g[n] \in Nat
    BY <1>2, <1>8, <1>9
  <2>3. \A i \in 0..n : g[i] \in Nat
    BY <1>8, <2>1, <2>2
  <2> QED
    BY <1>10, <2>3
<1>12. g[0] = 0
  <2>1. 0 \in 0..(n - 1)
    BY <1>4, <1>5
  <2> QED
    BY <1>7, <1>8, <2>1 DEF AddsUp
<1>13. ASSUME NEW i \in 1..n PROVE g[i] = g[i - 1] + chain[i]
  <2>1. i - 1 \in 0..(n - 1)
    BY <1>4
  <2>2. CASE i = n
    BY <1>8, <1>9, <2>1, <2>2
  <2>3. CASE i # n
    <3>1. i \in 1..(n - 1) /\ i \in 0..(n - 1)
      BY <2>3, <1>4
    <3> QED
      BY <1>7, <1>8, <2>1, <3>1 DEF AddsUp
  <2> QED
    BY <2>2, <2>3
<1>14. AddsUp(g, chain, n)
  BY <1>11, <1>12, <1>13 DEF AddsUp
<1> QED
  BY <1>4, <1>14

LEMMA EndsAddUp == ASSUME NEW chain \in Chain PROVE AddsUp(Ends(chain), chain, Len(chain))
<1>1. Len(chain) \in Nat
  BY LenProperties DEF Chain
<1>2. PICK f : AddsUp(f, chain, Len(chain))
  BY <1>1, CanBeAdded
<1>3. f = [n \in 0..Len(chain) |-> IF n = 0 THEN 0 ELSE f[n - 1] + chain[n]]
  <2>1. f = [n \in 0..Len(chain) |-> f[n]]
    BY <1>2 DEF AddsUp
  <2>2. \A n \in 0..Len(chain) : f[n] = IF n = 0 THEN 0 ELSE f[n - 1] + chain[n]
    <3> TAKE n \in 0..Len(chain)
    <3>1. n = 0 \/ n \in 1..Len(chain)
      BY <1>1
    <3> QED
      BY <1>2, <3>1 DEF AddsUp
  <2> QED
    BY <2>1, <2>2, Zenon
<1>4. Ends(chain) = [n \in 0..Len(chain) |-> IF n = 0 THEN 0 ELSE Ends(chain)[n - 1] + chain[n]]
  BY <1>3, Zenon DEF Ends
<1> QED
  <2> DEFINE E == Ends(chain)
  <2>1. E = [n \in 0..Len(chain) |-> IF n = 0 THEN 0 ELSE E[n - 1] + chain[n]]
    BY <1>4
  <2> HIDE DEF E
  <2>2. E[0] = 0 /\ \A i \in 1..Len(chain) : E[i] = E[i - 1] + chain[i]
    <3>1. 0 \in 0..Len(chain)
      BY <1>1
    <3>2. E[0] = IF 0 = 0 THEN 0 ELSE E[0 - 1] + chain[0]
      BY <2>1, <3>1
    <3>3. ASSUME NEW i \in 1..Len(chain) PROVE E[i] = E[i - 1] + chain[i]
      <4>1. i \in 0..Len(chain) /\ i # 0
        BY <1>1
      <4>2. E[i] = IF i = 0 THEN 0 ELSE E[i - 1] + chain[i]
        BY <2>1, <4>1
      <4> QED
        BY <4>1, <4>2
    <3> QED
      BY <3>2, <3>3
  <2>3. \A i \in 0..Len(chain) : E[i] = f[i]
    <3> DEFINE Bad == {i \in 0..Len(chain) : E[i] # f[i]}
    <3>1. SUFFICES ASSUME Bad # {} PROVE FALSE
      OBVIOUS
    <3>2. PICK i \in Bad : \A k \in Bad : i <= k
      <4>1. Bad \subseteq Nat
        BY <1>1
      <4> QED
        BY <3>1, <4>1, HasLeast
    <3>3. i \in 1..Len(chain) /\ E[i] # f[i]
      BY <1>1, <1>2, <2>2 DEF AddsUp
    <3>4. i - 1 \in 0..Len(chain) /\ i - 1 \notin Bad
      BY <1>1, <3>2, <3>3
    <3>5. E[i - 1] = f[i - 1]
      BY <3>4
    <3> QED
      BY <1>2, <2>2, <3>3, <3>5 DEF AddsUp
  <2>4. E \in [0..Len(chain) -> Nat]
    <3>1. \A i \in 0..Len(chain) : E[i] \in Nat
      BY <1>2, <2>3 DEF AddsUp
    <3>2. E = [i \in 0..Len(chain) |-> E[i]]
      BY <2>1
    <3> QED
      BY <3>1, <3>2
  <2>5. AddsUp(E, chain, Len(chain))
    BY <2>2, <2>4 DEF AddsUp
  <2> QED
    BY <2>5 DEF E
(* Two chains that are alike from places d and 0 on end alike.             *)
LEMMA EndsShift ==
    ASSUME NEW s \in Chain, NEW t \in Chain, NEW d \in 0..Len(s), NEW m \in 0..Len(t),
           d + m <= Len(s), \A i \in 1..m : t[i] = s[i + d]
    PROVE  \A i \in 0..m : Ends(t)[i] = Ends(s)[i + d] - Ends(s)[d]
<1> DEFINE S == Ends(s)
           T == Ends(t)
<1>1. Len(s) \in Nat /\ Len(t) \in Nat
  BY LenProperties DEF Chain
<1>2. AddsUp(S, s, Len(s)) /\ AddsUp(T, t, Len(t))
  BY EndsAddUp
<1> HIDE DEF S, T
<1>3. /\ \A i \in 0..Len(s) : S[i] \in Nat
      /\ \A i \in 0..Len(t) : T[i] \in Nat
      /\ T[0] = 0
  BY <1>2 DEF AddsUp
<1> DEFINE Bad == {i \in 0..m : T[i] # S[i + d] - S[d]}
<1>4. SUFFICES ASSUME Bad # {} PROVE FALSE
  BY DEF S, T
<1>5. PICK i \in Bad : \A k \in Bad : i <= k
  <2>1. Bad \subseteq Nat
    BY <1>1
  <2> QED
    BY <1>4, <2>1, HasLeast
<1>6. i \in 0..m /\ T[i] # S[i + d] - S[d]
  OBVIOUS
<1>7. i # 0
  BY <1>1, <1>3, <1>6
<1>8. i - 1 \in 0..m /\ i - 1 \notin Bad
  BY <1>1, <1>5, <1>6, <1>7
<1>9. T[i - 1] = S[(i - 1) + d] - S[d]
  BY <1>8
<1>10. i \in 1..m /\ i \in 1..Len(t) /\ i + d \in 1..Len(s) /\ (i + d) - 1 = (i - 1) + d
       /\ (i - 1) + d \in 0..Len(s) /\ i - 1 \in 0..Len(t)
  BY <1>1, <1>6, <1>7
<1>11. T[i] = T[i - 1] + t[i]
  BY <1>2, <1>10 DEF AddsUp
<1>12. S[i + d] = S[(i + d) - 1] + s[i + d]
  BY <1>2, <1>10 DEF AddsUp
<1>13. t[i] = s[i + d]
  BY <1>10
<1>14. s[i + d] \in Nat
  BY <1>10, ElementOfSeq DEF Chain
<1>15. T[i] = (S[(i - 1) + d] - S[d]) + s[i + d]
  BY <1>9, <1>11, <1>13
<1>16. S[i + d] = S[(i - 1) + d] + s[i + d]
  BY <1>10, <1>12
<1>17. S[(i - 1) + d] \in Nat /\ S[d] \in Nat
  BY <1>3, <1>10
<1>18. T[i] = S[i + d] - S[d]
  BY <1>14, <1>15, <1>16, <1>17
<1> QED
  BY <1>6, <1>18

(* A buffer is not empty, so the ends grow.                                *)
LEMMA EndsGrow ==
    ASSUME NEW s \in Chain
    PROVE  /\ Ends(s)[0] = 0
           /\ \A i \in 0..Len(s) : Ends(s)[i] \in Nat /\ Ends(s)[i] <= Ends(s)[Len(s)]
           /\ \A i \in 1..Len(s) : Ends(s)[i] = Ends(s)[i - 1] + s[i] /\ s[i] \in Nat
<1> DEFINE S == Ends(s)
<1>1. Len(s) \in Nat /\ \A i \in 1..Len(s) : s[i] \in Nat
  BY ElementOfSeq, LenProperties DEF Chain
<1>2. AddsUp(S, s, Len(s))
  BY EndsAddUp
<1> HIDE DEF S
<1>3. \A i \in 0..Len(s) : S[i] \in Nat
  BY <1>2 DEF AddsUp
<1>4. S[0] = 0 /\ \A i \in 1..Len(s) : S[i] = S[i - 1] + s[i]
  BY <1>2 DEF AddsUp
<1>5. \A i \in 0..Len(s) : S[i] <= S[Len(s)]
  <2> DEFINE Bad == {k \in 0..Len(s) : ~ (S[Len(s) - k] <= S[Len(s)])}
  <2>1. Bad = {}
    <3>1. SUFFICES ASSUME Bad # {} PROVE FALSE
      OBVIOUS
    <3>2. PICK k \in Bad : \A j \in Bad : k <= j
      <4>1. Bad \subseteq Nat
        BY <1>1
      <4> QED
        BY <3>1, <4>1, HasLeast
    <3>3. k \in 0..Len(s) /\ ~ (S[Len(s) - k] <= S[Len(s)])
      OBVIOUS
    <3>4. k # 0
      <4>1. Len(s) \in 0..Len(s) /\ Len(s) - 0 = Len(s)
        BY <1>1
      <4> QED
        BY <1>3, <3>3, <4>1
    <3>5. k - 1 \in 0..Len(s) /\ k - 1 \notin Bad
      <4>1. k \in Nat /\ k - 1 \in 0..Len(s) /\ ~ (k <= k - 1)
        BY <1>1, <3>3, <3>4
      <4> HIDE DEF Bad
      <4> QED
        BY <3>2, <4>1
    <3>6. S[Len(s) - (k - 1)] <= S[Len(s)]
      BY <3>5
    <3>7. PICK i : i = Len(s) - (k - 1)
      OBVIOUS
    <3>8. i \in 1..Len(s) /\ i - 1 = Len(s) - k /\ i \in 0..Len(s) /\ i - 1 \in 0..Len(s) /\ Len(s) \in 0..Len(s)
      BY <1>1, <3>3, <3>5, <3>4, <3>7
    <3>9. S[i] = S[i - 1] + s[i] /\ s[i] \in Nat /\ S[i] \in Nat /\ S[i - 1] \in Nat /\ S[Len(s)] \in Nat
      BY <1>1, <1>3, <1>4, <3>8
    <3>10. S[i - 1] <= S[Len(s)]
      BY <3>6, <3>7, <3>9
    <3> QED
      BY <3>3, <3>8, <3>10
  <2>2. ASSUME NEW i \in 0..Len(s) PROVE S[i] <= S[Len(s)]
    <3>1. Len(s) - i \in 0..Len(s) /\ Len(s) - (Len(s) - i) = i
      BY <1>1
    <3>2. Len(s) - i \notin Bad
      BY <2>1
    <3> QED
      BY <3>1, <3>2
  <2> QED
    BY <2>2
<1> QED
  BY <1>1, <1>3, <1>4, <1>5 DEF S

LEMMA EmptyChain == <<>> \in Chain /\ Len(<<>>) = 0 /\ Ends(<<>>)[0] = 0
<1>1. <<>> \in Chain /\ Len(<<>>) = 0
  BY EmptySeq DEF Chain
<1> QED
  BY <1>1, EndsGrow

(* A buffer received comes after all others.                               *)
LEMMA ChainGrows ==
    ASSUME NEW s \in Chain, NEW n \in Nat
    PROVE  LET t == Append(s, n)
           IN  /\ t \in Chain /\ Len(t) = Len(s) + 1 /\ t[Len(s) + 1] = n
               /\ \A i \in 1..Len(s) : t[i] = s[i]
               /\ Ends(t)[Len(t)] = Ends(s)[Len(s)] + n
<1> DEFINE t == Append(s, n)
<1>1. Len(s) \in Nat
  BY LenProperties DEF Chain
<1>2. t \in Chain /\ Len(t) = Len(s) + 1 /\ t[Len(s) + 1] = n /\ \A i \in 1..Len(s) : t[i] = s[i]
  BY AppendProperties DEF Chain
<1> HIDE DEF t
<1>3. Ends(t)[Len(s)] = Ends(s)[Len(s)]
  <2> DEFINE d == 0
             m == Len(s)
  <2>1. d \in 0..Len(s) /\ m \in 0..Len(t) /\ d + m <= Len(s) /\ m \in 0..m /\ m + d = m
    BY <1>1, <1>2
  <2>2. \A i \in 1..m : t[i] = s[i + d]
    <3> TAKE i \in 1..m
    <3>1. i + d = i
      BY <1>1
    <3> QED
      BY <1>2, <3>1
  <2>3. Ends(s)[d] = 0 /\ Ends(s)[m] \in Nat
    BY <2>1, <1>1, EndsGrow
  <2> HIDE DEF d, m
  <2>4. Ends(t)[m] = Ends(s)[m + d] - Ends(s)[d]
    BY <1>2, <2>1, <2>2, EndsShift
  <2>5. Ends(t)[m] = Ends(s)[m]
    BY <2>1, <2>3, <2>4
  <2> QED
    BY <2>5 DEF m
<1>4. Ends(t)[Len(s) + 1] = Ends(t)[(Len(s) + 1) - 1] + t[Len(s) + 1]
  <2>1. Len(s) + 1 \in 1..Len(t)
    BY <1>1, <1>2
  <2> QED
    BY <1>2, <2>1, EndsGrow
<1>5. (Len(s) + 1) - 1 = Len(s)
  BY <1>1
<1>6. Ends(t)[Len(t)] = Ends(s)[Len(s)] + n
  BY <1>2, <1>3, <1>4, <1>5
<1> QED
  BY <1>2, <1>6 DEF t

(* Buffers freed at the front move the others down.                        *)
LEMMA ChainShrinks ==
    ASSUME NEW s \in Chain, NEW k \in 0..Len(s)
    PROVE  LET t == SubSeq(s, k + 1, Len(s))
           IN  /\ t \in Chain /\ Len(t) = Len(s) - k
               /\ \A i \in 1..Len(t) : t[i] = s[i + k]
               /\ Ends(t)[Len(t)] = Ends(s)[Len(s)] - Ends(s)[k]
<1> DEFINE t == SubSeq(s, k + 1, Len(s))
<1>1. Len(s) \in Nat /\ k \in Nat /\ k <= Len(s)
  BY LenProperties DEF Chain
<1>2. t \in Chain /\ Len(t) = Len(s) - k /\ \A i \in 1..Len(t) : t[i] = s[i + k]
  <2> DEFINE lo == k + 1
             hi == Len(s)
  <2>1. lo \in Int /\ hi \in Int /\ lo <= hi + 1 /\ \A i \in lo..hi : i \in 1..Len(s)
    BY <1>1
  <2>2. s \in Seq(Nat) /\ \A i \in lo..hi : s[i] \in Nat
    BY <2>1, ElementOfSeq DEF Chain
  <2>3. (hi - lo) + 1 = Len(s) - k /\ \A i \in Int : (lo + i) - 1 = i + k
    BY <1>1
  <2> HIDE DEF lo, hi
  <2>4. /\ SubSeq(s, lo, hi) \in Seq(Nat)
        /\ Len(SubSeq(s, lo, hi)) = IF lo <= hi THEN (hi - lo) + 1 ELSE 0
        /\ \A i \in 1..((hi - lo) + 1) : SubSeq(s, lo, hi)[i] = s[(lo + i) - 1]
    BY <2>1, <2>2, SubSeqProperties
  <2>5. Len(SubSeq(s, lo, hi)) = (hi - lo) + 1
    BY <2>1, <2>4
  <2>6. PICK u : u = SubSeq(s, lo, hi)
    OBVIOUS
  <2>7. u \in Chain /\ Len(u) = Len(s) - k
    BY <2>3, <2>4, <2>5, <2>6 DEF Chain
  <2>8. \A i \in 1..(Len(s) - k) : u[i] = s[i + k]
    <3> TAKE i \in 1..(Len(s) - k)
    <3>1. i \in Int /\ i \in 1..((hi - lo) + 1)
      BY <1>1, <2>3
    <3>2. u[i] = s[(lo + i) - 1]
      BY <2>4, <2>6, <3>1
    <3> QED
      BY <2>3, <3>1, <3>2
  <2>9. u = t
    BY <2>6 DEF lo, hi
  <2> QED
    BY <2>7, <2>8, <2>9
<1> HIDE DEF t
<1>3. \A i \in 0..Len(t) : Ends(t)[i] = Ends(s)[i + k] - Ends(s)[k]
  <2> DEFINE m == Len(t)
  <2>1. m \in 0..Len(t) /\ k + m <= Len(s)
    BY <1>1, <1>2
  <2>2. \A i \in 1..m : t[i] = s[i + k]
    BY <1>2
  <2> HIDE DEF m
  <2>3. \A i \in 0..m : Ends(t)[i] = Ends(s)[i + k] - Ends(s)[k]
    BY <1>2, <2>1, <2>2, EndsShift
  <2> QED
    BY <2>3 DEF m
<1>4. Len(t) \in 0..Len(t) /\ Len(t) + k = Len(s)
  BY <1>1, <1>2
<1>5. Ends(t)[Len(t)] = Ends(s)[Len(s)] - Ends(s)[k]
  BY <1>3, <1>4
<1> QED
  BY <1>2, <1>5 DEF t
(* The invariant of the window.                                            *)
WindowInv ==
    /\ rxBuf \in Chain /\ rxOffset \in Nat /\ uncredited \in Int
    /\ WindowAccounted

LEMMA WindowEmpty ==
    ASSUME rxBuf' = <<>>, rxOffset' = 0, uncredited' = 0
    PROVE  WindowInv'
<1>1. GetSize' = 0
  BY EmptyChain DEF GetSize, TotLen, TotalLength
<1>2. rxBuf' \in Chain /\ rxOffset' \in Nat /\ uncredited' \in Int
  BY EmptyChain
<1>3. WindowAccounted'
  BY <1>1 DEF WindowAccounted
<1> QED
  BY <1>2, <1>3 DEF WindowInv

LEMMA WindowSame == ASSUME WindowInv, UNCHANGED readVars, pcb' => pcb PROVE WindowInv'
<1>1. UNCHANGED <<rxBuf, rxOffset, uncredited>>
  BY DEF readVars
<1>2. GetSize' = GetSize
  BY <1>1 DEF GetSize, TotLen, TotalLength
<1> QED
  BY <1>1, <1>2 DEF WindowInv, WindowAccounted

LEMMA ResetKeeps == ASSUME WindowInv, Release \/ Open PROVE WindowInv'
BY WindowEmpty DEF Release, Open, OpenFails, OpenStarts

LEMMA WriteKeeps ==
    ASSUME WindowInv, NEW total, NEW done, NEW time, WriteSome(total, done, time)
    PROVE  WindowInv'
<1>1. UNCHANGED readVars /\ UNCHANGED pcb
  BY DEF WriteSome
<1> QED
  BY <1>1, WindowSame

LEMMA RecvKeeps == ASSUME WindowInv, NEW n \in Nat \ {0}, OnRecv(n) PROVE WindowInv'
<1>1. rxBuf \in Chain /\ rxOffset \in Nat /\ uncredited \in Int /\ WindowAccounted
  BY DEF WindowInv
<1>2. rxBuf' = Append(rxBuf, n) /\ uncredited' = uncredited + n /\ rxOffset' = rxOffset /\ pcb' = pcb
  BY DEF OnRecv, linkVars
<1>3. /\ rxBuf' \in Chain /\ Len(rxBuf') = Len(rxBuf) + 1 /\ rxBuf'[Len(rxBuf) + 1] = n
      /\ \A i \in 1..Len(rxBuf) : rxBuf'[i] = rxBuf[i]
      /\ Ends(rxBuf')[Len(rxBuf')] = Ends(rxBuf)[Len(rxBuf)] + n
  BY <1>1, <1>2, ChainGrows
<1>4. Len(rxBuf) \in Nat /\ Ends(rxBuf)[Len(rxBuf)] \in Nat
  <2>1. Len(rxBuf) \in Nat
    BY <1>1, LenProperties DEF Chain
  <2>2. Len(rxBuf) \in 0..Len(rxBuf)
    BY <2>1
  <2> QED
    BY <1>1, <2>1, <2>2, EndsGrow
<1>5. pcb' => uncredited' = GetSize'
  <2>1. GetSize = Ends(rxBuf)[Len(rxBuf)] - rxOffset
    BY DEF GetSize, TotLen, TotalLength
  <2>2. GetSize' = (Ends(rxBuf)[Len(rxBuf)] + n) - rxOffset
    BY <1>2, <1>3 DEF GetSize, TotLen, TotalLength
  <2>3. GetSize' = GetSize + n
    BY <1>1, <1>4, <2>1, <2>2
  <2>4. pcb => uncredited = GetSize
    BY <1>1 DEF WindowAccounted
  <2> QED
    BY <1>2, <2>3, <2>4
<1>6. rxBuf' # <<>>
  <2>1. Len(rxBuf') # 0
    BY <1>3, <1>4
  <2> QED
    BY <2>1, EmptyChain
<1>7. rxOffset' < rxBuf'[1]
  <2>1. CASE rxBuf = <<>>
    <3>1. rxOffset = 0 /\ Len(rxBuf) = 0
      BY <1>1, <2>1, EmptyChain DEF WindowAccounted
    <3> QED
      BY <1>2, <1>3, <3>1
  <2>2. CASE rxBuf # <<>>
    <3>1. Len(rxBuf) # 0
      BY <1>1, <2>2, EmptySeq DEF Chain
    <3>2. 1 \in 1..Len(rxBuf)
      BY <1>4, <3>1
    <3> QED
      BY <1>1, <1>2, <1>3, <2>2, <3>2 DEF WindowAccounted
  <2> QED
    BY <2>1, <2>2
<1> QED
  BY <1>1, <1>2, <1>3, <1>5, <1>6, <1>7 DEF WindowInv, WindowAccounted

(* A read takes no more than there is; it frees the buffers that end where *)
(* it ends or before, so that the next one, if any, is longer than what is *)
(* taken of it.                                                            *)
LEMMA ReadKeeps == ASSUME WindowInv, NEW size \in Sizes, Read(size) PROVE WindowInv'
<1>1. rxBuf \in Chain /\ rxOffset \in Nat /\ uncredited \in Int /\ WindowAccounted /\ size \in Nat
  BY ContextAssumption DEF WindowInv
<1>2. PICK n : n = Len(rxBuf)
  OBVIOUS
<1>3. PICK E : E = Ends(rxBuf)
  OBVIOUS
<1>4. n \in Nat /\ n # 0 /\ 1 \in 1..n /\ n \in 0..n
  <2>1. n \in Nat /\ (n = 0 => rxBuf = <<>>)
    BY <1>1, <1>2, LenProperties, EmptySeq DEF Chain
  <2>2. rxBuf # <<>>
    BY DEF Read
  <2> QED
    BY <2>1, <2>2
<1>5. /\ E[0] = 0
      /\ \A i \in 0..n : E[i] \in Nat /\ E[i] <= E[n]
      /\ \A i \in 1..n : E[i] = E[i - 1] + rxBuf[i] /\ rxBuf[i] \in Nat
  BY <1>1, <1>2, <1>3, EndsGrow
<1>6. rxOffset < E[n]
  <2>1. rxOffset < rxBuf[1]
    BY <1>1 DEF WindowAccounted, Read
  <2>2. E[1] = E[1 - 1] + rxBuf[1] /\ 1 - 1 = 0 /\ rxBuf[1] \in Nat
    BY <1>4, <1>5
  <2>3. 1 \in 0..n
    BY <1>4
  <2>4. E[1] <= E[n] /\ E[1] \in Nat /\ E[n] \in Nat
    BY <1>4, <1>5, <2>3
  <2> QED
    BY <1>1, <1>5, <2>1, <2>2, <2>4
<1>7. PICK taken : taken = Least(size, E[n] - rxOffset)
  OBVIOUS
<1>8. PICK end : end = rxOffset + taken
  OBVIOUS
<1>9. E[n] \in Nat
  BY <1>4, <1>5
<1>10. taken \in Nat /\ end \in Nat /\ end <= E[n]
  BY <1>1, <1>6, <1>7, <1>8, <1>9 DEF Least
<1> DEFINE used == {i \in 0..n : E[i] <= end}
<1>11. \E i \in used : \A j \in used : j <= i
  <2> DEFINE Left == {n - i : i \in used}
  <2>1. Left \subseteq Nat
    BY <1>4
  <2>2. n - 0 \in Left
    <3>1. 0 \in used
      BY <1>4, <1>5, <1>10
    <3> QED
      BY <3>1
  <2>3. PICK k \in Left : \A j \in Left : k <= j
    BY <2>1, <2>2, HasLeast
  <2>4. PICK i \in used : k = n - i
    OBVIOUS
  <2>5. ASSUME NEW j \in used PROVE j <= i
    <3>1. n - j \in Left
      OBVIOUS
    <3>2. n - i <= n - j /\ i \in Nat /\ j \in Nat
      BY <2>3, <2>4, <3>1
    <3> QED
      BY <1>4, <3>2
  <2> QED
    BY <2>5
<1>12. PICK freed : freed = CHOOSE i \in used : \A j \in used : j <= i
  OBVIOUS
<1>13. freed \in used /\ \A j \in used : j <= freed
  BY <1>11, <1>12
<1>14. /\ rxBuf' = SubSeq(rxBuf, freed + 1, n)
       /\ rxOffset' = end - E[freed]
       /\ uncredited' = IF pcb THEN uncredited - taken ELSE uncredited
       /\ pcb' = pcb
  BY <1>2, <1>3, <1>7, <1>8, <1>12, Zenon DEF Read, GetSize, TotLen, TotalLength, linkVars
<1>15. freed \in 0..n /\ E[freed] <= end /\ E[freed] \in Nat
  BY <1>5, <1>13
<1>16. \A j \in 0..n : E[j] <= end => j <= freed
  BY <1>13
<1> HIDE DEF used
<1>17. /\ rxBuf' \in Chain /\ Len(rxBuf') = n - freed
       /\ \A i \in 1..Len(rxBuf') : rxBuf'[i] = rxBuf[i + freed]
       /\ Ends(rxBuf')[Len(rxBuf')] = E[n] - E[freed]
  BY <1>1, <1>2, <1>3, <1>14, <1>15, ChainShrinks
<1>18. rxOffset' \in Nat /\ uncredited' \in Int
  BY <1>1, <1>10, <1>14, <1>15
<1>19. GetSize' = E[n] - end
  <2>1. GetSize' = (E[n] - E[freed]) - (end - E[freed])
    BY <1>14, <1>17 DEF GetSize, TotLen, TotalLength
  <2> QED
    BY <1>9, <1>10, <1>15, <2>1
<1>20. pcb' => uncredited' = GetSize'
  <2>1. GetSize = E[n] - rxOffset
    BY <1>2, <1>3 DEF GetSize, TotLen, TotalLength
  <2> QED
    BY <1>1, <1>8, <1>9, <1>10, <1>14, <1>19, <2>1 DEF WindowAccounted
<1>21. ASSUME rxBuf' # <<>> PROVE rxOffset' < rxBuf'[1]
  <2>1. freed < n
    <3>1. Len(rxBuf') # 0
      BY <1>17, <1>21, EmptySeq DEF Chain
    <3> QED
      BY <1>4, <1>15, <1>17, <3>1
  <2>2. freed + 1 \in 1..n /\ freed + 1 \in 0..n /\ (freed + 1) - 1 = freed /\ ~ (freed + 1 <= freed)
    BY <1>4, <1>15, <2>1
  <2>3. ~ (E[freed + 1] <= end)
    BY <1>16, <2>2
  <2>4. E[freed + 1] = E[freed] + rxBuf[freed + 1] /\ rxBuf[freed + 1] \in Nat
    BY <1>5, <2>2
  <2>5. rxBuf'[1] = rxBuf[freed + 1]
    <3>1. 1 \in 1..Len(rxBuf') /\ 1 + freed = freed + 1
      BY <1>4, <1>15, <1>17, <2>1
    <3> QED
      BY <1>17, <3>1
  <2>6. PICK v : v = rxBuf[freed + 1]
    OBVIOUS
  <2>7. end - E[freed] < v
    BY <1>10, <1>15, <2>3, <2>4, <2>6
  <2> QED
    BY <1>14, <2>5, <2>6, <2>7
<1>22. ASSUME rxBuf' = <<>> PROVE rxOffset' = 0
  <2>1. freed = n
    <3>1. Len(rxBuf') = 0
      BY <1>22, EmptyChain
    <3> QED
      BY <1>4, <1>15, <1>17, <3>1
  <2> QED
    BY <1>9, <1>10, <1>14, <1>15, <2>1
<1> QED
  BY <1>17, <1>18, <1>20, <1>21, <1>22 DEF WindowInv, WindowAccounted

LEMMA WindowStep == WindowInv /\ [ContextNext]_contextVars => WindowInv'
<1> SUFFICES ASSUME WindowInv, [ContextNext]_contextVars PROVE WindowInv'
  OBVIOUS
<1>1. CASE Connect
  <2>1. CASE Open
    BY <2>1, ResetKeeps
  <2>2. CASE UNCHANGED readVars /\ UNCHANGED linkVars
    BY <2>2, WindowSame DEF linkVars
  <2> QED
    BY <1>1, <2>1, <2>2 DEF Connect
<1>2. CASE \E size \in Sizes : Write(size)
  BY <1>2, WriteKeeps DEF Write
<1>3. CASE Flush \/ Stop \/ SetSync \/ FlushContinues
  <2>1. UNCHANGED readVars /\ UNCHANGED pcb
    BY <1>3 DEF Flush, Stop, SetSync, FlushContinues, linkVars
  <2> QED
    BY <2>1, WindowSame
<1>4. CASE Destroy
  BY <1>4, ResetKeeps DEF Destroy
<1>5. CASE \E size \in Sizes : Read(size)
  BY <1>5, ReadKeeps
<1>6. CASE ConnectReturns
  <2>1. CASE Release
    BY <2>1, ResetKeeps
  <2>2. CASE UNCHANGED readVars /\ UNCHANGED linkVars
    BY <2>2, WindowSame DEF linkVars
  <2> QED
    BY <1>6, <2>1, <2>2 DEF ConnectReturns
<1>7. CASE WriteResumes
  BY <1>7, WriteKeeps DEF WriteResumes
<1>8. CASE FlushReturns
  <2>1. CASE Open
    BY <2>1, ResetKeeps
  <2>2. CASE UNCHANGED readVars /\ UNCHANGED linkVars
    BY <2>2, WindowSame DEF linkVars
  <2>3. CASE UNCHANGED readVars /\ LetGo
    BY <2>3, WindowSame DEF LetGo
  <2> QED
    BY <1>8, <2>1, <2>2, <2>3 DEF FlushReturns, AfterFlush
<1>9. CASE OnConnected \/ \E n \in 1..SndBuf : OnAcked(n)
  <2>1. UNCHANGED readVars /\ UNCHANGED pcb
    BY <1>9 DEF OnConnected, OnAcked
  <2> QED
    BY <2>1, WindowSame
<1>10. CASE \E n \in 1..Wnd : OnRecv(n)
  <2>1. PICK n \in 1..Wnd : OnRecv(n)
    BY <1>10
  <2>2. n \in Nat \ {0}
    BY ContextAssumption
  <2> QED
    BY <2>1, <2>2, RecvKeeps
<1>11. CASE OnClosed \/ OnError
  <2>1. UNCHANGED readVars /\ (pcb' => pcb)
    BY <1>11 DEF OnClosed, OnError, LetGo
  <2> QED
    BY <2>1, WindowSame
<1>12. CASE Tick
  <2>1. UNCHANGED readVars /\ UNCHANGED pcb
    BY <1>12 DEF Tick, linkVars
  <2> QED
    BY <2>1, WindowSame
<1>13. CASE UNCHANGED contextVars
  <2>1. UNCHANGED readVars /\ UNCHANGED pcb
    BY <1>13 DEF contextVars, linkVars
  <2> QED
    BY <2>1, WindowSame
<1> QED
  BY <1>1, <1>2, <1>3, <1>4, <1>5, <1>6, <1>7, <1>8, <1>9, <1>10, <1>11, <1>12, <1>13
     DEF ContextNext, Call, Resume, Callback

(* What lwIP has delivered and not had back is what is still to be read,   *)
(* for windows, buffers and reads of any size: the window never closes on  *)
(* bytes that were read and never opens beyond them.                       *)
THEOREM WindowAccountedHolds == ContextSpec => []WindowAccounted
<1>1. ContextInit => WindowInv
  <2> SUFFICES ASSUME ContextInit PROVE WindowInv
    OBVIOUS
  <2>1. GetSize = 0
    BY EmptyChain DEF ContextInit, GetSize, TotLen, TotalLength
  <2> QED
    BY <2>1, EmptyChain DEF ContextInit, WindowInv, WindowAccounted
<1>2. WindowInv => WindowAccounted
  BY DEF WindowInv
<1> QED
  BY <1>1, <1>2, WindowStep, PTL DEF ContextSpec
-----------------------------------------------------------------------------
(* UDP.  Between neighbours in a chain of buffers: a packet starts at its  *)
(* first byte, goes on where the buffer before ended, and has come to its  *)
(* end where a helper follows.                                             *)
Buffer == [helper : BOOLEAN, of : Nat \X Nat, first : Nat, len : Nat]

Starts(b, p) == ~b.helper /\ b.of = p /\ b.first = 1

Finishes(b) == ~b.helper /\ b.first + b.len = b.of[2] + 1

Follows(b, d) ==
    IF b.helper THEN Starts(d, b.of)
    ELSE IF d.helper THEN Finishes(b)
    ELSE d.of = b.of /\ d.first = b.first + b.len

Linked(chain) == \A i \in 1..(Len(chain) - 1) : Follows(chain[i], chain[i + 1])

WholePackets(chain, p) ==
    /\ chain \in Seq(Buffer) /\ Len(chain) >= 1
    /\ Starts(chain[1], p)
    /\ Finishes(chain[Len(chain)])
    /\ Linked(chain)

LEMMA LengthsIsChain ==
    ASSUME NEW chain \in Seq(Buffer)
    PROVE  /\ Lengths(chain) \in Chain /\ Len(Lengths(chain)) = Len(chain)
           /\ \A i \in 1..Len(chain) : Lengths(chain)[i] = chain[i].len
           /\ Len(chain) \in Nat /\ DOMAIN chain = 1..Len(chain)
           /\ \A i \in 1..Len(chain) : chain[i] \in Buffer
<1>1. Len(chain) \in Nat /\ DOMAIN chain = 1..Len(chain) /\ \A i \in 1..Len(chain) : chain[i] \in Buffer
  BY LenProperties, ElementOfSeq
<1>2. Lengths(chain) = [i \in 1..Len(chain) |-> chain[i].len]
  BY <1>1 DEF Lengths
<1>3. \A i \in 1..Len(chain) : chain[i].len \in Nat
  BY <1>1 DEF Buffer
<1>4. Lengths(chain) \in [1..Len(chain) -> Nat]
  BY <1>2, <1>3
<1>5. Lengths(chain) \in Seq(Nat) /\ Len(Lengths(chain)) = Len(chain)
  BY <1>1, <1>4, IsASeq, LenProperties
<1> QED
  BY <1>1, <1>2, <1>5 DEF Chain

LEMMA NextHelper ==
    ASSUME NEW chain \in Seq(Buffer)
    PROVE  /\ ToHelper(chain) \in 0..Len(chain)
           /\ \A i \in 1..ToHelper(chain) : ~chain[i].helper
           /\ ToHelper(chain) < Len(chain) => chain[ToHelper(chain) + 1].helper
<1>1. Len(chain) \in Nat /\ DOMAIN chain = 1..Len(chain)
  BY LengthsIsChain
<1> DEFINE helpers == {i \in DOMAIN chain : chain[i].helper}
<1>2. CASE helpers = {}
  <2>1. ToHelper(chain) = Len(chain)
    BY <1>2 DEF ToHelper
  <2> QED
    BY <1>1, <1>2, <2>1
<1>3. CASE helpers # {}
  <2>1. PICK m \in helpers : \A i \in helpers : m <= i
    <3>1. helpers \subseteq Nat
      BY <1>1
    <3> QED
      BY <1>3, <3>1, HasLeast
  <2>2. Min(helpers) \in helpers /\ \A i \in helpers : Min(helpers) <= i
    BY <2>1 DEF Min
  <2>3. PICK k : k = Min(helpers)
    OBVIOUS
  <2>4. k \in 1..Len(chain) /\ chain[k].helper /\ \A i \in 1..Len(chain) : chain[i].helper => k <= i
    BY <1>1, <2>2, <2>3
  <2>5. ToHelper(chain) = k - 1
    BY <1>3, <2>3 DEF ToHelper
  <2>6. k - 1 \in 0..Len(chain) /\ (k - 1) + 1 = k
    BY <1>1, <2>4
  <2>7. ASSUME NEW i \in 1..(k - 1) PROVE ~chain[i].helper
    <3>1. i \in 1..Len(chain) /\ ~ (k <= i)
      BY <1>1, <2>4
    <3> QED
      BY <2>4, <3>1
  <2> QED
    BY <2>4, <2>5, <2>6, <2>7
<1> QED
  BY <1>2, <1>3

(* The first packet of a chain is the buffers up to the next helper, whole *)
(* and in order.                                                           *)
LEMMA FirstPacket ==
    ASSUME NEW chain, NEW p \in Nat \X Nat, WholePackets(chain, p)
    PROVE  /\ ToHelper(chain) \in 1..Len(chain)
           /\ \A i \in 1..ToHelper(chain) :
                 chain[i].of = p /\ chain[i].first = Ends(Lengths(chain))[i - 1] + 1
           /\ ProcessSize(chain) = p[2]
<1>1. chain \in Seq(Buffer) /\ Len(chain) >= 1 /\ Starts(chain[1], p) /\ Linked(chain) /\ Finishes(chain[Len(chain)])
  BY DEF WholePackets
<1>2. PICK k : k = ToHelper(chain)
  OBVIOUS
<1>3. PICK n : n = Len(chain)
  OBVIOUS
<1>4. PICK E : E = Ends(Lengths(chain))
  OBVIOUS
<1>5. /\ n \in Nat /\ n >= 1 /\ \A i \in 1..n : chain[i] \in Buffer
      /\ k \in 0..n /\ (\A i \in 1..k : ~chain[i].helper) /\ (k < n => chain[k + 1].helper)
  BY <1>1, <1>2, <1>3, LengthsIsChain, NextHelper
<1>6. /\ E[0] = 0
      /\ \A i \in 0..n : E[i] \in Nat
      /\ \A i \in 1..n : E[i] = E[i - 1] + chain[i].len
  <2>1. /\ Lengths(chain) \in Chain /\ Len(Lengths(chain)) = n
        /\ \A i \in 1..n : Lengths(chain)[i] = chain[i].len
    BY <1>1, <1>3, LengthsIsChain
  <2> QED
    BY <1>4, <2>1, EndsGrow
<1>7. k >= 1
  <2>1. SUFFICES ASSUME k = 0 PROVE FALSE
    BY <1>5
  <2>2. k < n /\ k + 1 = 1
    BY <1>5, <2>1
  <2> QED
    BY <1>1, <1>5, <2>2 DEF Starts
<1>8. ASSUME NEW i \in 1..k, i + 1 <= k PROVE chain[i + 1].of = chain[i].of /\ chain[i + 1].first = chain[i].first + chain[i].len
  <2>1. i \in 1..(n - 1) /\ i + 1 \in 1..k
    BY <1>5, <1>8
  <2>2. Follows(chain[i], chain[i + 1])
    BY <1>1, <1>3, <2>1 DEF Linked
  <2> QED
    BY <1>5, <2>1, <2>2 DEF Follows
<1> DEFINE Bad == {i \in 1..k : ~ (chain[i].of = p /\ chain[i].first = E[i - 1] + 1)}
<1>9. Bad = {}
  <2>1. SUFFICES ASSUME Bad # {} PROVE FALSE
    OBVIOUS
  <2>2. PICK i \in Bad : \A j \in Bad : i <= j
    <3>1. Bad \subseteq Nat
      BY <1>5
    <3> QED
      BY <2>1, <3>1, HasLeast
  <2>3. i \in 1..k /\ ~ (chain[i].of = p /\ chain[i].first = E[i - 1] + 1)
    OBVIOUS
  <2>4. i # 1
    <3>1. SUFFICES ASSUME i = 1 PROVE FALSE
      OBVIOUS
    <3>2. i - 1 = 0
      BY <3>1
    <3> QED
      BY <1>1, <1>6, <2>3, <3>1, <3>2 DEF Starts
  <2>5. i - 1 \in 1..k /\ i - 1 \notin Bad /\ (i - 1) + 1 = i /\ (i - 1) + 1 <= k
    BY <1>5, <2>2, <2>3, <2>4
  <2>6. chain[i - 1].of = p /\ chain[i - 1].first = E[(i - 1) - 1] + 1
    BY <2>5
  <2>7. chain[i].of = chain[i - 1].of /\ chain[i].first = chain[i - 1].first + chain[i - 1].len
    BY <1>8, <2>5
  <2>8. i - 1 \in 1..n /\ (i - 1) - 1 \in 0..n /\ i - 1 \in 0..n
    BY <1>5, <2>5
  <2>9. E[i - 1] = E[(i - 1) - 1] + chain[i - 1].len /\ E[(i - 1) - 1] \in Nat /\ chain[i - 1].len \in Nat
    BY <1>5, <1>6, <2>8 DEF Buffer
  <2>10. chain[i].first = E[i - 1] + 1
    BY <2>6, <2>7, <2>9
  <2> QED
    BY <2>3, <2>6, <2>7, <2>10
<1>10. \A i \in 1..k : chain[i].of = p /\ chain[i].first = E[i - 1] + 1
  BY <1>9
<1> HIDE DEF Bad
<1>11. Finishes(chain[k])
  <2>1. CASE k = n
    BY <1>1, <1>3, <2>1
  <2>2. CASE k < n
    <3>1. k \in 1..(n - 1) /\ k \in 1..k
      BY <1>5, <1>7, <2>2
    <3>2. Follows(chain[k], chain[k + 1]) /\ ~chain[k].helper /\ chain[k + 1].helper
      BY <1>1, <1>3, <1>5, <2>2, <3>1 DEF Linked
    <3> QED
      BY <3>2 DEF Follows
  <2> QED
    BY <1>5, <2>1, <2>2
<1>12. E[k] = p[2]
  <2>1. k \in 1..k /\ k \in 1..n /\ k - 1 \in 0..n
    BY <1>5, <1>7
  <2>2. chain[k].of = p /\ chain[k].first = E[k - 1] + 1 /\ E[k] = E[k - 1] + chain[k].len
        /\ E[k - 1] \in Nat /\ chain[k].len \in Nat
    BY <1>5, <1>6, <1>10, <2>1 DEF Buffer
  <2>3. (E[k - 1] + 1) + chain[k].len = p[2] + 1
    BY <1>11, <2>2 DEF Finishes
  <2>4. p[2] \in Nat
    OBVIOUS
  <2> QED
    BY <2>2, <2>3, <2>4
<1>13. ProcessSize(chain) = E[k]
  BY <1>2, <1>4 DEF ProcessSize
<1> QED
  BY <1>2, <1>3, <1>4, <1>5, <1>7, <1>10, <1>12, <1>13

(* The bytes of the packet at the head, wherever the buffers part.         *)
LEMMA HeadByte ==
    ASSUME NEW chain, NEW p \in Nat \X Nat, WholePackets(chain, p), NEW j \in 1..p[2]
    PROVE  ByteAt(chain, j) = <<p, j>>
<1>1. PICK E : E = Ends(Lengths(chain))
  OBVIOUS
<1>2. PICK n : n = Len(chain)
  OBVIOUS
<1>3. PICK k : k = ToHelper(chain)
  OBVIOUS
<1>4. /\ n \in Nat /\ DOMAIN chain = 1..n
      /\ Lengths(chain) \in Chain /\ Len(Lengths(chain)) = n
      /\ \A i \in 1..n : Lengths(chain)[i] = chain[i].len /\ chain[i] \in Buffer
  BY <1>2, LengthsIsChain DEF WholePackets
<1>5. /\ E[0] = 0
      /\ \A i \in 0..n : E[i] \in Nat
      /\ \A i \in 1..n : E[i] = E[i - 1] + chain[i].len /\ chain[i].len \in Nat
  BY <1>1, <1>4, EndsGrow
<1>6. k \in 1..n /\ E[k] = p[2] /\ \A i \in 1..k : chain[i].of = p /\ chain[i].first = E[i - 1] + 1
  BY <1>1, <1>2, <1>3, FirstPacket, SMTT(20) DEF ProcessSize
<1>7. j \in Nat /\ j >= 1 /\ j <= p[2]
  OBVIOUS
<1> DEFINE Reach == {i \in 0..n : j <= E[i]}
           Holds(i) == E[i - 1] < j /\ j <= E[i]
<1>8. PICK i \in Reach : \A m \in Reach : i <= m
  <2>1. k \in Reach
    BY <1>4, <1>6, <1>7
  <2>2. Reach \subseteq Nat
    BY <1>4
  <2> HIDE DEF Reach
  <2> QED
    BY <2>1, <2>2, HasLeast
<1>9. i \in 0..n /\ j <= E[i] /\ i <= k
  <2>1. k \in Reach
    BY <1>4, <1>6, <1>7
  <2> QED
    BY <1>8, <2>1
<1>10. i # 0
  BY <1>5, <1>7, <1>9
<1>11. i \in 1..n /\ i \in 1..k /\ i - 1 \in 0..n /\ ~ (i <= i - 1)
  BY <1>4, <1>6, <1>9, <1>10
<1>12. ~ (j <= E[i - 1])
  <2>1. i - 1 \notin Reach
    <3> HIDE DEF Reach
    <3> QED
      BY <1>8, <1>11
  <2> QED
    BY <1>11, <2>1
<1>13. Holds(i)
  BY <1>5, <1>7, <1>9, <1>11, <1>12
(* The ends grow, so no other buffer holds the byte.                       *)
<1>14. \A a, b \in 0..n : a <= b => E[a] <= E[b]
  <2> SUFFICES ASSUME NEW a \in 0..n PROVE \A b \in 0..n : a <= b => E[a] <= E[b]
    OBVIOUS
  <2> DEFINE Bad == {b \in 0..n : a <= b /\ ~ (E[a] <= E[b])}
  <2>1. SUFFICES ASSUME Bad # {} PROVE FALSE
    OBVIOUS
  <2>2. PICK b \in Bad : \A m \in Bad : b <= m
    <3>1. Bad \subseteq Nat
      BY <1>4
    <3> QED
      BY <2>1, <3>1, HasLeast
  <2>3. b \in 0..n /\ a <= b /\ ~ (E[a] <= E[b])
    OBVIOUS
  <2>4. b # a
    BY <1>5, <2>3
  <2>5. b \in 1..n /\ b - 1 \in 0..n /\ a <= b - 1 /\ ~ (b <= b - 1)
    BY <1>4, <2>3, <2>4
  <2>6. b - 1 \notin Bad
    <3> HIDE DEF Bad
    <3> QED
      BY <2>2, <2>5
  <2>7. E[a] <= E[b - 1]
    BY <2>5, <2>6
  <2>8. E[b] = E[b - 1] + chain[b].len /\ chain[b].len \in Nat /\ E[a] \in Nat /\ E[b - 1] \in Nat
    BY <1>5, <2>5
  <2> QED
    BY <2>3, <2>7, <2>8
<1>15. ASSUME NEW m \in 1..n, Holds(m) PROVE m = i
  <2>1. m - 1 \in 0..n /\ m \in 0..n /\ m \in Nat /\ i \in 0..n /\ i \in Nat
    BY <1>4, <1>11
  <2>2. E[m - 1] < j /\ j <= E[m] /\ E[i - 1] < j /\ j <= E[i]
    BY <1>13, <1>15
  <2>3. E[m - 1] \in Nat /\ E[m] \in Nat /\ E[i - 1] \in Nat /\ E[i] \in Nat
    BY <1>5, <1>11, <2>1
  <2>4. ~ (m <= i - 1)
    BY <1>7, <1>11, <1>14, <2>1, <2>2, <2>3
  <2>5. ~ (i <= m - 1)
    BY <1>7, <1>11, <1>14, <2>1, <2>2, <2>3
  <2> QED
    BY <2>1, <2>4, <2>5
<1> HIDE DEF Holds
<1>16. (CHOOSE m \in DOMAIN chain : Holds(m)) = i
  BY <1>4, <1>11, <1>13, <1>15
<1>17. ByteAt(chain, j) = <<chain[i].of, chain[i].first + (j - E[i - 1]) - 1>>
  BY <1>1, <1>16, Zenon DEF ByteAt, Holds
<1>18. chain[i].of = p /\ chain[i].first = E[i - 1] + 1 /\ E[i - 1] \in Nat
  BY <1>5, <1>6, <1>11
<1>19. (E[i - 1] + 1) + (j - E[i - 1]) - 1 = j
  BY <1>7, <1>18
<1> QED
  BY <1>17, <1>18, <1>19

(* A datagram of any shape is one whole packet.                            *)
LEMMA Datagram ==
    ASSUME NEW shape \in Seq(Nat), shape # <<>>, NEW number \in Nat
    PROVE  LET p == <<number, TotalLength(shape)>>
           IN  p \in Nat \X Nat /\ WholePackets(Packet(p, shape), p)
<1> DEFINE p == <<number, TotalLength(shape)>>
           chain == Packet(p, shape)
<1>1. PICK n : n = Len(shape)
  OBVIOUS
<1>2. n \in Nat /\ n >= 1 /\ DOMAIN shape = 1..n /\ \A i \in 1..n : shape[i] \in Nat
  BY <1>1, LenProperties, EmptySeq, ElementOfSeq
<1>3. PICK E : E = Ends(shape)
  OBVIOUS
<1>4. /\ E[0] = 0 /\ \A i \in 0..n : E[i] \in Nat
      /\ \A i \in 1..n : E[i] = E[i - 1] + shape[i]
  BY <1>1, <1>3, EndsGrow DEF Chain
<1>5. p = <<number, E[n]>> /\ E[n] \in Nat
  <2>1. n \in 0..n
    BY <1>2
  <2> QED
    BY <1>1, <1>3, <1>4, <2>1 DEF TotalLength
<1>6. p \in Nat \X Nat /\ p[2] = E[n]
  BY <1>5
<1>7. chain = [i \in 1..n |-> [helper |-> FALSE, of |-> p, first |-> E[i - 1] + 1, len |-> shape[i]]]
  BY <1>2, <1>3 DEF Packet
<1> HIDE DEF chain, p
<1>8. ASSUME NEW i \in 1..n
      PROVE  /\ chain[i] \in Buffer /\ ~chain[i].helper /\ chain[i].of = p
             /\ chain[i].first = E[i - 1] + 1 /\ chain[i].len = shape[i]
  <2>1. i - 1 \in 0..n
    BY <1>2
  <2>2. E[i - 1] + 1 \in Nat /\ shape[i] \in Nat
    BY <1>2, <1>4, <2>1
  <2>3. chain[i] = [helper |-> FALSE, of |-> p, first |-> E[i - 1] + 1, len |-> shape[i]]
    BY <1>7
  <2> QED
    BY <1>6, <2>2, <2>3 DEF Buffer
<1>9. chain \in Seq(Buffer) /\ Len(chain) = n
  <2>1. chain \in [1..n -> Buffer]
    BY <1>7, <1>8
  <2> QED
    BY <1>2, <2>1, IsASeq, LenProperties
<1>10. Starts(chain[1], p)
  <2>1. 1 \in 1..n /\ 1 - 1 = 0
    BY <1>2
  <2>2. chain[1].first = E[0] + 1 /\ ~chain[1].helper /\ chain[1].of = p
    BY <1>8, <2>1
  <2> QED
    BY <1>4, <2>2 DEF Starts
<1>11. Finishes(chain[n])
  <2>1. n \in 1..n /\ n - 1 \in 0..n
    BY <1>2
  <2>2. E[n] = E[n - 1] + shape[n] /\ E[n - 1] \in Nat /\ shape[n] \in Nat
    BY <1>2, <1>4, <2>1
  <2>3. ~chain[n].helper /\ chain[n].of = p /\ chain[n].first = E[n - 1] + 1 /\ chain[n].len = shape[n]
    BY <1>8, <2>1
  <2>4. chain[n].of[2] = E[n]
    BY <1>6, <2>3
  <2>5. chain[n].first + chain[n].len = E[n] + 1
    <3>1. PICK a : a = E[n - 1]
      OBVIOUS
    <3>2. PICK b : b = shape[n]
      OBVIOUS
    <3>3. E[n] = a + b /\ a \in Nat /\ b \in Nat
      BY <2>2, <3>1, <3>2
    <3>4. chain[n].first = a + 1 /\ chain[n].len = b
      BY <2>3, <3>1, <3>2
    <3> QED
      BY <3>3, <3>4
  <2> QED
    BY <2>3, <2>4, <2>5 DEF Finishes
<1>12. ASSUME NEW i \in 1..(n - 1) PROVE Follows(chain[i], chain[i + 1])
  <2>1. i \in 1..n /\ i + 1 \in 1..n /\ (i + 1) - 1 = i /\ i - 1 \in 0..n
    BY <1>2
  <2>2. E[i] = E[i - 1] + shape[i] /\ E[i - 1] \in Nat /\ shape[i] \in Nat
    BY <1>2, <1>4, <2>1
  <2>3. ~chain[i].helper /\ chain[i].of = p /\ chain[i].first = E[i - 1] + 1 /\ chain[i].len = shape[i]
    BY <1>8, <2>1
  <2>4. ~chain[i + 1].helper /\ chain[i + 1].of = p /\ chain[i + 1].first = E[i] + 1
    BY <1>8, <2>1
  <2>5. chain[i + 1].first = chain[i].first + chain[i].len
    BY <2>2, <2>3, <2>4, SMTT(20)
  <2> QED
    BY <2>3, <2>4, <2>5 DEF Follows
<1>13. WholePackets(chain, p)
  BY <1>2, <1>9, <1>10, <1>11, <1>12 DEF WholePackets, Linked
<1> QED
  BY <1>6, <1>13 DEF chain, p

(* A packet that arrives is chained behind the others, a helper first.     *)
LEMMA Chained ==
    ASSUME NEW chain, NEW p, WholePackets(chain, p),
           NEW more, NEW q \in Nat \X Nat, WholePackets(more, q)
    PROVE  WholePackets(chain \o <<Helper(q)>> \o more, p)
<1> DEFINE h == <<Helper(q)>>
           front == chain \o h
           all == front \o more
<1>1. PICK n : n = Len(chain)
  OBVIOUS
<1>2. PICK m : m = Len(more)
  OBVIOUS
<1>3. /\ chain \in Seq(Buffer) /\ n \in Nat /\ n >= 1 /\ Starts(chain[1], p) /\ Finishes(chain[n])
      /\ \A i \in 1..(n - 1) : Follows(chain[i], chain[i + 1])
  BY <1>1, LenProperties DEF WholePackets, Linked
<1>4. /\ more \in Seq(Buffer) /\ m \in Nat /\ m >= 1 /\ Starts(more[1], q) /\ Finishes(more[m])
      /\ \A i \in 1..(m - 1) : Follows(more[i], more[i + 1])
  BY <1>2, LenProperties DEF WholePackets, Linked
<1>5. Helper(q) \in Buffer /\ Helper(q).helper /\ Helper(q).of = q
  BY DEF Helper, Buffer
<1>6. h \in Seq(Buffer) /\ Len(h) = 1 /\ h[1] = Helper(q)
  BY <1>5
<1> HIDE DEF h
<1>7. /\ front \in Seq(Buffer) /\ Len(front) = n + 1
      /\ \A i \in 1..n : front[i] = chain[i]
      /\ front[n + 1] = Helper(q)
  <2>1. front \in Seq(Buffer) /\ Len(front) = Len(chain) + Len(h)
        /\ \A i \in 1..(Len(chain) + Len(h)) : front[i] = IF i <= Len(chain) THEN chain[i] ELSE h[i - Len(chain)]
    BY <1>3, <1>6, ConcatProperties, Zenon
  <2> HIDE DEF front
  <2>2. ASSUME NEW i \in 1..n PROVE front[i] = chain[i]
    <3>1. i \in 1..(Len(chain) + Len(h)) /\ i <= Len(chain)
      BY <1>1, <1>3, <1>6
    <3> QED
      BY <2>1, <3>1
  <2>3. front[n + 1] = h[1]
    <3>1. n + 1 \in 1..(Len(chain) + Len(h)) /\ ~ (n + 1 <= Len(chain)) /\ (n + 1) - Len(chain) = 1
      BY <1>1, <1>3, <1>6
    <3> QED
      BY <2>1, <3>1
  <2> QED
    BY <1>1, <1>6, <2>1, <2>2, <2>3
<1> HIDE DEF front
<1>8. /\ all \in Seq(Buffer) /\ Len(all) = (n + 1) + m
      /\ \A i \in 1..(n + 1) : all[i] = front[i]
      /\ \A i \in 1..m : all[(n + 1) + i] = more[i]
  <2>1. all \in Seq(Buffer) /\ Len(all) = Len(front) + Len(more)
        /\ \A i \in 1..(Len(front) + Len(more)) : all[i] = IF i <= Len(front) THEN front[i] ELSE more[i - Len(front)]
    BY <1>4, <1>7, ConcatProperties, Zenon
  <2> HIDE DEF all
  <2>2. ASSUME NEW i \in 1..(n + 1) PROVE all[i] = front[i]
    <3>1. i \in 1..(Len(front) + Len(more)) /\ i <= Len(front)
      BY <1>2, <1>3, <1>4, <1>7
    <3> QED
      BY <2>1, <3>1
  <2>3. ASSUME NEW i \in 1..m PROVE all[(n + 1) + i] = more[i]
    <3>1. /\ (n + 1) + i \in 1..(Len(front) + Len(more))
          /\ ~ ((n + 1) + i <= Len(front)) /\ ((n + 1) + i) - Len(front) = i
      BY <1>2, <1>3, <1>4, <1>7
    <3> QED
      BY <2>1, <3>1
  <2> QED
    BY <1>2, <1>7, <2>1, <2>2, <2>3
<1>9. all = chain \o <<Helper(q)>> \o more
  BY DEF front, h
<1> HIDE DEF all
<1>10. /\ \A i \in 1..n : all[i] = chain[i]
       /\ all[n + 1] = Helper(q)
       /\ \A i \in 1..m : all[(n + 1) + i] = more[i]
  <2>1. n + 1 \in 1..(n + 1) /\ \A i \in 1..n : i \in 1..(n + 1)
    BY <1>3
  <2> QED
    BY <1>7, <1>8, <2>1
<1>11. Starts(all[1], p)
  <2>1. 1 \in 1..n
    BY <1>3
  <2> QED
    BY <1>3, <1>10, <2>1
<1>12. Finishes(all[Len(all)])
  <2>1. m \in 1..m
    BY <1>4
  <2> QED
    BY <1>4, <1>8, <1>10, <2>1
<1>13. ASSUME NEW i \in 1..(Len(all) - 1) PROVE Follows(all[i], all[i + 1])
  <2>1. i \in Nat /\ i >= 1 /\ i <= n + m
    BY <1>3, <1>4, <1>8
  <2>2. CASE i < n
    <3>1. i \in 1..n /\ i + 1 \in 1..n /\ i \in 1..(n - 1)
      BY <1>3, <2>1, <2>2
    <3> QED
      BY <1>3, <1>10, <3>1
  <2>3. CASE i = n
    <3>1. n \in 1..n
      BY <1>3
    <3>2. all[i] = chain[n] /\ all[i + 1] = Helper(q) /\ ~chain[n].helper
      BY <1>3, <1>10, <2>3, <3>1 DEF Finishes
    <3> QED
      BY <1>3, <1>5, <3>2 DEF Follows
  <2>4. CASE i = n + 1
    <3>1. 1 \in 1..m /\ i + 1 = (n + 1) + 1
      BY <1>4, <2>4
    <3>2. all[i] = Helper(q) /\ all[i + 1] = more[1]
      BY <1>10, <2>4, <3>1
    <3> QED
      BY <1>4, <1>5, <3>2 DEF Follows
  <2>5. CASE i > n + 1
    <3>1. PICK j : j = i - (n + 1)
      OBVIOUS
    <3>2. j \in 1..(m - 1) /\ j \in 1..m /\ j + 1 \in 1..m /\ (n + 1) + j = i /\ (n + 1) + (j + 1) = i + 1
      BY <1>3, <1>4, <2>1, <2>5, <3>1
    <3>3. all[i] = more[j] /\ all[i + 1] = more[j + 1]
      BY <1>10, <3>2
    <3> QED
      BY <1>4, <3>2, <3>3
  <2> QED
    BY <1>3, <2>1, <2>2, <2>3, <2>4, <2>5
<1>14. Len(all) >= 1
  BY <1>3, <1>4, <1>8
<1> QED
  BY <1>8, <1>9, <1>11, <1>12, <1>13, <1>14 DEF WholePackets, Linked

(* What is behind a helper is a chain of its own, its first packet the one *)
(* the helper is for.                                                      *)
LEMMA BehindHelper ==
    ASSUME NEW chain, NEW p, WholePackets(chain, p),
           NEW k \in 0..Len(chain), k < Len(chain), chain[k + 1].helper
    PROVE  /\ chain[k + 1].of \in Nat \X Nat
           /\ WholePackets(SubSeq(chain, k + 2, Len(chain)), chain[k + 1].of)
<1>1. PICK n : n = Len(chain)
  OBVIOUS
<1>2. /\ chain \in Seq(Buffer) /\ n \in Nat /\ Finishes(chain[n])
      /\ (\A i \in 1..n : chain[i] \in Buffer)
      /\ \A i \in 1..(n - 1) : Follows(chain[i], chain[i + 1])
  BY <1>1, LengthsIsChain DEF WholePackets, Linked
<1>3. k \in Nat /\ k + 1 \in 1..n /\ k + 2 = (k + 1) + 1
  BY <1>1, <1>2
<1>4. k + 1 # n
  BY <1>2 DEF Finishes
<1>5. k + 2 \in 1..n /\ k + 1 \in 1..(n - 1)
  BY <1>2, <1>3, <1>4
<1>6. Follows(chain[k + 1], chain[k + 2])
  BY <1>2, <1>3, <1>5
<1>7. Starts(chain[k + 2], chain[k + 1].of)
  BY <1>6 DEF Follows
<1>8. chain[k + 1].of \in Nat \X Nat
  BY <1>2, <1>3 DEF Buffer
<1> DEFINE lo == k + 2
<1>9. PICK rest : rest = SubSeq(chain, lo, n)
  OBVIOUS
<1>10. /\ rest \in Seq(Buffer) /\ Len(rest) = n - (k + 1)
       /\ \A i \in 1..(n - (k + 1)) : rest[i] = chain[i + (k + 1)]
  <2>1. lo \in Int /\ n \in Int /\ lo <= n /\ lo <= n + 1 /\ \A i \in lo..n : i \in 1..n
    BY <1>2, <1>3, <1>5
  <2>2. \A i \in lo..n : chain[i] \in Buffer
    BY <1>2, <2>1
  <2>3. (n - lo) + 1 = n - (k + 1)
    BY <1>2, <1>3
  <2>4. \A i \in 1..(n - (k + 1)) : i \in 1..((n - lo) + 1) /\ (lo + i) - 1 = i + (k + 1)
    BY <1>2, <1>3
  <2> HIDE DEF lo
  <2>5. /\ SubSeq(chain, lo, n) \in Seq(Buffer)
        /\ Len(SubSeq(chain, lo, n)) = IF lo <= n THEN (n - lo) + 1 ELSE 0
        /\ \A i \in 1..((n - lo) + 1) : SubSeq(chain, lo, n)[i] = chain[(lo + i) - 1]
    BY <1>1, <1>2, <2>1, <2>2, SubSeqProperties
  <2>6. rest \in Seq(Buffer) /\ Len(rest) = n - (k + 1)
    BY <1>9, <2>1, <2>3, <2>5
  <2>7. ASSUME NEW i \in 1..(n - (k + 1)) PROVE rest[i] = chain[i + (k + 1)]
    BY <1>9, <2>4, <2>5
  <2> QED
    BY <2>6, <2>7
<1> HIDE DEF lo
<1>11. Len(rest) \in Nat /\ Len(rest) >= 1
  BY <1>2, <1>3, <1>5, <1>10
<1>12. Starts(rest[1], chain[k + 1].of)
  <2>1. 1 \in 1..(n - (k + 1)) /\ 1 + (k + 1) = k + 2
    BY <1>2, <1>3, <1>5
  <2> QED
    BY <1>7, <1>10, <2>1
<1>13. Finishes(rest[Len(rest)])
  <2>1. Len(rest) \in 1..(n - (k + 1)) /\ Len(rest) + (k + 1) = n
    BY <1>2, <1>3, <1>10, <1>11
  <2> QED
    BY <1>2, <1>10, <2>1
<1>14. ASSUME NEW i \in 1..(Len(rest) - 1) PROVE Follows(rest[i], rest[i + 1])
  <2>1. PICK j : j = i + (k + 1)
    OBVIOUS
  <2>2. /\ i \in 1..(n - (k + 1)) /\ i + 1 \in 1..(n - (k + 1))
        /\ (i + 1) + (k + 1) = j + 1 /\ j \in 1..(n - 1)
    BY <1>2, <1>3, <1>10, <1>11, <2>1
  <2>3. rest[i] = chain[j] /\ rest[i + 1] = chain[j + 1]
    BY <1>10, <2>1, <2>2
  <2> QED
    BY <1>2, <2>2, <2>3
<1>15. WholePackets(rest, chain[k + 1].of)
  BY <1>10, <1>11, <1>12, <1>13, <1>14 DEF WholePackets, Linked
<1> QED
  BY <1>1, <1>8, <1>9, <1>15 DEF lo

(* The fields of a context and of the packet it reads.                     *)
Context(live, refs, bound, rx, cur, room, out, read) ==
    [live |-> live, refs |-> refs, bound |-> bound, rx |-> rx, cur |-> cur,
     room |-> room, out |-> out, read |-> read]
Cursor(taken, offset, size, from) ==
    [taken |-> taken, offset |-> offset, size |-> size, from |-> from]

Shaped(x) ==
    \E live, refs, bound, rx, taken, offset, size, from, room, out, read :
        x = Context(live, refs, bound, rx, Cursor(taken, offset, size, from), room, out, read)

LEMMA OfFields ==
    ASSUME NEW live, NEW refs, NEW bound, NEW rx, NEW taken, NEW offset, NEW size, NEW from,
           NEW room, NEW out, NEW read
    PROVE  Shaped(Context(live, refs, bound, rx, Cursor(taken, offset, size, from), room, out, read))
BY Zenon DEF Shaped

\* y differs from x in other fields than those of the packet it reads
Alike(y, x) == Shaped(y) /\ y.rx = x.rx /\ y.cur = x.cur /\ y.read = x.read

(* Counting references and writing to the packet going out touch nothing   *)
(* of the packet being read.                                               *)
LEMMA OtherFields ==
    ASSUME NEW x, Shaped(x), NEW v, NEW w
    PROVE  /\ Alike([x EXCEPT !.refs = v], x)
           /\ Alike([x EXCEPT !.bound = v], x)
           /\ Alike([x EXCEPT !.live = v, !.refs = w], x)
           /\ Alike([x EXCEPT !.out = v], x)
           /\ Alike([x EXCEPT !.room = v, !.out = w], x)
<1>1. PICK live, refs, bound, rx, taken, offset, size, from, room, out, read :
          x = Context(live, refs, bound, rx, Cursor(taken, offset, size, from), room, out, read)
  BY DEF Shaped
<1>2. PICK cur : cur = Cursor(taken, offset, size, from)
  OBVIOUS
<1>3. x = Context(live, refs, bound, rx, cur, room, out, read)
  BY <1>1, <1>2
<1>4. ASSUME NEW y, NEW a, NEW b, NEW c, NEW d, NEW e, y = Context(a, b, c, rx, cur, d, e, read)
      PROVE  Alike(y, x)
  <2>1. Shaped(y)
    BY <1>2, <1>4, Zenon DEF Shaped
  <2>2. y.rx = x.rx /\ y.cur = x.cur /\ y.read = x.read
    BY <1>3, <1>4 DEF Context
  <2> QED
    BY <2>1, <2>2 DEF Alike
<1>5. [x EXCEPT !.refs = v] = Context(live, v, bound, rx, cur, room, out, read)
  BY <1>3 DEF Context
<1>6. [x EXCEPT !.bound = v] = Context(live, refs, v, rx, cur, room, out, read)
  BY <1>3 DEF Context
<1>7. [x EXCEPT !.live = v, !.refs = w] = Context(v, w, bound, rx, cur, room, out, read)
  <2>1. PICK y : y = [x EXCEPT !.live = v, !.refs = w]
    OBVIOUS
  <2>2. y = Context(v, w, bound, rx, cur, room, out, read)
    BY <1>3, <2>1 DEF Context
  <2> QED
    BY <2>1, <2>2, Zenon
<1>8. [x EXCEPT !.out = v] = Context(live, refs, bound, rx, cur, room, v, read)
  BY <1>3 DEF Context
<1>9. [x EXCEPT !.room = v, !.out = w] = Context(live, refs, bound, rx, cur, v, w, read)
  <2>1. PICK y : y = [x EXCEPT !.room = v, !.out = w]
    OBVIOUS
  <2>2. y = Context(live, refs, bound, rx, cur, v, w, read)
    BY <1>3, <2>1 DEF Context
  <2> QED
    BY <2>1, <2>2, Zenon
<1> QED
  BY <1>4, <1>5, <1>6, <1>7, <1>8, <1>9, ZenonT(30)

(* What becomes of the fields when a packet is taken, comes first, is next,*)
(* comes behind others, is read.                                           *)
WithTaken(x, t) ==
    [x EXCEPT !.cur.taken = t]
WithPacket(x, chain, done, o, s, f) ==
    [x EXCEPT !.rx = chain, !.read = done,
              !.cur = [taken |-> FALSE, offset |-> o, size |-> s, from |-> f]]
WithNext(x, chain, done, o, s, f) ==
    [x EXCEPT !.rx = chain, !.read = done,
              !.cur = [@ EXCEPT !.offset = o, !.size = s, !.from = f]]
WithChain(x, chain) ==
    [x EXCEPT !.rx = chain]
WithRead(x, o, done) ==
    [x EXCEPT !.cur.offset = o, !.read = done]

LEMMA Taken ==
    ASSUME NEW x, Shaped(x), NEW t, NEW y, y = WithTaken(x, t)
    PROVE  /\ Shaped(y) /\ y.rx = x.rx /\ y.read = x.read
           /\ y.cur.offset = x.cur.offset /\ y.cur.size = x.cur.size /\ y.cur.from = x.cur.from
<1>1. PICK live, refs, bound, rx, taken, offset, size, from, room, out, read :
          x = Context(live, refs, bound, rx, Cursor(taken, offset, size, from), room, out, read)
  BY DEF Shaped
<1>2. y = Context(live, refs, bound, rx, Cursor(t, offset, size, from), room, out, read)
  BY <1>1 DEF Context, Cursor, WithTaken
<1>3. Shaped(Context(live, refs, bound, rx, Cursor(t, offset, size, from), room, out, read))
  BY OfFields, Zenon
<1>4. Shaped(y)
  BY <1>2, <1>3, Zenon
<1>5. y.rx = x.rx /\ y.read = x.read
  BY <1>1, <1>2 DEF Context, Cursor
<1> QED
  BY <1>1, <1>2, <1>4, <1>5 DEF Context, Cursor

LEMMA CameFirst ==
    ASSUME NEW x, Shaped(x), NEW chain, NEW done, NEW o, NEW s, NEW f, NEW y, y = WithPacket(x, chain, done, o, s, f)
    PROVE  /\ Shaped(y) /\ y.rx = chain /\ y.read = done
           /\ y.cur.offset = o /\ y.cur.size = s /\ y.cur.from = f
<1>1. PICK live, refs, bound, rx, taken, offset, size, from, room, out, read :
          x = Context(live, refs, bound, rx, Cursor(taken, offset, size, from), room, out, read)
  BY DEF Shaped
<1>2. y = Context(live, refs, bound, chain, Cursor(FALSE, o, s, f), room, out, done)
  BY <1>1 DEF Context, Cursor, WithPacket
<1>3. Shaped(Context(live, refs, bound, chain, Cursor(FALSE, o, s, f), room, out, done))
  BY OfFields, Zenon
<1>4. Shaped(y)
  BY <1>2, <1>3, Zenon
<1>5. y.rx = chain /\ y.read = done
  BY <1>1, <1>2 DEF Context, Cursor
<1> QED
  BY <1>1, <1>2, <1>4, <1>5 DEF Context, Cursor

LEMMA IsNext ==
    ASSUME NEW x, Shaped(x), NEW chain, NEW done, NEW o, NEW s, NEW f, NEW y, y = WithNext(x, chain, done, o, s, f)
    PROVE  /\ Shaped(y) /\ y.rx = chain /\ y.read = done
           /\ y.cur.offset = o /\ y.cur.size = s /\ y.cur.from = f
<1>1. PICK live, refs, bound, rx, taken, offset, size, from, room, out, read :
          x = Context(live, refs, bound, rx, Cursor(taken, offset, size, from), room, out, read)
  BY DEF Shaped
<1>2. y = Context(live, refs, bound, chain, Cursor(taken, o, s, f), room, out, done)
  BY <1>1 DEF Context, Cursor, WithNext
<1>3. Shaped(Context(live, refs, bound, chain, Cursor(taken, o, s, f), room, out, done))
  BY OfFields, Zenon
<1>4. Shaped(y)
  BY <1>2, <1>3, Zenon
<1>5. y.rx = chain /\ y.read = done
  BY <1>1, <1>2 DEF Context, Cursor
<1> QED
  BY <1>1, <1>2, <1>4, <1>5 DEF Context, Cursor

LEMMA CameBehind ==
    ASSUME NEW x, Shaped(x), NEW chain, NEW y, y = WithChain(x, chain)
    PROVE  /\ Shaped(y) /\ y.rx = chain /\ y.read = x.read
           /\ y.cur = x.cur
<1>1. PICK live, refs, bound, rx, taken, offset, size, from, room, out, read :
          x = Context(live, refs, bound, rx, Cursor(taken, offset, size, from), room, out, read)
  BY DEF Shaped
<1>2. y = Context(live, refs, bound, chain, Cursor(taken, offset, size, from), room, out, read)
  BY <1>1 DEF Context, Cursor, WithChain
<1>3. Shaped(Context(live, refs, bound, chain, Cursor(taken, offset, size, from), room, out, read))
  BY OfFields, Zenon
<1>4. Shaped(y)
  BY <1>2, <1>3, Zenon
<1>5. y.rx = chain /\ y.read = x.read
  BY <1>1, <1>2 DEF Context, Cursor
<1> QED
  BY <1>1, <1>2, <1>4, <1>5 DEF Context, Cursor

LEMMA IsRead ==
    ASSUME NEW x, Shaped(x), NEW o, NEW done, NEW y, y = WithRead(x, o, done)
    PROVE  /\ Shaped(y) /\ y.rx = x.rx /\ y.read = done
           /\ y.cur.offset = o /\ y.cur.size = x.cur.size /\ y.cur.from = x.cur.from
<1>1. PICK live, refs, bound, rx, taken, offset, size, from, room, out, read :
          x = Context(live, refs, bound, rx, Cursor(taken, offset, size, from), room, out, read)
  BY DEF Shaped
<1>2. y = Context(live, refs, bound, rx, Cursor(taken, o, size, from), room, out, done)
  BY <1>1 DEF Context, Cursor, WithRead
<1>3. Shaped(Context(live, refs, bound, rx, Cursor(taken, o, size, from), room, out, done))
  BY OfFields, Zenon
<1>4. Shaped(y)
  BY <1>2, <1>3, Zenon
<1>5. y.rx = x.rx /\ y.read = done
  BY <1>1, <1>2 DEF Context, Cursor
<1> QED
  BY <1>1, <1>2, <1>4, <1>5 DEF Context, Cursor

(* What a context has read of the packet at the head of its chain.         *)
InOrder(x) ==
    /\ x.cur.from \in Nat \X Nat
    /\ WholePackets(x.rx, x.cur.from)
    /\ x.cur.size = x.cur.from[2]
    /\ x.cur.offset \in 0..x.cur.size
    /\ x.read = [k \in 1..x.cur.offset |-> <<x.cur.from, k>>]

Good(x) == Shaped(x) /\ (x.rx # <<>> => InOrder(x))

AllGood(xs) == xs = [c \in UdpContexts |-> xs[c]] /\ \A c \in UdpContexts : Good(xs[c])

UdpInv == arrived \in Nat /\ AllGood(udp)

LEMMA GoodGone == Good(Gone)
<1>1. Gone = Context(FALSE, 0, FALSE, <<>>, Cursor(FALSE, 0, 0, <<0, 0>>), 0, 0, <<>>)
  BY DEF Gone, NoPacket, Context, Cursor
<1>2. Shaped(Gone)
  BY <1>1 DEF Shaped
<1>3. Gone.rx = <<>>
  BY DEF Gone
<1> QED
  BY <1>2, <1>3 DEF Good

LEMMA GoodAlike == ASSUME NEW x, Good(x), NEW y, Alike(y, x) PROVE Good(y)
BY DEF Good, InOrder, Alike

LEMMA GoodCounted ==
    ASSUME NEW x, Good(x), NEW v, NEW w
    PROVE  /\ Good([x EXCEPT !.refs = v])
           /\ Good([x EXCEPT !.bound = v])
           /\ Good([x EXCEPT !.live = v, !.refs = w])
           /\ Good([x EXCEPT !.out = v])
           /\ Good([x EXCEPT !.room = v, !.out = w])
<1>1. Shaped(x)
  BY DEF Good
<1> QED
  BY <1>1, OtherFields, GoodAlike, Zenon

LEMMA GoodNew == ASSUME NEW bound PROVE Good([NewUdp EXCEPT !.bound = bound]) /\ Good(NewUdp)
<1>1. Good(NewUdp)
  BY GoodGone, GoodCounted, Zenon DEF NewUdp
<1> QED
  BY <1>1, GoodCounted, Zenon

(* The bytes after the first m up to the nth of the packet at the head     *)
(* continue those before them.                                             *)
LEMMA Continues ==
    ASSUME NEW x, InOrder(x), NEW n \in Nat, x.cur.offset <= n, n <= x.cur.size
    PROVE  x.read \o BytesOf(x.rx, x.cur.offset, n) = [k \in 1..n |-> <<x.cur.from, k>>]
<1>1. PICK p : p = x.cur.from
  OBVIOUS
<1>2. PICK m : m = x.cur.offset
  OBVIOUS
<1>3. m \in Nat /\ m <= n /\ n <= p[2] /\ p \in Nat \X Nat /\ p[2] \in Nat /\ WholePackets(x.rx, p)
      /\ x.read = [k \in 1..m |-> <<p, k>>]
  BY <1>1, <1>2 DEF InOrder
<1>4. PICK more : more = BytesOf(x.rx, m, n)
  OBVIOUS
<1>5. ASSUME NEW k \in 1..(n - m) PROVE ByteAt(x.rx, m + k) = <<p, m + k>>
  <2>1. m + k \in 1..p[2]
    BY <1>3
  <2> QED
    BY <1>3, <2>1, HeadByte
<1>6. more = [k \in 1..(n - m) |-> <<p, m + k>>]
  BY <1>4, <1>5 DEF BytesOf
<1> DEFINE Bytes == {<<p, k>> : k \in 1..n}
<1>7. x.read \in Seq(Bytes) /\ Len(x.read) = m
  <2>1. x.read \in [1..m -> Bytes]
    <3>1. \A k \in 1..m : k \in 1..n
      BY <1>3
    <3> QED
      BY <1>3, <3>1
  <2> HIDE DEF Bytes
  <2> QED
    BY <1>3, <2>1, IsASeq, LenProperties
<1>8. more \in Seq(Bytes) /\ Len(more) = n - m
  <2>1. more \in [1..(n - m) -> Bytes]
    <3>1. \A k \in 1..(n - m) : m + k \in 1..n
      BY <1>3
    <3> QED
      BY <1>6, <3>1
  <2>2. n - m \in Nat
    BY <1>3
  <2> HIDE DEF Bytes
  <2> QED
    BY <2>1, <2>2, IsASeq, LenProperties
<1> HIDE DEF Bytes
<1>9. PICK all : all = x.read \o more
  OBVIOUS
<1>10. /\ all \in Seq(Bytes) /\ Len(all) = Len(x.read) + Len(more)
       /\ \A i \in 1..(Len(x.read) + Len(more)) :
             all[i] = IF i <= Len(x.read) THEN x.read[i] ELSE more[i - Len(x.read)]
  BY <1>7, <1>8, <1>9, ConcatProperties, Zenon
<1>11. Len(all) = n
  BY <1>3, <1>7, <1>8, <1>10
<1>12. ASSUME NEW i \in 1..n PROVE all[i] = <<p, i>>
  <2>1. i \in 1..(Len(x.read) + Len(more))
    BY <1>3, <1>7, <1>8
  <2>2. CASE i <= m
    <3>1. i \in 1..m
      BY <1>3, <2>2
    <3> QED
      BY <1>3, <1>7, <1>10, <2>1, <2>2, <3>1
  <2>3. CASE ~ (i <= m)
    <3>1. i - m \in 1..(n - m) /\ m + (i - m) = i
      BY <1>3, <2>3
    <3>2. all[i] = more[i - m]
      BY <1>7, <1>10, <2>1, <2>3
    <3> QED
      BY <1>6, <3>1, <3>2
  <2> QED
    BY <2>2, <2>3
<1>13. all = [i \in 1..n |-> all[i]]
  BY <1>10, <1>11, LenProperties
<1>14. all = [i \in 1..n |-> <<p, i>>]
  BY <1>12, <1>13
<1> QED
  BY <1>1, <1>2, <1>4, <1>9, <1>14

LEMMA NothingRead == ASSUME NEW p PROVE <<>> = [k \in 1..0 |-> <<p, k>>]
<1>1. \A k : k \notin 1..0
  OBVIOUS
<1> QED
  BY <1>1

LEMMA GoodNext == ASSUME NEW x, Good(x) PROVE Good(NextPacket(x))
<1>1. Shaped(x)
  BY DEF Good
<1>2. CASE x.rx = <<>>
  BY <1>2 DEF NextPacket
<1>3. CASE x.rx # <<>> /\ ~x.cur.taken
  <2>1. PICK y : y = WithTaken(x, TRUE)
    OBVIOUS
  <2>2. NextPacket(x) = y
    BY <1>3, <2>1 DEF NextPacket, WithTaken
  <2>3. /\ Shaped(y) /\ y.rx = x.rx /\ y.read = x.read
        /\ y.cur.offset = x.cur.offset /\ y.cur.size = x.cur.size /\ y.cur.from = x.cur.from
    BY <1>1, <2>1, Taken, ZenonT(30)
  <2>4. InOrder(x)
    BY <1>3 DEF Good
  <2>5. InOrder(y)
    BY <2>3, <2>4 DEF InOrder
  <2> QED
    BY <2>2, <2>3, <2>5 DEF Good
<1>4. CASE x.rx # <<>> /\ x.cur.taken
  <2>1. PICK k : k = ToHelper(x.rx)
    OBVIOUS
  <2>2. PICK rest : rest = SubSeq(x.rx, k + 2, Len(x.rx))
    OBVIOUS
  <2>3. PICK from : from = IF k < Len(x.rx) THEN x.rx[k + 1].of ELSE x.cur.from
    OBVIOUS
  <2>4. PICK size : size = ProcessSize(rest)
    OBVIOUS
  <2>5. PICK y : y = [x EXCEPT !.rx = rest, !.read = <<>>,
                               !.cur = [@ EXCEPT !.offset = 0, !.size = size, !.from = from]]
    OBVIOUS
  <2>6. NextPacket(x) = y
    BY <1>4, <2>1, <2>2, <2>3, <2>4, <2>5, Zenon DEF NextPacket
  <2>7. PICK nothing : nothing = <<>>
    OBVIOUS
  <2>8. PICK zero : zero = 0
    OBVIOUS
  <2>9. y = WithNext(x, rest, nothing, zero, size, from)
    BY <2>5, <2>7, <2>8 DEF WithNext
  <2>10. /\ Shaped(y) /\ y.rx = rest /\ y.read = nothing
         /\ y.cur.offset = zero /\ y.cur.size = size /\ y.cur.from = from
    BY <1>1, <2>9, IsNext
  <2>11. WholePackets(x.rx, x.cur.from) /\ x.cur.from \in Nat \X Nat
    BY <1>4 DEF Good, InOrder
  <2>12. x.rx \in Seq(Buffer) /\ Len(x.rx) \in Nat
    BY <2>11, LenProperties DEF WholePackets
  <2>13. k \in 0..Len(x.rx) /\ (k < Len(x.rx) => x.rx[k + 1].helper)
    BY <2>1, <2>12, NextHelper
  <2>14. CASE k < Len(x.rx)
    <3>1. from \in Nat \X Nat /\ WholePackets(rest, from)
      BY <2>2, <2>3, <2>11, <2>13, <2>14, BehindHelper
    <3>2. size = from[2]
      BY <2>4, <3>1, FirstPacket
    <3>3. from[2] \in Nat
      BY <3>1
    <3>4. y.read = [j \in 1..y.cur.offset |-> <<y.cur.from, j>>]
      BY <2>7, <2>8, <2>10, NothingRead
    <3>5. y.cur.offset \in 0..y.cur.size
      BY <2>8, <2>10, <3>2, <3>3
    <3>6. InOrder(y)
      BY <2>10, <3>1, <3>2, <3>4, <3>5 DEF InOrder
    <3> QED
      BY <2>6, <2>10, <3>6 DEF Good
  <2>15. CASE ~ (k < Len(x.rx))
    <3>1. k + 2 > Len(x.rx) /\ k + 2 \in Int /\ Len(x.rx) \in Int
      BY <2>12, <2>13, <2>15
    <3>2. rest = <<>>
      BY <2>2, <2>12, <3>1
    <3> QED
      BY <2>6, <2>10, <3>2 DEF Good
  <2> QED
    BY <2>14, <2>15
<1> QED
  BY <1>2, <1>3, <1>4

(* A packet that arrives: to an empty chain, or behind what is there.      *)
LEMMA GoodFirst ==
    ASSUME NEW x, Shaped(x), NEW shape, shape \in Seq(Nat), shape # <<>>, NEW id \in Nat,
           NEW y,
           y = WithPacket(x, Packet(<<id, TotalLength(shape)>>, shape), <<>>, 0,
                          TotalLength(shape), <<id, TotalLength(shape)>>)
    PROVE  Good(y)
<1>1. PICK size : size = TotalLength(shape)
  OBVIOUS
<1>2. PICK p : p = <<id, size>>
  OBVIOUS
<1>3. PICK chain : chain = Packet(p, shape)
  OBVIOUS
<1>4. PICK nothing : nothing = <<>>
  OBVIOUS
<1>5. PICK zero : zero = 0
  OBVIOUS
<1>7. y = WithPacket(x, chain, nothing, zero, size, p)
  BY <1>1, <1>2, <1>3, <1>4, <1>5
<1>8. /\ Shaped(y) /\ y.rx = chain /\ y.read = nothing
      /\ y.cur.offset = zero /\ y.cur.size = size /\ y.cur.from = p
  BY <1>7, CameFirst
<1>9. p \in Nat \X Nat /\ p[2] = size /\ size \in Nat /\ WholePackets(chain, p)
  BY <1>1, <1>2, <1>3, Datagram
<1>10. y.read = [j \in 1..y.cur.offset |-> <<y.cur.from, j>>]
  BY <1>4, <1>5, <1>8, NothingRead
<1>11. y.cur.offset \in 0..y.cur.size
  BY <1>5, <1>8, <1>9
<1>12. InOrder(y)
  BY <1>8, <1>9, <1>10, <1>11 DEF InOrder
<1> QED
  BY <1>8, <1>12 DEF Good

LEMMA GoodBehind ==
    ASSUME NEW x, Good(x), x.rx # <<>>, NEW shape, shape \in Seq(Nat), shape # <<>>, NEW id \in Nat,
           NEW y,
           y = WithChain(x, x.rx \o <<Helper(<<id, TotalLength(shape)>>)>>
                                \o Packet(<<id, TotalLength(shape)>>, shape))
    PROVE  Good(y)
<1>1. PICK p : p = <<id, TotalLength(shape)>>
  OBVIOUS
<1>2. PICK chain : chain = x.rx \o <<Helper(p)>> \o Packet(p, shape)
  OBVIOUS
<1>3. y = WithChain(x, chain)
  BY <1>1, <1>2
<1>4. Shaped(x) /\ InOrder(x)
  BY DEF Good
<1>5. Shaped(y) /\ y.rx = chain /\ y.read = x.read /\ y.cur = x.cur
  BY <1>3, <1>4, CameBehind
<1>6. p \in Nat \X Nat /\ WholePackets(Packet(p, shape), p)
  BY <1>1, Datagram
<1>7. WholePackets(x.rx, x.cur.from)
  BY <1>4 DEF InOrder
<1>8. WholePackets(chain, x.cur.from)
  BY <1>2, <1>6, <1>7, Chained
<1>9. InOrder(y)
  BY <1>4, <1>5, <1>8 DEF InOrder
<1> QED
  BY <1>5, <1>9 DEF Good

(* read takes the next n bytes.                                            *)
LEMMA GoodRead ==
    ASSUME NEW x, Good(x), x.rx # <<>>, NEW n \in Nat, n <= x.cur.size - x.cur.offset,
           NEW y,
           y = WithRead(x, x.cur.offset + n,
                        x.read \o BytesOf(x.rx, x.cur.offset, x.cur.offset + n))
    PROVE  Good(y)
<1>1. Shaped(x) /\ InOrder(x)
  BY DEF Good
<1>2. x.cur.offset \in Nat /\ x.cur.size \in Nat
  BY <1>1 DEF InOrder
<1>3. PICK m : m = x.cur.offset + n
  OBVIOUS
<1>4. PICK done : done = x.read \o BytesOf(x.rx, x.cur.offset, m)
  OBVIOUS
<1>5. y = WithRead(x, m, done)
  BY <1>3, <1>4
<1>6. /\ Shaped(y) /\ y.rx = x.rx /\ y.read = done
      /\ y.cur.offset = m /\ y.cur.size = x.cur.size /\ y.cur.from = x.cur.from
  BY <1>1, <1>5, IsRead
<1>7. m \in Nat /\ x.cur.offset <= m /\ m <= x.cur.size
  BY <1>2, <1>3
<1>8. done = [k \in 1..m |-> <<x.cur.from, k>>]
  BY <1>1, <1>4, <1>7, Continues
<1>9. /\ x.cur.from \in Nat \X Nat /\ WholePackets(x.rx, x.cur.from)
      /\ x.cur.size = x.cur.from[2]
  BY <1>1 DEF InOrder
<1>10. m \in 0..x.cur.size
  BY <1>2, <1>7
<1>11. InOrder(y)
  BY <1>6, <1>8, <1>9, <1>10 DEF InOrder
<1> QED
  BY <1>6, <1>11 DEF Good

-----------------------------------------------------------------------------
(* All the contexts, when one of them changes.                             *)
LEMMA OneChanges ==
    ASSUME NEW xs, AllGood(xs), NEW d, NEW y, d \in UdpContexts => Good(y),
           NEW zs, zs = [c \in UdpContexts |-> IF c = d THEN y ELSE xs[c]]
    PROVE  AllGood(zs)
<1>1. \A c \in UdpContexts : zs[c] = IF c = d THEN y ELSE xs[c]
  OBVIOUS
<1>2. \A c \in UdpContexts : Good(zs[c])
  BY <1>1 DEF AllGood
<1>3. zs = [c \in UdpContexts |-> zs[c]]
  OBVIOUS
<1> QED
  BY <1>2, <1>3 DEF AllGood

LEMMA UnrefKeeps == ASSUME NEW xs, AllGood(xs), NEW d PROVE AllGood(UnrefUdp(xs, d))
<1>1. CASE d = NoSocket
  BY <1>1 DEF UnrefUdp
<1>2. CASE d # NoSocket /\ xs[d].refs = 1
  <2>1. UnrefUdp(xs, d) = [c \in UdpContexts |-> IF c = d THEN Gone ELSE xs[c]]
    BY <1>2 DEF UnrefUdp, AllGood
  <2> QED
    BY <2>1, GoodGone, OneChanges
<1>3. CASE d # NoSocket /\ xs[d].refs # 1
  <2>1. PICK y : y = [xs[d] EXCEPT !.refs = @ - 1]
    OBVIOUS
  <2>2. UnrefUdp(xs, d) = [c \in UdpContexts |-> IF c = d THEN y ELSE xs[c]]
    BY <1>3, <2>1 DEF UnrefUdp, AllGood
  <2>3. d \in UdpContexts => Good(y)
    BY <2>1, GoodCounted DEF AllGood
  <2> QED
    BY <2>2, <2>3, OneChanges
<1> QED
  BY <1>1, <1>2, <1>3

LEMMA RefKeeps == ASSUME NEW xs, AllGood(xs), NEW d PROVE AllGood(RefUdp(xs, d))
<1>1. CASE d = NoSocket
  BY <1>1 DEF RefUdp
<1>2. CASE d # NoSocket
  <2>1. PICK y : y = [xs[d] EXCEPT !.refs = @ + 1]
    OBVIOUS
  <2>2. RefUdp(xs, d) = [c \in UdpContexts |-> IF c = d THEN y ELSE xs[c]]
    BY <1>2, <2>1 DEF RefUdp, AllGood
  <2>3. d \in UdpContexts => Good(y)
    BY <2>1, GoodCounted DEF AllGood
  <2> QED
    BY <2>2, <2>3, OneChanges
<1> QED
  BY <1>1, <1>2

LEMMA UnrefByKeeps == ASSUME UdpInv, NEW objects PROVE AllGood(UnrefBy(objects))
<1>1. PICK zs : zs = UnrefBy(objects)
  OBVIOUS
<1>2. zs = [c \in UdpContexts |-> zs[c]]
  BY <1>1 DEF UnrefBy
<1>3. ASSUME NEW c \in UdpContexts PROVE Good(zs[c])
  <2>1. PICK given : given = Cardinality({u \in objects : socket[u] = c})
    OBVIOUS
  <2>2. zs[c] = Gone \/ zs[c] = [udp[c] EXCEPT !.refs = @ - given]
    BY <1>1, <2>1 DEF UnrefBy
  <2>3. Good([udp[c] EXCEPT !.refs = @ - given])
    BY GoodCounted DEF UdpInv, AllGood
  <2> QED
    BY <2>2, <2>3, GoodGone
<1> QED
  BY <1>1, <1>2, <1>3 DEF AllGood

-----------------------------------------------------------------------------
(* The operations, one by one.                                             *)
LEMMA UdpStart == UdpInit => UdpInv
BY GoodGone DEF UdpInit, UdpInv, AllGood

LEMMA BeginKeeps == ASSUME UdpInv, NEW u, UdpBegin(u) PROVE UdpInv'
<1>1. PICK left : left = UnrefUdp(udp, socket[u])
  OBVIOUS
<1>2. AllGood(left)
  BY <1>1, UnrefKeeps DEF UdpInv
<1>3. PICK d : d = FreeIn(left)
  OBVIOUS
<1>4. PICK bound : udp' = [left EXCEPT ![d] = [NewUdp EXCEPT !.bound = bound]]
  BY <1>1, <1>3 DEF UdpBegin
<1>5. PICK y : y = [NewUdp EXCEPT !.bound = bound]
  OBVIOUS
<1>6. udp' = [c \in UdpContexts |-> IF c = d THEN y ELSE left[c]]
  BY <1>2, <1>4, <1>5 DEF AllGood
<1>7. AllGood(udp')
  BY <1>2, <1>5, <1>6, GoodNew, OneChanges, ZenonT(30)
<1> QED
  BY <1>7 DEF UdpInv, UdpBegin, AllGood

LEMMA StopKeeps == ASSUME UdpInv, NEW u, UdpJoinFails(u) PROVE UdpInv'
<1>1. udp' = UnrefUdp(udp, socket[u]) /\ arrived' = arrived
  BY DEF UdpJoinFails
<1>2. AllGood(udp')
  BY <1>1, UnrefKeeps DEF UdpInv
<1> QED
  BY <1>1, <1>2 DEF UdpInv, AllGood

LEMMA AssignKeeps == ASSUME UdpInv, NEW u, NEW v, UdpAssign(u, v) PROVE UdpInv'
<1>1. udp' = RefUdp(udp, socket[v]) /\ arrived' = arrived
  BY DEF UdpAssign
<1>2. AllGood(udp')
  BY <1>1, RefKeeps DEF UdpInv
<1> QED
  BY <1>1, <1>2 DEF UdpInv, AllGood

LEMMA StopAllKeeps ==
    ASSUME UdpInv, UdpStopAll \/ \E v \in Sockets : UdpStopAllExcept(v) PROVE UdpInv'
<1>1. PICK objects : udp' = UnrefBy(objects)
  BY DEF UdpStopAll, UdpStopAllExcept
<1>2. arrived' = arrived
  BY DEF UdpStopAll, UdpStopAllExcept
<1>3. AllGood(udp')
  BY <1>1, UnrefByKeeps
<1> QED
  BY <1>2, <1>3 DEF UdpInv, AllGood

LEMMA ParseKeeps == ASSUME UdpInv, NEW u, UdpParse(u) PROVE UdpInv'
<1>1. PICK d : d = socket[u]
  OBVIOUS
<1>2. PICK y : y = NextPacket(udp[d])
  OBVIOUS
<1>3. AllGood(udp) /\ arrived' = arrived /\ arrived \in Nat
  BY DEF UdpInv, UdpParse
<1>4. udp' = [c \in UdpContexts |-> IF c = d THEN y ELSE udp[c]]
  BY <1>1, <1>2, <1>3 DEF UdpParse, AllGood
<1>5. d \in UdpContexts => Good(y)
  BY <1>2, <1>3, GoodNext DEF AllGood
<1>6. AllGood(udp')
  BY <1>3, <1>4, <1>5, OneChanges
<1> QED
  BY <1>3, <1>6 DEF UdpInv, AllGood

LEMMA ReadGoesOn == ASSUME UdpInv, NEW u, NEW size \in 1..2, UdpRead(u, size) PROVE UdpInv'
<1>1. PICK d : d = socket[u]
  OBVIOUS
<1>2. PICK x : x = udp[d]
  OBVIOUS
<1>3. PICK n : n = IF size < UdpSize(d) THEN size ELSE UdpSize(d)
  OBVIOUS
<1>4. PICK more : more = x.read \o BytesOf(x.rx, x.cur.offset, x.cur.offset + n)
  OBVIOUS
<1>5. PICK y : y = WithRead(x, x.cur.offset + n, more)
  OBVIOUS
<1>6. AllGood(udp) /\ arrived' = arrived /\ arrived \in Nat
  BY DEF UdpInv, UdpRead
<1>7. udp' = [c \in UdpContexts |-> IF c = d THEN y ELSE udp[c]]
  <2>1. udp' = [udp EXCEPT ![d].cur.offset = @ + n,
                           ![d].read = @ \o BytesOf(x.rx, x.cur.offset, x.cur.offset + n)]
    BY <1>1, <1>2, <1>3 DEF UdpRead
  <2> QED
    BY <1>2, <1>4, <1>5, <1>6, <2>1 DEF AllGood, WithRead
<1>8. ASSUME d \in UdpContexts PROVE Good(y)
  <2>1. Good(x)
    BY <1>2, <1>6, <1>8 DEF AllGood
  <2>2. x.rx # <<>> /\ n > 0
    BY <1>1, <1>2, <1>3 DEF UdpRead
  <2>3. InOrder(x)
    BY <2>1, <2>2 DEF Good
  <2>4. x.cur.offset \in Nat /\ x.cur.size \in Nat
    BY <2>3 DEF InOrder
  <2>5. UdpSize(d) = x.cur.size - x.cur.offset
    BY <1>2, <2>2 DEF UdpSize
  <2>6. n \in Nat /\ n <= x.cur.size - x.cur.offset
    BY <1>3, <2>2, <2>4, <2>5
  <2> QED
    BY <1>4, <1>5, <2>1, <2>2, <2>6, GoodRead
<1>9. AllGood(udp')
  BY <1>6, <1>7, <1>8, OneChanges
<1> QED
  BY <1>6, <1>9 DEF UdpInv, AllGood

LEMMA SendKeeps ==
    ASSUME UdpInv, NEW u, BeginPacket(u) \/ UdpWrite(u) \/ EndPacket(u) PROVE UdpInv'
<1>1. AllGood(udp) /\ arrived' = arrived /\ arrived \in Nat
  BY DEF UdpInv, BeginPacket, UdpWrite, EndPacket
<1>2. CASE BeginPacket(u)
  <2>1. PICK d : d = FreeIn(udp)
    OBVIOUS
  <2>2. udp' = [c \in UdpContexts |-> IF c = d THEN NewUdp ELSE udp[c]]
    BY <1>1, <1>2, <2>1 DEF BeginPacket, AllGood
  <2>3. AllGood(udp')
    BY <1>1, <2>2, GoodNew, OneChanges
  <2> QED
    BY <1>1, <2>3 DEF UdpInv, AllGood
<1>3. CASE UdpWrite(u) \/ EndPacket(u)
  <2>1. PICK d : d = socket[u]
    OBVIOUS
  <2>2. PICK wanted : wanted = udp[d].out + 1
    OBVIOUS
  <2>3. PICK room : room = udp[d].room + Unit
    OBVIOUS
  <2>4. \/ UNCHANGED udp
        \/ udp' = [udp EXCEPT ![d].out = wanted]
        \/ udp' = [udp EXCEPT ![d].room = @ + Unit, ![d].out = wanted]
        \/ udp' = [udp EXCEPT ![d].room = 0, ![d].out = 0]
    BY <1>3, <2>1, <2>2 DEF UdpWrite, EndPacket
  <2>5. CASE UNCHANGED udp
    BY <1>1, <2>5 DEF UdpInv, AllGood
  <2>6. ASSUME NEW y, udp' = [c \in UdpContexts |-> IF c = d THEN y ELSE udp[c]],
               d \in UdpContexts => Good(y)
        PROVE  UdpInv'
    <3>1. AllGood(udp')
      BY <1>1, <2>6, OneChanges
    <3> QED
      BY <1>1, <3>1 DEF UdpInv, AllGood
  <2>7. d \in UdpContexts => Good(udp[d])
    BY <1>1 DEF AllGood
  <2>8. CASE udp' = [udp EXCEPT ![d].out = wanted]
    <3>1. PICK y : y = [udp[d] EXCEPT !.out = wanted]
      OBVIOUS
    <3>2. udp' = [c \in UdpContexts |-> IF c = d THEN y ELSE udp[c]]
      BY <1>1, <2>8, <3>1 DEF AllGood
    <3>3. d \in UdpContexts => Good(y)
      BY <2>7, <3>1, GoodCounted
    <3> QED
      BY <2>6, <3>2, <3>3
  <2>9. CASE udp' = [udp EXCEPT ![d].room = @ + Unit, ![d].out = wanted]
    <3>1. PICK y : y = [udp[d] EXCEPT !.room = room, !.out = wanted]
      OBVIOUS
    <3>2. udp' = [c \in UdpContexts |-> IF c = d THEN y ELSE udp[c]]
      BY <1>1, <2>3, <2>9, <3>1 DEF AllGood
    <3>3. d \in UdpContexts => Good(y)
      BY <2>7, <3>1, GoodCounted
    <3> QED
      BY <2>6, <3>2, <3>3
  <2>10. CASE udp' = [udp EXCEPT ![d].room = 0, ![d].out = 0]
    <3>1. PICK y : y = [udp[d] EXCEPT !.room = 0, !.out = 0]
      OBVIOUS
    <3>2. udp' = [c \in UdpContexts |-> IF c = d THEN y ELSE udp[c]]
      BY <1>1, <2>10, <3>1 DEF AllGood
    <3>3. d \in UdpContexts => Good(y)
      BY <2>7, <3>1, GoodCounted
    <3> QED
      BY <2>6, <3>2, <3>3
  <2> QED
    BY <2>4, <2>5, <2>8, <2>9, <2>10
<1> QED
  BY <1>2, <1>3

LEMMA PacketKeeps ==
    ASSUME UdpInv, NEW d \in UdpContexts, NEW shape \in Shapes, OnPacket(d, shape) PROVE UdpInv'
<1>1. shape \in Seq(Nat) /\ shape # <<>>
  BY UdpAssumption
<1>2. PICK size : size = TotalLength(shape)
  OBVIOUS
<1>3. PICK p : p = <<arrived + 1, size>>
  OBVIOUS
<1>4. PICK x : x = udp[d]
  OBVIOUS
<1>5. AllGood(udp) /\ arrived \in Nat /\ arrived' = arrived + 1
  BY DEF UdpInv, OnPacket
<1>6. arrived + 1 \in Nat
  BY <1>5
<1>7. Good(x) /\ Shaped(x)
  BY <1>4, <1>5 DEF AllGood, Good
<1>8. PICK first : first = WithPacket(x, Packet(p, shape), <<>>, 0, size, p)
  OBVIOUS
<1>9. PICK behind : behind = WithChain(x, x.rx \o <<Helper(p)>> \o Packet(p, shape))
  OBVIOUS
<1>10. PICK y : y = IF x.rx = <<>> THEN first ELSE IF Len(x.rx) >= MaxDepth * 2 THEN x ELSE behind
  OBVIOUS
<1>11. udp' = [udp EXCEPT ![d] = y]
  BY <1>2, <1>3, <1>4, <1>8, <1>9, <1>10 DEF OnPacket, WithPacket, WithChain
<1>12. udp' = [c \in UdpContexts |-> IF c = d THEN y ELSE udp[c]]
  BY <1>5, <1>11 DEF AllGood
<1>13. Good(first)
  BY <1>1, <1>2, <1>3, <1>6, <1>7, <1>8, GoodFirst
<1>14. x.rx # <<>> => Good(behind)
  BY <1>1, <1>2, <1>3, <1>6, <1>7, <1>9, GoodBehind
<1>15. Good(y)
  BY <1>7, <1>10, <1>13, <1>14
<1>16. AllGood(udp')
  BY <1>5, <1>12, <1>15, OneChanges
<1> QED
  BY <1>5, <1>6, <1>16 DEF UdpInv, AllGood

LEMMA UdpStep == UdpInv /\ [UdpNext]_udpVars => UdpInv'
<1> SUFFICES ASSUME UdpInv, [UdpNext]_udpVars PROVE UdpInv'
  OBVIOUS
<1>1. CASE UNCHANGED udpVars
  BY <1>1 DEF udpVars, UdpInv, AllGood
<1>2. CASE \E c \in UdpContexts : NoHelper(c)
  <2>1. UNCHANGED udp /\ arrived' = arrived + 1
    BY <1>2 DEF NoHelper
  <2> QED
    BY <2>1 DEF UdpInv, AllGood
<1>3. CASE \E c \in UdpContexts, shape \in Shapes : OnPacket(c, shape)
  BY <1>3, PacketKeeps
<1>4. CASE UdpStopAll \/ \E v \in Sockets : UdpStopAllExcept(v)
  BY <1>4, StopAllKeeps
<1>5. ASSUME NEW u \in Sockets,
             \/ UdpBegin(u) \/ UdpJoinFails(u) \/ UdpParse(u) \/ BeginPacket(u)
             \/ UdpWrite(u) \/ EndPacket(u) \/ UdpStop(u)
             \/ \E size \in 1..2 : UdpRead(u, size)
             \/ \E v \in Sockets : UdpAssign(u, v)
      PROVE  UdpInv'
  BY <1>5, BeginKeeps, StopKeeps, ParseKeeps, SendKeeps, ReadGoesOn, AssignKeeps DEF UdpStop
<1> QED
  BY <1>1, <1>2, <1>3, <1>4, <1>5 DEF UdpNext

(* Packets stay apart: the bytes read and still to be read of the packet   *)
(* at the head of the chain are those of the one packet whose sender       *)
(* remoteIP reports, however many buffers it came in and whatever arrived  *)
(* behind it (UdpContext::_recv, next, read).                              *)
THEOREM PacketsApartHolds == UdpSpec => []PacketsApart
<1>1. UdpInv => PacketsApart
  <2> SUFFICES ASSUME UdpInv, NEW c \in UdpContexts, udp[c].rx # <<>>
               PROVE  udp[c].read \o BytesOf(udp[c].rx, udp[c].cur.offset, udp[c].cur.size)
                          = [k \in 1..udp[c].cur.from[2] |-> <<udp[c].cur.from, k>>]
    BY DEF PacketsApart
  <2>1. PICK x : x = udp[c]
    OBVIOUS
  <2>2. InOrder(x)
    BY <2>1 DEF UdpInv, AllGood, Good
  <2>3. /\ x.cur.size \in Nat /\ x.cur.offset <= x.cur.size /\ x.cur.size <= x.cur.size
        /\ x.cur.size = x.cur.from[2]
    BY <2>2 DEF InOrder
  <2>4. x.read \o BytesOf(x.rx, x.cur.offset, x.cur.size) = [k \in 1..x.cur.size |-> <<x.cur.from, k>>]
    BY <2>2, <2>3, Continues
  <2> QED
    BY <2>1, <2>3, <2>4
<1> QED
  BY <1>1, UdpStart, UdpStep, PTL DEF UdpSpec
=============================================================================
