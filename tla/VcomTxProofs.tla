---------------------------- MODULE VcomTxProofs -----------------------------
(***************************************************************************)
(* The vcom thread cannot miss its wakeup, and what it sends arrives whole *)
(* and in order, for any number of writers, any sizes and any sequence of  *)
(* resets, configurations and line states.                                 *)
(***************************************************************************)
EXTENDS VcomTx, ListLemmas

\* While the thread sleeps the event is not set (it would have been consumed), and a
\* put that disturbs its unlocked look at a full ring has a wakeup due.
SleepInv == tpc = "evtwait" => ~event
TornInv  == tpc = "testing" /\ put > seen => WakeupDue

IInv == TypeOK /\ NoLostWakeup /\ SleepInv /\ TornInv

-----------------------------------------------------------------------------
\* Putting a byte into the ring, forced or not, leaves a ring of at most RingSize bytes.
LEMMA PutCharForceType ==
    ASSUME TypeOK, PutCharForce, put < MaxBytes
    PROVE  /\ put' \in 0..MaxBytes
           /\ ring' \in Seq(1..MaxBytes) /\ Len(ring') <= RingSize
           /\ hist' \subseteq {"overflow", "disconnected", "timeout", "restart", "overrun"}
<1>1. /\ put' \in 0..MaxBytes /\ put + 1 \in 1..MaxBytes
  BY SizesAssumption DEF TypeOK, PutCharForce
<1>2. CASE Len(ring) = RingSize
  <2>1. ring # <<>>  BY <1>2, SizesAssumption
  <2>2. Tail(ring) \in Seq(1..MaxBytes) /\ Len(Tail(ring)) = Len(ring) - 1
    BY <2>1 DEF TypeOK
  <2>3. ring' = Append(Tail(ring), put + 1)  BY <1>2 DEF PutCharForce
  <2>4. Len(ring') = Len(ring) - 1 + 1 /\ ring' \in Seq(1..MaxBytes)
    BY <1>1, <2>2, <2>3
  <2> QED  BY <1>1, <1>2, <2>4, SizesAssumption DEF TypeOK, PutCharForce
<1>3. CASE Len(ring) # RingSize
  <2>1. ring' = Append(ring, put + 1)  BY <1>3 DEF PutCharForce
  <2>2. ring' \in Seq(1..MaxBytes) /\ Len(ring') = Len(ring) + 1
    BY <1>1, <2>1 DEF TypeOK
  <2>3. Len(ring) \in Nat  BY DEF TypeOK
  <2> QED  BY <1>1, <1>3, <2>2, <2>3, SizesAssumption DEF TypeOK, PutCharForce
<1> QED  BY <1>2, <1>3

\* The message queue holds at most MqMax messages, whatever is signalled.
LEMMA SignalType ==
    ASSUME TypeOK, NEW m \in Message, Signal(m)
    PROVE  mq' \in Seq(Message) /\ Len(mq') <= MqMax
<1>1. CASE Len(mq) < MqMax
  <2>1. mq' = Append(mq, m)  BY <1>1 DEF Signal
  <2>2. mq' \in Seq(Message) /\ Len(mq') = Len(mq) + 1  BY <2>1 DEF TypeOK
  <2>3. Len(mq) \in Nat  BY DEF TypeOK
  <2> QED  BY <1>1, <2>2, <2>3, SizesAssumption
<1>2. CASE ~ (Len(mq) < MqMax)
  BY <1>2 DEF Signal, TypeOK
<1> QED  BY <1>1, <1>2

\* Sending the next packet keeps the request within its type.
LEMMA WritePacketType ==
    ASSUME TypeOK, NEW r \in [off : Nat, size : 0..BulkMax, remain : 0..BulkMax],
           WritePacket(r)
    PROVE  /\ req' \in [off : Nat, size : 0..BulkMax, remain : 0..BulkMax]
           /\ hist' \subseteq {"overflow", "disconnected", "timeout", "restart", "overrun"}
<1> DEFINE len == IF r.remain >= MaxPacket THEN MaxPacket ELSE r.remain
<1>1. len \in 0..r.remain /\ r.remain \in 0..BulkMax /\ r.off \in Nat
  BY SizesAssumption
<1>2. /\ req' = [r EXCEPT !.remain = r.remain - len,
                          !.off = IF len = MaxPacket THEN r.off + len ELSE r.off]
      /\ hist' = IF r.off + len > BulkMax THEN hist \cup {"overrun"} ELSE hist
  BY DEF WritePacket
<1> HIDE DEF len
<1>3. r.remain - len \in 0..BulkMax  BY <1>1, SizesAssumption
<1>4. (IF len = MaxPacket THEN r.off + len ELSE r.off) \in Nat  BY <1>1, SizesAssumption
<1>5. req' \in [off : Nat, size : 0..BulkMax, remain : 0..BulkMax]
  BY <1>2, <1>3, <1>4
<1>6. hist' \subseteq {"overflow", "disconnected", "timeout", "restart", "overrun"}
  BY <1>2 DEF TypeOK
<1> QED  BY <1>5, <1>6

\* Taking bytes from the ring leaves a suffix of it and fills ch with its head.
LEMMA TakeBytesType ==
    ASSUME TypeOK, TakeBytes
    PROVE  /\ ring' \in Seq(1..MaxBytes) /\ Len(ring') <= RingSize
           /\ ch' \in [1..BulkMax -> 0..MaxBytes] /\ res' \in 0..BulkMax
           /\ tpc' \in {"test", "check"}
<1> DEFINE n == IF Len(ring) < BulkMax THEN Len(ring) ELSE BulkMax
<1>1. n \in 0..Len(ring) /\ n \in 0..BulkMax /\ Len(ring) \in Nat
  BY SizesAssumption DEF TypeOK
<1>2. /\ res' = n /\ ring' = SubSeq(ring, n + 1, Len(ring)) /\ tpc' \in {"test", "check"}
      /\ ch' = [k \in 1..BulkMax |-> IF k <= n THEN ring[k] ELSE ch[k]]
  BY DEF TakeBytes
<1> HIDE DEF n
<1>3. ring' \in Seq(1..MaxBytes) /\ Len(ring') = Len(ring) - n
  <2>1. n + 1 \in 1..Len(ring) + 1 /\ n \in Int  BY <1>1
  <2>2. \A k \in 1..Len(ring) : ring[k] \in 1..MaxBytes  BY ElementOfSeq DEF TypeOK
  <2>3. SubSeq(ring, n + 1, Len(ring)) \in Seq(1..MaxBytes)
    BY <1>1, <2>1, <2>2, SubSeqProperties DEF TypeOK
  <2>4. Len(SubSeq(ring, n + 1, Len(ring))) = Len(ring) - n
    BY <1>1, <2>1, SubSeqProperties DEF TypeOK
  <2> QED  BY <1>2, <2>3, <2>4
<1>4. ch' \in [1..BulkMax -> 0..MaxBytes]
  <2>1. \A k \in 1..n : ring[k] \in 0..MaxBytes
    <3>1. \A k \in 1..Len(ring) : ring[k] \in 1..MaxBytes  BY ElementOfSeq DEF TypeOK
    <3> QED  BY <1>1, <3>1, SizesAssumption
  <2>2. \A k \in 1..BulkMax : (IF k <= n THEN ring[k] ELSE ch[k]) \in 0..MaxBytes
    BY <1>1, <2>1, SizesAssumption DEF TypeOK
  <2> QED  BY <1>2, <2>2
<1>5. Len(ring') <= RingSize  BY <1>1, <1>3, SizesAssumption DEF TypeOK
<1> QED  BY <1>1, <1>2, <1>3, <1>4, <1>5

-----------------------------------------------------------------------------
\* Initially nothing is put and the thread is about to look.
LEMMA InitIInv == Init => IInv
<1> SUFFICES ASSUME Init PROVE IInv
  OBVIOUS
<1>1. TypeOK
  <2>1. ring \in Seq(1..MaxBytes) /\ Len(ring) <= RingSize  BY SizesAssumption DEF Init
  <2>2. mq \in Seq(Message) /\ Len(mq) <= MqMax  BY SizesAssumption DEF Init
  <2>3. req \in [off : Nat, size : 0..BulkMax, remain : 0..BulkMax]
    BY SizesAssumption DEF Init, Null
  <2>4. ch \in [1..BulkMax -> 0..MaxBytes] /\ res \in 0..BulkMax
    BY SizesAssumption DEF Init
  <2>5. put \in 0..MaxBytes /\ control \in 0..MaxControl /\ seen \in 0..MaxBytes
    BY SizesAssumption DEF Init
  <2> QED  BY <2>1, <2>2, <2>3, <2>4, <2>5 DEF Init, TypeOK, TxPlaces
<1>2. NoLostWakeup /\ SleepInv /\ TornInv
  BY DEF Init, NoLostWakeup, SleepInv, TornInv
<1> QED  BY <1>1, <1>2 DEF IInv

\* Every step keeps the type invariant.
LEMMA NextType == TypeOK /\ [Next]_vars => TypeOK'
<1> SUFFICES ASSUME TypeOK, [Next]_vars PROVE TypeOK'
  OBVIOUS
<1> USE DEF txVars, usbVars, hostVars, writerVars
<1>1. ASSUME NEW w \in Writers, NEW newline \in BOOLEAN, Putc(w, newline) PROVE TypeOK'
  BY <1>1 DEF Putc, TypeOK, TxPlaces
<1>2. ASSUME NEW w \in Writers, PutByte(w) PROVE TypeOK'
  <2>1. /\ put' \in 0..MaxBytes /\ ring' \in Seq(1..MaxBytes) /\ Len(ring') <= RingSize
        /\ hist' \subseteq {"overflow", "disconnected", "timeout", "restart", "overrun"}
    BY <1>2, PutCharForceType DEF PutByte
  <2>2. wpc' \in [Writers -> {"idle", "cr", "crsend", "put", "send"}]
    BY <1>2 DEF PutByte, TypeOK
  <2> QED  BY <1>2, <2>1, <2>2 DEF PutByte, TypeOK
<1>3. ASSUME NEW w \in Writers, SendEvent(w) PROVE TypeOK'
  <2>1. wpc' \in [Writers -> {"idle", "cr", "crsend", "put", "send"}]
    BY <1>3 DEF SendEvent, TypeOK
  <2>2. event' \in BOOLEAN /\ tpc' \in TxPlaces
    BY <1>3 DEF SendEvent, EventSend, TypeOK, TxPlaces
  <2> QED  BY <1>3, <2>1, <2>2 DEF SendEvent, TypeOK
<1>4. CASE EventRecv  BY <1>4 DEF EventRecv, TypeOK, TxPlaces
<1>5. CASE TestRing  BY <1>5 DEF TestRing, TypeOK, TxPlaces
<1>6. CASE BeginTestFull  BY <1>6 DEF BeginTestFull, TypeOK, TxPlaces
<1>7. CASE EndTestFull  BY <1>7 DEF EndTestFull, TypeOK, TxPlaces
<1>8. CASE TakeBytes
  <2>1. tpc' \in TxPlaces  BY <1>8, TakeBytesType DEF TxPlaces
  <2> QED  BY <1>8, <2>1, TakeBytesType DEF TakeBytes, TypeOK
<1>9. CASE CheckConnected  BY <1>9 DEF CheckConnected, TypeOK, TxPlaces
<1>10. CASE SetBuffer  BY <1>10 DEF SetBuffer, TypeOK, TxPlaces
<1>11. CASE SetSize  BY <1>11 DEF SetSize, TypeOK, TxPlaces
<1>12. CASE SetRemain  BY <1>12 DEF SetRemain, TypeOK, TxPlaces
<1>13. CASE FirstPacket
  <2>1. req \in [off : Nat, size : 0..BulkMax, remain : 0..BulkMax]  BY DEF TypeOK
  <2> QED  BY <1>13, <2>1, WritePacketType DEF FirstPacket, TypeOK, TxPlaces
<1>14. CASE CompletionWait  BY <1>14 DEF CompletionWait, TypeOK, TxPlaces
<1>15. CASE WaitReturn  BY <1>15 DEF WaitReturn, TypeOK, TxPlaces
<1>16. CASE WaitTimeout  BY <1>16 DEF WaitTimeout, TypeOK, TxPlaces
<1>17. CASE UsbdIn
  <2>1. mq' \in Seq(Message) /\ Len(mq') <= MqMax
    <3>1. mq # <<>> /\ mq' = Tail(mq) /\ mq \in Seq(Message)  BY <1>17 DEF UsbdIn, TypeOK
    <3>2. mq' \in Seq(Message) /\ Len(mq') = Len(mq) - 1 /\ Len(mq) \in Nat  BY <3>1
    <3> QED  BY <3>2, SizesAssumption DEF TypeOK
  <2>2. /\ req' \in [off : Nat, size : 0..BulkMax, remain : 0..BulkMax]
        /\ hist' \subseteq {"overflow", "disconnected", "timeout", "restart", "overrun"}
        /\ done' \in BOOLEAN /\ tpc' \in TxPlaces
    <3>1. ASSUME NEW r \in [off : Nat, size : 0..BulkMax, remain : 0..BulkMax],
                 WritePacket(r), UNCHANGED <<done, tpc>>
          PROVE  <2>2
      BY <3>1, WritePacketType DEF TypeOK
    <3>2. CASE ~configured  BY <3>2, <1>17 DEF UsbdIn, DataNotify, TypeOK
    <3>3. CASE configured /\ req.remain > 0
      BY <3>1, <3>3, <1>17, SizesAssumption DEF UsbdIn, DataNotify, TypeOK
    <3>4. CASE configured /\ req.remain = 0 /\ req.size # 0 /\ req.size % MaxPacket = 0
      <4>1. [off |-> Null, size |-> 0, remain |-> 0]
               \in [off : Nat, size : 0..BulkMax, remain : 0..BulkMax]
        BY SizesAssumption DEF Null
      <4>2. /\ WritePacket([off |-> Null, size |-> 0, remain |-> 0])
            /\ UNCHANGED <<done, tpc>>
        BY <3>4, <1>17 DEF UsbdIn, DataNotify, EpInHandler
      <4> QED  BY <3>1, <4>1, <4>2
    <3>5. CASE configured /\ req.remain = 0 /\ ~ (req.size # 0 /\ req.size % MaxPacket = 0)
      <4>1. CompletionDone /\ UNCHANGED <<req, fifo, hist>>
        BY <3>5, <1>17 DEF UsbdIn, DataNotify, EpInHandler
      <4> QED  BY <4>1 DEF CompletionDone, TypeOK, TxPlaces
    <3>6. req.remain \in Nat  BY SizesAssumption DEF TypeOK
    <3>7. req.remain > 0 \/ req.remain = 0  BY <3>6
    <3>8. configured \in BOOLEAN  BY DEF TypeOK
    <3> QED  BY <3>2, <3>3, <3>4, <3>5, <3>7, <3>8
  <2> QED  BY <1>17, <2>1, <2>2 DEF UsbdIn, TypeOK
<1>18. CASE UsbdControl
  <2>1. mq' \in Seq(Message) /\ Len(mq') <= MqMax
    <3>1. mq # <<>> /\ mq' = Tail(mq) /\ mq \in Seq(Message)  BY <1>18 DEF UsbdControl, TypeOK
    <3>2. mq' \in Seq(Message) /\ Len(mq') = Len(mq) - 1 /\ Len(mq) \in Nat  BY <3>1
    <3> QED  BY <3>2, SizesAssumption DEF TypeOK
  <2>2. configured' \in BOOLEAN /\ connected' \in BOOLEAN /\ bus' \in {"off", "pending", "on"}
    BY <1>18 DEF UsbdControl, TypeOK
  <2> QED  BY <1>18, <2>1, <2>2 DEF UsbdControl, TypeOK
<1>19. CASE HostTakes
  <2>1. mq' \in Seq(Message) /\ Len(mq') <= MqMax
    BY <1>19, SignalType DEF HostTakes, Message
  <2> QED  BY <1>19, <2>1 DEF HostTakes, TypeOK
<1>20. ASSUME NEW m \in {"RESET", "CONFIG", "UNCONFIG"}, HostRestarts(m) PROVE TypeOK'
  <2>1. mq' \in Seq(Message) /\ Len(mq') <= MqMax
    BY <1>20, SignalType DEF HostRestarts, Message
  <2> QED  BY <1>20, <2>1, SizesAssumption DEF HostRestarts, TypeOK
<1>21. ASSUME NEW m \in {"DTR_ON", "DTR_OFF"}, HostSetsLine(m) PROVE TypeOK'
  <2>1. mq' \in Seq(Message) /\ Len(mq') <= MqMax
    BY <1>21, SignalType DEF HostSetsLine, Message
  <2> QED  BY <1>21, <2>1, SizesAssumption DEF HostSetsLine, TypeOK
<1>22. CASE UNCHANGED vars  BY <1>22 DEF vars, TypeOK
<1> QED
  BY <1>1, <1>2, <1>3, <1>4, <1>5, <1>6, <1>7, <1>8, <1>9, <1>10, <1>11, <1>12, <1>13,
     <1>14, <1>15, <1>16, <1>17, <1>18, <1>19, <1>20, <1>21, <1>22
     DEF Next, Writer, TxThread, Usbd, Host

\* Every step keeps the thread from missing a wakeup.  Only a put, the sending of the
\* event and the thread's own looks at the event and the ring matter.
LEMMA NextWakeup == IInv /\ [Next]_vars => (NoLostWakeup /\ SleepInv /\ TornInv)'
<1> SUFFICES ASSUME IInv, [Next]_vars PROVE (NoLostWakeup /\ SleepInv /\ TornInv)'
  OBVIOUS
<1> DEFINE Goal == (NoLostWakeup /\ SleepInv /\ TornInv)'
<1> USE DEF txVars, usbVars, hostVars, writerVars, IInv
\* Steps that leave the writers, the ring and the event alone and do not move the
\* thread to a place where it looks for the event.
<1>0. ASSUME UNCHANGED <<wpc, put, ring, event, seen>>,
             tpc' = tpc \/ tpc' \notin {"recv", "evtwait", "testing"}
      PROVE  Goal
  BY <1>0 DEF NoLostWakeup, SleepInv, TornInv, WakeupDue
<1>1. ASSUME NEW w \in Writers, NEW newline \in BOOLEAN, Putc(w, newline) PROVE Goal
  <2>1. WakeupDue => WakeupDue'
    BY <1>1 DEF Putc, WakeupDue, TypeOK
  <2> QED  BY <1>1, <2>1 DEF Putc, NoLostWakeup, SleepInv, TornInv
<1>2. ASSUME NEW w \in Writers, PutByte(w) PROVE Goal
  <2>1. WakeupDue'
    <3>1. wpc'[w] \in {"crsend", "send"}  BY <1>2 DEF PutByte, TypeOK
    <3> QED  BY <3>1 DEF WakeupDue
  <2> QED  BY <1>2, <2>1 DEF PutByte, NoLostWakeup, SleepInv, TornInv
<1>3. ASSUME NEW w \in Writers, SendEvent(w) PROVE Goal
  <2>1. CASE tpc = "evtwait"
    BY <1>3, <2>1 DEF SendEvent, EventSend, NoLostWakeup, SleepInv, TornInv
  <2>2. CASE tpc # "evtwait"
    BY <1>3, <2>2 DEF SendEvent, EventSend, NoLostWakeup, SleepInv, TornInv, WakeupDue
  <2> QED  BY <2>1, <2>2
<1>4. CASE EventRecv
  <2>1. CASE event  BY <1>4, <2>1 DEF EventRecv, NoLostWakeup, SleepInv, TornInv
  <2>2. CASE ~event
    <3>1. WakeupDue => WakeupDue'  BY <1>4, <2>2 DEF EventRecv, WakeupDue
    <3> QED  BY <1>4, <2>2, <3>1 DEF EventRecv, NoLostWakeup, SleepInv, TornInv
  <2>3. event \in BOOLEAN  BY DEF TypeOK
  <2> QED  BY <2>1, <2>2, <2>3
<1>5. CASE TestRing  BY <1>5 DEF TestRing, NoLostWakeup, SleepInv, TornInv
<1>6. CASE BeginTestFull
  <2>1. ~ (put' > seen')  BY <1>6 DEF BeginTestFull, TypeOK
  <2> QED  BY <1>6, <2>1 DEF BeginTestFull, NoLostWakeup, SleepInv, TornInv
<1>7. CASE EndTestFull
  <2>1. CASE tpc' = "recv"
    <3>1. put > seen  BY <1>7, <2>1 DEF EndTestFull
    <3>2. WakeupDue  BY <1>7, <3>1 DEF EndTestFull, TornInv
    <3>3. WakeupDue'  BY <1>7, <3>2 DEF EndTestFull, WakeupDue
    <3> QED  BY <2>1, <3>3 DEF NoLostWakeup, SleepInv, TornInv
  <2>2. CASE tpc' = "get"
    BY <2>2 DEF NoLostWakeup, SleepInv, TornInv
  <2> QED  BY <1>7, <2>1, <2>2 DEF EndTestFull
<1>8. CASE TakeBytes
  BY <1>8, TakeBytesType DEF TakeBytes, NoLostWakeup, SleepInv, TornInv
<1>9. CASE CheckConnected  BY <1>0, <1>9 DEF CheckConnected
<1>10. CASE SetBuffer  BY <1>0, <1>10 DEF SetBuffer
<1>11. CASE SetSize  BY <1>0, <1>11 DEF SetSize
<1>12. CASE SetRemain  BY <1>0, <1>12 DEF SetRemain
<1>13. CASE FirstPacket  BY <1>0, <1>13 DEF FirstPacket
<1>14. CASE CompletionWait  BY <1>0, <1>14 DEF CompletionWait
<1>15. CASE WaitReturn  BY <1>0, <1>15 DEF WaitReturn
<1>16. CASE WaitTimeout  BY <1>0, <1>16 DEF WaitTimeout
<1>17. CASE UsbdIn
  <2>1. tpc' = tpc \/ tpc' = "ok"
    BY <1>17 DEF UsbdIn, DataNotify, EpInHandler, CompletionDone
  <2> QED  BY <1>0, <1>17, <2>1 DEF UsbdIn
<1>18. CASE UsbdControl  BY <1>0, <1>18 DEF UsbdControl
<1>19. CASE HostTakes  BY <1>0, <1>19 DEF HostTakes
<1>20. ASSUME NEW m, HostRestarts(m) PROVE Goal  BY <1>0, <1>20 DEF HostRestarts
<1>21. ASSUME NEW m, HostSetsLine(m) PROVE Goal  BY <1>0, <1>21 DEF HostSetsLine
<1>22. CASE UNCHANGED vars  BY <1>0, <1>22 DEF vars
<1> QED
  BY <1>1, <1>2, <1>3, <1>4, <1>5, <1>6, <1>7, <1>8, <1>9, <1>10, <1>11, <1>12, <1>13,
     <1>14, <1>15, <1>16, <1>17, <1>18, <1>19, <1>20, <1>21, <1>22
     DEF Next, Writer, TxThread, Usbd, Host

-----------------------------------------------------------------------------
\* The strengthened invariant holds in every reachable state.
LEMMA AlwaysIInv == Spec => []IInv
<1>1. Init => IInv  BY InitIInv
<1>2. IInv /\ [Next]_vars => IInv'  BY NextType, NextWakeup DEF IInv
<1> QED  BY <1>1, <1>2, PTL DEF Spec

\* Type correctness of the transmit path: in particular tx_ringbuffer never holds more
\* than its size and usb_mq never more than USBD_MQ_MAX_MSG messages.
THEOREM TypeCorrect == Spec => []TypeOK
<1>1. IInv => TypeOK  BY DEF IInv
<1> QED  BY <1>1, AlwaysIInv, PTL

\* The vcom thread never sleeps over bytes in tx_ringbuffer without a wakeup due, for
\* any number of writers, in spite of the unlocked read of the ring's length.
THEOREM WakeupNeverLost == Spec => []NoLostWakeup
<1>1. IInv => NoLostWakeup  BY DEF IInv
<1> QED  BY <1>1, AlwaysIInv, PTL

-----------------------------------------------------------------------------
(* The message queue and the bus.                                          *)

Restarts == {"RESET", "CONFIG", "UNCONFIG"}

\* While the host polls the endpoint the device is configured and nothing that would change
\* that is queued; while it waits for its SET_CONFIGURATION that is the last such message.
\* An IN notification is handled by a configured device: what ends the configuration
\* comes behind it.
BusInv ==
    /\ bus = "on" => configured /\ \A k \in 1..Len(mq) : mq[k] \notin Restarts
    /\ bus = "pending" => \E k \in 1..Len(mq) :
          mq[k] = "CONFIG" /\ \A j \in 1..Len(mq) : k < j => mq[j] \notin Restarts
    /\ \A k \in 1..Len(mq) : mq[k] = "IN" =>
          configured /\ \A j \in 1..Len(mq) : j < k => mq[j] \notin Restarts
    /\ fifo # <<>> => bus = "on"

\* As long as the host has not restarted the device it polls a port that is or will be
\* connected, and one the thread is sending to.
Sending == {"buffer", "size", "remain", "write", "waitcall", "wait"}
ConnInv ==
    "restart" \notin hist /\ (connected \/ Queued("DTR_ON", mq) \/ tpc \in Sending) => bus = "on"

OneIn(q) == \A j, k \in 1..Len(q) : q[j] = "IN" /\ q[k] = "IN" => j = k

\* A message is appended, or lost.
LEMMA SignalIs ==
    ASSUME mq \in Seq(Message), NEW m \in Message, Signal(m), NEW q, q = mq, NEW r, r = mq'
    PROVE  \/ r = q /\ ~(Len(q) < MqMax)
           \/ /\ Len(q) < MqMax /\ Len(r) = Len(q) + 1 /\ r[Len(q) + 1] = m
              /\ Len(q) \in Nat /\ \A k \in 1..Len(q) : r[k] = q[k]
<1>1. CASE Len(q) < MqMax
  <2>1. r = Append(q, m) /\ q \in Seq(Message)  BY <1>1 DEF Signal
  <2> QED  BY <2>1, <1>1, AppendProperties, LenProperties
<1>2. CASE ~(Len(q) < MqMax)  BY <1>2 DEF Signal
<1> QED  BY <1>1, <1>2

\* The first message is taken and the others move up.
LEMMA TakenIs ==
    ASSUME mq \in Seq(Message), mq # <<>>, mq' = Tail(mq), NEW q, q = mq, NEW r, r = mq'
    PROVE  /\ Len(q) \in Nat \ {0} /\ Len(r) = Len(q) - 1 /\ Head(q) = q[1] /\ q[1] \in Message
           /\ \A k \in 1..Len(r) : r[k] = q[k + 1] /\ k + 1 \in 1..Len(q)
<1>1. /\ Len(q) \in Nat \ {0} /\ Len(r) = Len(q) - 1 /\ Head(q) = q[1]
      /\ \A k \in 1..Len(r) : r[k] = q[k + 1]
  BY HeadTailProperties, LenProperties, EmptySeq
<1>2. q[1] \in Message  BY <1>1, ElementOfSeq
<1>3. \A k \in 1..Len(r) : k + 1 \in 1..Len(q)  BY <1>1
<1> QED  BY <1>1, <1>2, <1>3

\* What that does to the IN notifications.
LEMMA SignalKeepsIn ==
    ASSUME mq \in Seq(Message), NEW m \in Message, Signal(m)
    PROVE  /\ m # "IN" => Queued("IN", mq') = Queued("IN", mq) /\ (OneIn(mq) => OneIn(mq'))
           /\ m = "IN" /\ ~Queued("IN", mq) => OneIn(mq')
<1>1. PICK q, r : q = mq /\ r = mq'  OBVIOUS
<1>2. CASE r = q  BY <1>1, <1>2 DEF OneIn, Queued
<1>3. CASE /\ Len(q) < MqMax /\ Len(r) = Len(q) + 1 /\ r[Len(q) + 1] = m
           /\ Len(q) \in Nat /\ \A k \in 1..Len(q) : r[k] = q[k]
  <2>1. \A k \in 1..Len(r) : k \in 1..Len(q) \/ k = Len(q) + 1  BY <1>3
  <2>2. \A k \in 1..Len(q) : k \in 1..Len(r)  BY <1>3
  <2>3. CASE m # "IN"
    <3>1. Queued("IN", r) = Queued("IN", q)  BY <2>1, <2>2, <2>3, <1>3 DEF Queued
    <3>2. OneIn(q) => OneIn(r)  BY <2>1, <2>3, <1>3 DEF OneIn
    <3> QED  BY <3>1, <3>2, <2>3, <1>1
  <2>4. CASE m = "IN"
    <3>1. ~Queued("IN", q) => OneIn(r)  BY <2>1, <2>4, <1>3 DEF OneIn, Queued
    <3> QED  BY <3>1, <2>4, <1>1
  <2> QED  BY <2>3, <2>4
<1> QED  BY <1>1, <1>2, <1>3, SignalIs

LEMMA TakenKeepsIn ==
    ASSUME mq \in Seq(Message), mq # <<>>, mq' = Tail(mq)
    PROVE  /\ Head(mq) # "IN" => Queued("IN", mq') = Queued("IN", mq)
           /\ OneIn(mq) => OneIn(mq')
           /\ Head(mq) = "IN" => Queued("IN", mq) /\ (OneIn(mq) => ~Queued("IN", mq'))
<1>1. PICK q, r : q = mq /\ r = mq'  OBVIOUS
<1>2. /\ Len(q) \in Nat \ {0} /\ Len(r) = Len(q) - 1 /\ Head(q) = q[1]
      /\ \A k \in 1..Len(r) : r[k] = q[k + 1] /\ k + 1 \in 1..Len(q)
  BY <1>1, TakenIs
<1>3. 1 \in 1..Len(q)  BY <1>2
<1>4. \A k \in 1..Len(q) : k # 1 => k - 1 \in 1..Len(r) /\ (k - 1) + 1 = k  BY <1>2
<1>5. \A k \in 1..Len(r) : k + 1 # 1  BY <1>2
<1>6. Head(q) # "IN" => Queued("IN", r) = Queued("IN", q)
  <2>1. Queued("IN", r) => Queued("IN", q)  BY <1>2 DEF Queued
  <2>2. ASSUME Head(q) # "IN", NEW k \in 1..Len(q), q[k] = "IN" PROVE Queued("IN", r)
    <3>1. k - 1 \in 1..Len(r) /\ r[k - 1] = q[(k - 1) + 1]  BY <2>2, <1>2, <1>4
    <3> QED  BY <3>1, <2>2, <1>2, <1>4 DEF Queued
  <2> QED  BY <2>1, <2>2 DEF Queued
<1>7. OneIn(q) => OneIn(r)
  <2>1. ASSUME OneIn(q), NEW j \in 1..Len(r), NEW k \in 1..Len(r), r[j] = "IN", r[k] = "IN" PROVE j = k
    <3>1. /\ q[j + 1] = "IN" /\ j + 1 \in 1..Len(q)
          /\ q[k + 1] = "IN" /\ k + 1 \in 1..Len(q)
      BY <2>1, <1>2
    <3>2. j + 1 = k + 1  BY <3>1, <2>1 DEF OneIn
    <3> QED  BY <3>2, <1>2
  <2> QED  BY <2>1 DEF OneIn
<1>8. Head(q) = "IN" => Queued("IN", q) /\ (OneIn(q) => ~Queued("IN", r))
  BY <1>2, <1>3, <1>5 DEF Queued, OneIn
<1> QED  BY <1>1, <1>6, <1>7, <1>8

\* What the queue says of the device, see BusInv.
BusIs(b, c, q) ==
    /\ b = "on" => c /\ \A k \in 1..Len(q) : q[k] \notin Restarts
    /\ b = "pending" => \E k \in 1..Len(q) :
          q[k] = "CONFIG" /\ \A j \in 1..Len(q) : k < j => q[j] \notin Restarts
    /\ \A k \in 1..Len(q) : q[k] = "IN" => c /\ \A j \in 1..Len(q) : j < k => q[j] \notin Restarts

LEMMA BusInvIs == /\ BusInv <=> BusIs(bus, configured, mq) /\ (fifo # <<>> => bus = "on")
                  /\ BusInv' <=> BusIs(bus', configured', mq') /\ (fifo' # <<>> => bus' = "on")
  BY DEF BusInv, BusIs

\* A message behind the others.
LEMMA BusAppend ==
    ASSUME NEW q, NEW r, NEW m, Len(q) \in Nat, Len(r) = Len(q) + 1, r[Len(q) + 1] = m,
           \A k \in 1..Len(q) : r[k] = q[k],
           NEW b, NEW c, NEW b2, BusIs(b, c, q),
           \/ m = "IN" /\ b = "on" /\ b2 = "on"
           \/ m \in {"DTR_ON", "DTR_OFF"} /\ b2 = b
           \/ m = "CONFIG" /\ b2 = "pending"
           \/ m \in Restarts /\ b2 = "off"
    PROVE  BusIs(b2, c, r)
<1>1. \A k \in 1..Len(r) : k \in 1..Len(q) \/ k = Len(q) + 1  OBVIOUS
<1>2. \A k \in 1..Len(q) : k \in 1..Len(r) /\ k < Len(q) + 1  OBVIOUS
<1>3. Len(q) + 1 \in 1..Len(r) /\ \A j \in 1..Len(r) : ~(Len(q) + 1 < j)  OBVIOUS
<1>4. b2 = "on" => c /\ \A k \in 1..Len(r) : r[k] \notin Restarts
  BY <1>1 DEF BusIs, Restarts
<1>5. ASSUME b2 = "pending"
      PROVE  \E k \in 1..Len(r) : r[k] = "CONFIG" /\ \A j \in 1..Len(r) : k < j => r[j] \notin Restarts
  <2>1. CASE m = "CONFIG"  BY <2>1, <1>3
  <2>2. CASE m \in {"DTR_ON", "DTR_OFF"} /\ b = "pending"
    <3>1. PICK k \in 1..Len(q) : q[k] = "CONFIG" /\ \A j \in 1..Len(q) : k < j => q[j] \notin Restarts
      BY <2>2 DEF BusIs
    <3>2. k \in 1..Len(r) /\ r[k] = "CONFIG"  BY <3>1, <1>2
    <3>3. \A j \in 1..Len(r) : k < j => r[j] \notin Restarts
      BY <3>1, <2>2, <1>1 DEF Restarts
    <3> QED  BY <3>2, <3>3
  <2> QED  BY <2>1, <2>2, <1>5
<1>6. ASSUME NEW k \in 1..Len(r), r[k] = "IN"
      PROVE  c /\ \A j \in 1..Len(r) : j < k => r[j] \notin Restarts
  <2>1. CASE k \in 1..Len(q)
    <3>1. q[k] = "IN"  BY <2>1, <1>6
    <3>2. c /\ \A j \in 1..Len(q) : j < k => q[j] \notin Restarts  BY <3>1, <2>1 DEF BusIs
    <3>3. \A j \in 1..Len(r) : j < k => j \in 1..Len(q)  BY <2>1, <1>1
    <3> QED  BY <3>2, <3>3
  <2>2. CASE k = Len(q) + 1
    <3>1. m = "IN" /\ b2 = "on"  BY <2>2, <1>6 DEF Restarts
    <3> QED  BY <3>1, <1>4, <2>2
  <2> QED  BY <2>1, <2>2, <1>1
<1> QED  BY <1>4, <1>5, <1>6 DEF BusIs

\* The first message is handled.
LEMMA BusTail ==
    ASSUME NEW q, NEW r, Len(q) \in Nat \ {0}, Len(r) = Len(q) - 1,
           \A k \in 1..Len(r) : r[k] = q[k + 1] /\ k + 1 \in 1..Len(q),
           NEW b, NEW c, NEW b2, NEW c2, BusIs(b, c, q),
           c2 = IF q[1] = "CONFIG" THEN TRUE ELSE IF q[1] \in Restarts THEN FALSE ELSE c,
           b2 = IF q[1] = "CONFIG" /\ b = "pending" /\ ~Queued("CONFIG", r) THEN "on" ELSE b
    PROVE  BusIs(b2, c2, r)
<1>1. 1 \in 1..Len(q)  OBVIOUS
<1>2. \A k \in 1..Len(q) : k # 1 => k - 1 \in 1..Len(r) /\ (k - 1) + 1 = k /\ 1 < k  OBVIOUS
<1>3. \A j, k \in 1..Len(r) : j < k => j + 1 < k + 1  OBVIOUS
<1>4. \A k \in 1..Len(r) : k + 1 \in 1..Len(q) /\ 1 < k + 1 /\ r[k] = q[k + 1]  OBVIOUS
<1>5. ASSUME b2 = "on" PROVE c2 /\ \A k \in 1..Len(r) : r[k] \notin Restarts
  <2>1. CASE b = "on"
    <3>1. q[1] \notin Restarts  BY <2>1, <1>1 DEF BusIs
    <3> QED  BY <3>1, <2>1, <1>4 DEF BusIs, Restarts
  <2>2. CASE q[1] = "CONFIG" /\ b = "pending" /\ ~Queued("CONFIG", r)
    <3>1. PICK k \in 1..Len(q) : q[k] = "CONFIG" /\ \A j \in 1..Len(q) : k < j => q[j] \notin Restarts
      BY <2>2 DEF BusIs
    <3>2. k = 1
      <4>1. CASE k # 1
        <5>1. k - 1 \in 1..Len(r) /\ r[k - 1] = q[(k - 1) + 1]  BY <4>1, <1>2, <1>4
        <5>2. r[k - 1] = "CONFIG"  BY <5>1, <4>1, <3>1, <1>2
        <5> QED  BY <5>1, <5>2, <2>2 DEF Queued
      <4> QED  BY <4>1
    <3> QED  BY <3>1, <3>2, <2>2, <1>4
  <2> QED  BY <2>1, <2>2, <1>5
<1>6. ASSUME b2 = "pending"
      PROVE  \E k \in 1..Len(r) : r[k] = "CONFIG" /\ \A j \in 1..Len(r) : k < j => r[j] \notin Restarts
  <2>1. b = "pending" /\ (q[1] = "CONFIG" => Queued("CONFIG", r))  BY <1>6
  <2>2. PICK k \in 1..Len(q) : q[k] = "CONFIG" /\ \A j \in 1..Len(q) : k < j => q[j] \notin Restarts
    BY <2>1 DEF BusIs
  <2>3. k # 1
    <3>1. CASE k = 1
      <4>1. PICK i \in 1..Len(r) : r[i] = "CONFIG"  BY <3>1, <2>1, <2>2 DEF Queued
      <4>2. i + 1 \in 1..Len(q) /\ k < i + 1 /\ q[i + 1] = "CONFIG"  BY <4>1, <3>1, <1>4
      <4> QED  BY <4>2, <2>2 DEF Restarts
    <3> QED  BY <3>1
  <2>4. PICK i : i = k - 1  OBVIOUS
  <2>5. i \in 1..Len(r) /\ i + 1 = k  BY <2>3, <2>4, <1>2
  <2>6. \A j \in 1..Len(r) : i < j => r[j] \notin Restarts
    <3>1. \A j \in 1..Len(r) : i < j => i + 1 < j + 1  BY <2>5, <1>3
    <3> QED  BY <3>1, <2>2, <2>5, <1>4
  <2> QED  BY <2>2, <2>5, <2>6, <1>4
<1>7. ASSUME NEW k \in 1..Len(r), r[k] = "IN"
      PROVE  c2 /\ \A j \in 1..Len(r) : j < k => r[j] \notin Restarts
  <2>1. q[k + 1] = "IN" /\ k + 1 \in 1..Len(q) /\ 1 < k + 1  BY <1>7, <1>4
  <2>2. c /\ \A j \in 1..Len(q) : j < k + 1 => q[j] \notin Restarts  BY <2>1 DEF BusIs
  <2>3. q[1] \notin Restarts  BY <2>1, <2>2, <1>1
  <2>4. c2  BY <2>2, <2>3 DEF Restarts
  <2>5. \A j \in 1..Len(r) : j < k => j + 1 < k + 1 /\ r[j] = q[j + 1] /\ j + 1 \in 1..Len(q)  BY <1>3, <1>4
  <2> QED  BY <2>2, <2>4, <2>5
<1> QED  BY <1>5, <1>6, <1>7 DEF BusIs

LEMMA BusStep ==
    ASSUME TypeOK, BusInv, Next \/ UNCHANGED vars
    PROVE  BusInv'
<1> USE DEF txVars, usbVars, hostVars, writerVars
<1>1. PICK q, r, b, c : q = mq /\ r = mq' /\ b = bus /\ c = configured  OBVIOUS
<1>2. q \in Seq(Message) /\ Len(q) \in Nat /\ BusIs(b, c, q) /\ (fifo # <<>> => b = "on")
  BY <1>1, BusInvIs, LenProperties DEF TypeOK
<1>3. ASSUME UNCHANGED <<mq, bus, configured>>, fifo' = fifo \/ b = "on" PROVE BusInv'
  <2>1. BusIs(bus', configured', mq')  BY <1>1, <1>2, <1>3
  <2> QED  BY <2>1, <1>1, <1>2, <1>3, BusInvIs
<1>4. ASSUME NEW w \in Writers, Writer(w) PROVE BusInv'
  BY <1>3, <1>4 DEF Writer, Putc, PutByte, SendEvent
<1>5. CASE FirstPacket  BY <1>1, <1>3, <1>5 DEF FirstPacket, WritePacket, Transmit
<1>6. CASE TxThread /\ ~FirstPacket
  BY <1>3, <1>6 DEF TxThread, EventRecv, TestRing, BeginTestFull, EndTestFull, TakeBytes,
     CheckConnected, SetBuffer, SetSize, SetRemain, CompletionWait, WaitReturn
<1>7. CASE WaitTimeout  BY <1>3, <1>7 DEF WaitTimeout
<1>8. CASE UNCHANGED vars  BY <1>3, <1>8 DEF vars
<1>9. CASE UsbdIn
  <2>1. mq # <<>> /\ mq' = Tail(mq) /\ Head(mq) = "IN" /\ UNCHANGED <<bus, configured>>
    BY <1>9 DEF UsbdIn
  <2>2. fifo' = fifo \/ b = "on"
    BY <1>1, <1>9 DEF UsbdIn, DataNotify, EpInHandler, WritePacket, Transmit
  <2>3. /\ Len(q) \in Nat \ {0} /\ Len(r) = Len(q) - 1 /\ Head(q) = q[1]
        /\ \A k \in 1..Len(r) : r[k] = q[k + 1] /\ k + 1 \in 1..Len(q)
    BY <2>1, <1>1, <1>2, TakenIs
  <2>4. q[1] = "IN"  BY <2>1, <2>3, <1>1
  <2>5. BusIs(b, c, r)  BY <2>3, <2>4, <1>2, BusTail DEF Restarts
  <2> QED  BY <2>1, <2>2, <2>5, <1>1, <1>2, BusInvIs
<1>10. CASE UsbdControl
  <2>1. mq # <<>> /\ mq' = Tail(mq) /\ UNCHANGED fifo  BY <1>10 DEF UsbdControl
  <2>2. /\ Len(q) \in Nat \ {0} /\ Len(r) = Len(q) - 1 /\ Head(q) = q[1]
        /\ \A k \in 1..Len(r) : r[k] = q[k + 1] /\ k + 1 \in 1..Len(q)
    BY <2>1, <1>1, <1>2, TakenIs
  <2>3. /\ configured' = IF q[1] = "CONFIG" THEN TRUE ELSE IF q[1] \in Restarts THEN FALSE ELSE c
        /\ bus' = IF q[1] = "CONFIG" /\ b = "pending" /\ ~Queued("CONFIG", r) THEN "on" ELSE b
    BY <2>1, <2>2, <1>1, <1>10 DEF UsbdControl, Restarts
  <2>4. PICK b2, c2 : b2 = bus' /\ c2 = configured'  OBVIOUS
  <2>5. BusIs(b2, c2, r)  BY <2>2, <2>3, <2>4, <1>2, BusTail
  <2>6. b = "on" => b2 = "on"  BY <2>3, <2>4
  <2> QED  BY <2>1, <2>4, <2>5, <2>6, <1>1, <1>2, BusInvIs
\* A message behind the others, or lost.
<1>11. ASSUME NEW m \in Message, Signal(m), configured' = configured, NEW b2, b2 = bus',
              fifo' # <<>> => b2 = "on", r = q => (b2 = b \/ b2 = "off"),
              \/ m = "IN" /\ b = "on" /\ b2 = "on"
              \/ m \in {"DTR_ON", "DTR_OFF"} /\ b2 = b
              \/ m = "CONFIG" /\ b2 = "pending"
              \/ m \in Restarts /\ b2 = "off"
       PROVE  BusInv'
  <2>1. BusIs(b2, c, r)
    <3>1. CASE r = q  BY <3>1, <1>2, <1>11 DEF BusIs
    <3>2. CASE /\ Len(r) = Len(q) + 1 /\ r[Len(q) + 1] = m
               /\ \A k \in 1..Len(q) : r[k] = q[k]
      BY <3>2, <1>2, <1>11, BusAppend
    <3> QED  BY <3>1, <3>2, <1>1, <1>2, <1>11, SignalIs
  <2> QED  BY <2>1, <1>1, <1>11, BusInvIs
<1>12. CASE HostTakes
  <2>1. Signal("IN") /\ fifo # <<>> /\ UNCHANGED <<bus, configured>>  BY <1>12 DEF HostTakes
  <2>2. "IN" \in Message  BY DEF Message
  <2>3. b = "on" /\ bus' = b  BY <2>1, <1>1, <1>2
  <2> QED  BY <2>1, <2>2, <2>3, <1>11
<1>13. ASSUME NEW m \in Restarts, HostRestarts(m) PROVE BusInv'
  <2>1. /\ Signal(m) /\ UNCHANGED configured /\ fifo' = <<>>
        /\ bus' = IF m = "CONFIG" /\ Len(mq) < MqMax THEN "pending" ELSE "off"
    BY <1>13 DEF HostRestarts
  <2>2. m \in Message  BY <1>13 DEF Message, Restarts
  <2>3. PICK b2 : b2 = bus'  OBVIOUS
  <2>4. r = q => ~(Len(q) < MqMax)
    <3>1. Len(q) # Len(q) + 1  BY <1>2
    <3> QED  BY <3>1, <2>1, <2>2, <1>1, <1>2, SignalIs
  <2>5. r = q => b2 = "off"  BY <2>1, <2>3, <2>4, <1>1
  <2> QED  BY <2>1, <2>2, <2>3, <2>5, <1>11, <1>13
<1>14. ASSUME NEW m \in {"DTR_ON", "DTR_OFF"}, HostSetsLine(m) PROVE BusInv'
  <2>1. Signal(m) /\ UNCHANGED <<configured, bus, fifo>>  BY <1>14 DEF HostSetsLine
  <2>2. m \in Message  BY <1>14 DEF Message
  <2>3. PICK b2 : b2 = bus'  OBVIOUS
  <2>4. b2 = b /\ (fifo' # <<>> => b2 = "on")  BY <2>1, <2>3, <1>1, <1>2
  <2> QED  BY <2>1, <2>2, <2>3, <2>4, <1>11, <1>14
<1> QED  BY <1>4, <1>5, <1>6, <1>7, <1>8, <1>9, <1>10, <1>12, <1>13, <1>14
            DEF Next, Usbd, Host, Restarts

\* What the host has connected to it polls, until it restarts the device.
LEMMA ConnStep ==
    ASSUME TypeOK, BusInv, ConnInv, Next \/ UNCHANGED vars
    PROVE  ConnInv'
<1> USE DEF txVars, usbVars, hostVars, writerVars
<1> DEFINE Dtr(q) == Queued("DTR_ON", q)
<1>1. PICK q, r : q = mq /\ r = mq'  OBVIOUS
<1>2. q \in Seq(Message) /\ Len(q) \in Nat  BY <1>1, LenProperties DEF TypeOK
<1>3. ASSUME "restart" \in hist => "restart" \in hist', bus' = bus \/ (bus = "on" => "restart" \in hist'),
             connected' => connected \/ Dtr(q), Dtr(r) => Dtr(q) \/ bus = "on",
             tpc' \in Sending => tpc \in Sending \/ connected
      PROVE  ConnInv'
  <2>1. Queued("DTR_ON", mq') <=> Dtr(r)  BY <1>1
  <2> QED  BY <2>1, <1>1, <1>3 DEF ConnInv
<1> HIDE DEF Dtr
<1>4. ASSUME mq' = mq PROVE Dtr(r) => Dtr(q)  BY <1>1, <1>4
<1>5. ASSUME NEW w \in Writers, Writer(w) PROVE ConnInv'
  BY <1>3, <1>4, <1>5 DEF Writer, Putc, PutByte, SendEvent, PutCharForce, EventSend, Sending
<1>6. CASE TxThread /\ ~FirstPacket
  <2> USE DEF TxThread, EventRecv, TestRing, BeginTestFull, EndTestFull, TakeBytes, CheckConnected,
              SetBuffer, SetSize, SetRemain, CompletionWait, WaitReturn
  <2>1. UNCHANGED <<mq, connected, bus>>  BY <1>6
  <2>2. "restart" \in hist => "restart" \in hist'  BY <1>6
  <2>3. tpc' \in Sending => tpc \in Sending \/ connected
    <3>1. CASE TakeBytes
      <4>1. tpc' \in {"test", "check"}  BY <3>1
      <4> QED  BY <4>1 DEF Sending
    <3> QED  BY <3>1, <1>6 DEF Sending
  <2> QED  BY <2>1, <2>2, <2>3, <1>3, <1>4
<1>7. CASE FirstPacket  BY <1>3, <1>4, <1>7 DEF FirstPacket, WritePacket, Sending
<1>8. CASE WaitTimeout  BY <1>3, <1>4, <1>8 DEF WaitTimeout, Sending
<1>9. CASE UNCHANGED vars  BY <1>3, <1>4, <1>9 DEF vars
\* A message is taken or sent.
<1>10. ASSUME mq # <<>>, mq' = Tail(mq) PROVE (Dtr(r) => Dtr(q)) /\ (Head(mq) = "DTR_ON" => Dtr(q))
  <2>1. /\ Len(q) \in Nat \ {0} /\ Len(r) = Len(q) - 1 /\ Head(q) = q[1]
        /\ \A k \in 1..Len(r) : r[k] = q[k + 1] /\ k + 1 \in 1..Len(q)
    BY <1>1, <1>2, <1>10, TakenIs
  <2>2. 1 \in 1..Len(q)  BY <2>1
  <2> QED  BY <2>1, <2>2, <1>1 DEF Dtr, Queued
<1>11. ASSUME NEW m \in Message, Signal(m) PROVE Dtr(r) => Dtr(q) \/ m = "DTR_ON"
  <2>1. CASE r = q  BY <2>1
  <2>2. CASE /\ Len(r) = Len(q) + 1 /\ r[Len(q) + 1] = m
             /\ \A k \in 1..Len(q) : r[k] = q[k]
    <3>1. \A k \in 1..Len(r) : k \in 1..Len(q) \/ k = Len(q) + 1  BY <2>2, <1>2
    <3> QED  BY <3>1, <2>2 DEF Dtr, Queued
  <2> QED  BY <2>1, <2>2, <1>1, <1>2, <1>11, SignalIs
<1>12. CASE UsbdIn
  <2>1. mq # <<>> /\ mq' = Tail(mq) /\ UNCHANGED <<bus, connected>>  BY <1>12 DEF UsbdIn
  <2>2. "restart" \in hist => "restart" \in hist'
    BY <1>12 DEF UsbdIn, DataNotify, EpInHandler, WritePacket
  <2>3. tpc' \in Sending => tpc \in Sending
    BY <1>12 DEF UsbdIn, DataNotify, EpInHandler, CompletionDone, Sending
  <2> QED  BY <2>1, <2>2, <2>3, <1>3, <1>10
<1>13. CASE UsbdControl
  <2>1. mq # <<>> /\ mq' = Tail(mq) /\ UNCHANGED <<hist, tpc>>  BY <1>13 DEF UsbdControl
  <2>2. connected' => connected \/ Head(mq) = "DTR_ON"  BY <1>13, <2>1 DEF UsbdControl, TypeOK
  <2>3. bus' = bus \/ bus = "pending"  BY <1>13 DEF UsbdControl
  <2> QED  BY <2>1, <2>2, <2>3, <1>3, <1>10
<1>14. CASE HostTakes
  <2>1. Signal("IN") /\ UNCHANGED <<bus, connected, hist, tpc>>  BY <1>14 DEF HostTakes
  <2>2. "IN" \in Message  BY DEF Message
  <2> QED  BY <2>1, <2>2, <1>3, <1>11
<1>15. ASSUME NEW m \in Restarts, HostRestarts(m) PROVE ConnInv'
  <2>1. /\ Signal(m) /\ UNCHANGED <<connected, tpc>>
        /\ hist' = IF bus = "on" THEN hist \cup {"restart"} ELSE hist
    BY <1>15 DEF HostRestarts
  <2>2. m \in Message /\ m # "DTR_ON"  BY <1>15 DEF Message, Restarts
  <2>3. Dtr(r) => Dtr(q)  BY <2>1, <2>2, <1>11
  <2> QED  BY <2>1, <2>3, <1>3
<1>16. ASSUME NEW m \in {"DTR_ON", "DTR_OFF"}, HostSetsLine(m) PROVE ConnInv'
  <2>1. Signal(m) /\ bus = "on" /\ UNCHANGED <<connected, tpc, hist, bus>>  BY <1>16 DEF HostSetsLine
  <2> QED  BY <2>1, <1>3
<1> QED  BY <1>5, <1>6, <1>7, <1>8, <1>9, <1>12, <1>13, <1>14, <1>15, <1>16
            DEF Next, Usbd, Host, Restarts

-----------------------------------------------------------------------------
(* The bytes in the ring and in ch.                                        *)

\* The number of bytes put before those in the ring.
Begin == put - Len(ring)

\* The ring holds the last bytes put.
RingInv == \A k \in 1..Len(ring) : ring[k] = Begin + k

\* The thread has a request in hand: ch holds bytes that were next to each other in the ring
\* and before those in it now.
Busy == {"check", "buffer", "size", "remain", "write", "waitcall", "wait", "ok"}
ChInv ==
    tpc \in Busy => /\ res \in 1..BulkMax /\ ch[1] \in Nat \ {0}
                    /\ (ch[1] - 1) + res <= Begin
                    /\ \A k \in 1..res : ch[k] = (ch[1] - 1) + k

LEMMA PutIs ==
    ASSUME TypeOK, RingInv, PutCharForce
    PROVE  /\ RingInv' /\ Begin \in Int /\ Begin' \in Int /\ Begin <= Begin'
           /\ (hist' = hist /\ Begin' = Begin) \/ hist' = hist \cup {"overflow"}
<1>1. PICK g, h, p : g = ring /\ h = ring' /\ p = put  OBVIOUS
<1>2. g \in Seq(1..MaxBytes) /\ Len(g) \in Nat /\ p \in Nat /\ RingSize \in Nat \ {0} /\ put' = p + 1
  BY <1>1, LenProperties, SizesAssumption DEF TypeOK, PutCharForce
<1>3. \A k \in 1..Len(g) : g[k] = (p - Len(g)) + k  BY <1>1 DEF RingInv, Begin
<1>4. CASE Len(g) = RingSize
  <2>1. PICK t : t = Tail(g)  OBVIOUS
  <2>2. g # <<>>  BY <1>2, <1>4, EmptySeq
  <2>3. /\ t \in Seq(1..MaxBytes) /\ Len(t) = Len(g) - 1
        /\ \A k \in 1..Len(t) : t[k] = g[k + 1]
    BY <2>1, <2>2, <1>2, HeadTailProperties
  <2>4. h = Append(t, p + 1) /\ hist' = hist \cup {"overflow"}  BY <2>1, <1>1, <1>4 DEF PutCharForce
  <2>5. t \in Seq(Nat)
    <3>1. t \in Seq(1..MaxBytes) /\ \A k \in 1..Len(t) : t[k] \in 1..MaxBytes  BY <2>3, ElementOfSeq
    <3> QED  BY <3>1, SeqMonotonic
  <2>6. /\ Len(h) = Len(t) + 1 /\ h[Len(t) + 1] = p + 1
        /\ \A k \in 1..Len(t) : h[k] = t[k]
    BY <2>4, <2>5, <1>2, AppendProperties
  <2>7. Len(h) = Len(g) /\ Len(t) \in Nat  BY <2>3, <2>6, <1>2, <1>4
  <2>8. ASSUME NEW k \in 1..Len(h) PROVE h[k] = ((p + 1) - Len(h)) + k
    <3>1. CASE k = Len(t) + 1  BY <3>1, <2>6, <2>7, <1>2
    <3>2. CASE k \in 1..Len(t)
      <4>1. h[k] = g[k + 1] /\ k + 1 \in 1..Len(g)  BY <3>2, <2>3, <2>6, <1>2
      <4> QED  BY <4>1, <2>7, <1>2, <1>3
    <3> QED  BY <3>1, <3>2, <2>6, <2>7
  <2>9. Begin = p - Len(g) /\ Begin' = (p + 1) - Len(h)  BY <1>1, <1>2 DEF Begin
  <2>10. RingInv'  BY <2>8, <2>9, <1>1 DEF RingInv
  <2>11. PICK b, d : b = Begin /\ d = Begin'  OBVIOUS
  <2>12. b \in Int /\ d \in Int /\ b <= d  BY <2>7, <2>9, <2>11, <1>2
  <2> QED  BY <2>4, <2>10, <2>11, <2>12
<1>5. CASE Len(g) # RingSize
  <2>1. h = Append(g, p + 1) /\ hist' = hist  BY <1>1, <1>5 DEF PutCharForce
  <2>2. g \in Seq(Nat)
    <3>1. \A k \in 1..Len(g) : g[k] \in 1..MaxBytes  BY <1>2, ElementOfSeq
    <3> QED  BY <3>1, <1>2, SeqMonotonic
  <2>3. /\ Len(h) = Len(g) + 1 /\ h[Len(g) + 1] = p + 1
        /\ \A k \in 1..Len(g) : h[k] = g[k]
    BY <2>1, <2>2, <1>2, AppendProperties
  <2>4. ASSUME NEW k \in 1..Len(h) PROVE h[k] = ((p + 1) - Len(h)) + k
    <3>1. CASE k = Len(g) + 1  BY <3>1, <2>3, <1>2
    <3>2. CASE k \in 1..Len(g)  BY <3>2, <2>3, <1>2, <1>3
    <3> QED  BY <3>1, <3>2, <2>3, <1>2
  <2>5. (p + 1) - Len(h) = p - Len(g)  BY <2>3, <1>2
  <2>6. Begin = p - Len(g) /\ Begin' = (p + 1) - Len(h) /\ p - Len(g) \in Int  BY <1>1, <1>2 DEF Begin
  <2>7. RingInv'  BY <2>4, <2>6, <1>1 DEF RingInv
  <2>8. PICK b, d : b = Begin /\ d = Begin'  OBVIOUS
  <2>9. b = d /\ b \in Int /\ b <= d  BY <2>5, <2>6, <2>8
  <2> QED  BY <2>1, <2>7, <2>8, <2>9
<1> QED  BY <1>4, <1>5

LEMMA TakeIs ==
    ASSUME TypeOK, RingInv, TakeBytes
    PROVE  /\ RingInv' /\ Begin \in Nat
           /\ res' \in 0..BulkMax /\ Begin' = Begin + res'
           /\ \A k \in 1..res' : ch'[k] = Begin + k
           /\ tpc' = IF res' = 0 THEN "test" ELSE "check"
<1>1. PICK g, h, p : g = ring /\ h = ring' /\ p = put  OBVIOUS
<1>2. PICK n : n = IF Len(g) < BulkMax THEN Len(g) ELSE BulkMax  OBVIOUS
<1>3. /\ g \in Seq(1..MaxBytes) /\ Len(g) \in Nat /\ p \in Nat /\ BulkMax \in Nat
      /\ n \in 0..Len(g) /\ n \in 0..BulkMax /\ n \in Nat /\ put' = p
  BY <1>1, <1>2, LenProperties, SizesAssumption DEF TypeOK, TakeBytes, writerVars
<1>4. \A k \in 1..Len(g) : g[k] = (p - Len(g)) + k /\ g[k] \in 1..MaxBytes
  BY <1>1, <1>3, ElementOfSeq DEF RingInv, Begin
<1>5. /\ res' = n /\ h = SubSeq(g, n + 1, Len(g)) /\ tpc' = IF n = 0 THEN "test" ELSE "check"
      /\ ch' = [k \in 1..BulkMax |-> IF k <= n THEN g[k] ELSE ch[k]]
  BY <1>1, <1>2 DEF TakeBytes
<1>6. Len(h) = Len(g) - n /\ \A k \in 1..(Len(g) - n) : h[k] = g[n + k]
  BY <1>3, <1>5, RestIs
<1>7. p - Len(g) \in Nat
  <2>1. CASE Len(g) = 0  BY <2>1, <1>3
  <2>2. CASE Len(g) # 0
    <3>1. 1 \in 1..Len(g)  BY <2>2, <1>3
    <3>2. (p - Len(g)) + 1 \in 1..MaxBytes  BY <3>1, <1>4
    <3> QED  BY <3>2, <1>3
  <2> QED  BY <2>1, <2>2
<1>8. p - Len(h) = (p - Len(g)) + n  BY <1>3, <1>6
<1>9. \A k \in 1..Len(h) : n + k \in 1..Len(g) /\ (p - Len(h)) + k = (p - Len(g)) + (n + k)  BY <1>3, <1>6
<1>10. \A k \in 1..Len(h) : h[k] = (p - Len(h)) + k  BY <1>4, <1>6, <1>9
<1>11. \A k \in 1..n : ch'[k] = (p - Len(g)) + k
  <2>1. \A k \in 1..n : k \in 1..BulkMax /\ k <= n /\ k \in 1..Len(g)  BY <1>3
  <2> QED  BY <2>1, <1>4, <1>5
<1> QED  BY <1>1, <1>3, <1>5, <1>7, <1>8, <1>10, <1>11 DEF RingInv, Begin

\* Steps that neither put nor take.
LEMMA RingKept ==
    ASSUME Next \/ UNCHANGED vars, ~TakeBytes, ~ \E w \in Writers : PutByte(w)
    PROVE  UNCHANGED <<put, ring, ch, res>> /\ (tpc' \in Busy => tpc \in Busy)
<1> USE DEF txVars, usbVars, hostVars, writerVars
<1>1. CASE UNCHANGED vars  BY <1>1 DEF vars
<1>2. CASE \E w \in Writers : Writer(w)  BY <1>2 DEF Writer, Putc, SendEvent, EventSend, Busy
<1>3. CASE TxThread
  BY <1>3 DEF TxThread, EventRecv, TestRing, BeginTestFull, EndTestFull, CheckConnected, SetBuffer,
     SetSize, SetRemain, FirstPacket, CompletionWait, WaitReturn, Busy
<1>4. CASE WaitTimeout  BY <1>4 DEF WaitTimeout, Busy
<1>5. CASE UsbdIn  BY <1>5 DEF UsbdIn, DataNotify, EpInHandler, CompletionDone, Busy
<1>6. CASE UsbdControl  BY <1>6 DEF UsbdControl
<1>7. CASE Host  BY <1>7 DEF Host, HostTakes, HostRestarts, HostSetsLine
<1> QED  BY <1>1, <1>2, <1>3, <1>4, <1>5, <1>6, <1>7 DEF Next, Usbd

LEMMA RingStep ==
    ASSUME TypeOK, RingInv, ChInv, Next \/ UNCHANGED vars
    PROVE  RingInv' /\ ChInv'
<1>1. CASE UNCHANGED <<put, ring, ch, res>> /\ (tpc' \in Busy => tpc \in Busy)
  BY <1>1 DEF RingInv, ChInv, Begin
<1>2. CASE \E w \in Writers : PutByte(w)
  <2>1. PutCharForce /\ UNCHANGED <<ch, res, tpc>>  BY <1>2 DEF PutByte, txVars
  <2>2. RingInv' /\ Begin \in Int /\ Begin' \in Int /\ Begin <= Begin'  BY <2>1, PutIs
  <2>3. PICK b, d : b = Begin /\ d = Begin'  OBVIOUS
  <2>4. ASSUME tpc \in Busy PROVE (ch[1] - 1) + res <= d
    <3>1. ch[1] - 1 \in Int /\ res \in Int /\ (ch[1] - 1) + res <= b  BY <2>3, <2>4, SizesAssumption DEF ChInv
    <3> QED  BY <3>1, <2>2, <2>3
  <2> QED  BY <2>1, <2>2, <2>3, <2>4 DEF ChInv
<1>3. CASE TakeBytes
  <2>1. PICK b, d, n : b = Begin /\ d = Begin' /\ n = res'  OBVIOUS
  <2>2. /\ RingInv' /\ b \in Nat /\ n \in 0..BulkMax /\ d = b + n
        /\ \A k \in 1..n : ch'[k] = b + k
        /\ tpc' = IF n = 0 THEN "test" ELSE "check"
    BY <2>1, <1>3, TakeIs
  <2>3. CASE n = 0  BY <2>2, <2>3 DEF ChInv, Busy
  <2>4. CASE n # 0
    <3>1. n \in 1..BulkMax /\ 1 \in 1..n  BY <2>2, <2>4, SizesAssumption
    <3>2. ch'[1] = b + 1  BY <3>1, <2>2
    <3>3. ch'[1] - 1 = b /\ ch'[1] \in Nat \ {0} /\ b + n <= d  BY <3>1, <3>2, <2>2
    <3> QED  BY <3>1, <3>3, <2>1, <2>2 DEF ChInv
  <2> QED  BY <2>3, <2>4
<1> QED  BY <1>1, <1>2, <1>3, RingKept

-----------------------------------------------------------------------------
(* The bytes on their way to the host.                                     *)

Idle == {"recv", "evtwait", "test", "testing", "get", "late"}
Waiting == {"waitcall", "wait"}

\* No wait was given up while its answer was due.
Prompt == ~HostStalls \/ "timeout" \notin hist

\* The bytes of the request that were handed to the controller, and those of them that the
\* host has not taken.
Gone == res - req.remain
Out == IF fifo = <<>> THEN 0 ELSE Len(fifo[1])

\* The core owes the thread an answer: a packet is to be taken or its notification handled.
Owed == fifo # <<>> \/ Queued("IN", mq)

\* At most one answer is owed, and only to a thread that waits for it; the flag is clear
\* before the request is made.
TokenInv ==
    /\ OneIn(mq)
    /\ fifo # <<>> => ~Queued("IN", mq)
    /\ Owed => tpc \in Waiting /\ ~done
    /\ tpc \in {"buffer", "size", "remain", "write"} => ~done

\* The request is the thread's alone until its first packet, and then stays within ch.
ReqInv ==
    /\ tpc = "size" => req.off = 0
    /\ tpc = "remain" => req.off = 0 /\ req.size = res
    /\ tpc = "write" => req.off = 0 /\ req.size = res /\ req.remain = res
    /\ tpc \in Waiting => /\ req.remain <= res
                          /\ req.size = res \/ (req.size = 0 /\ req.remain = 0)
                          /\ req.remain > 0 => req.off = Gone /\ req.off % MaxPacket = 0
    /\ "overrun" \notin hist

\* The packet in the FIFO holds the last bytes handed over.
Holds(p) ==
    /\ fifo = <<p>> /\ Len(p) <= Gone
    /\ \A i \in 1..Len(p) : p[i] = ch[(Gone - Len(p)) + i]
PacketInv == fifo = <<>> \/ \E p \in Seq(Nat) : Holds(p)

\* The bytes h are among the first x in order, once each; they are all of these.
Within(h, x) ==
    /\ h \in Seq(Nat)
    /\ \A k \in 1..Len(h) : h[k] \in 1..x
    /\ \A j, k \in 1..Len(h) : j < k => h[j] < h[k]
AllOf(h, x) == Len(h) = x /\ \A k \in 1..Len(h) : h[k] = k

\* The host has bytes up to those that wait in ch, in the FIFO or in the ring.
Reach ==
    IF tpc \in Waiting THEN (ch[1] - 1) + (Gone - Out)
    ELSE IF tpc \in Idle \cup {"ok"} THEN Begin
    ELSE ch[1] - 1
HostInv ==
    /\ Within(host, Reach)
    /\ hist = {} => AllOf(host, Reach) /\ (tpc \in Busy => (ch[1] - 1) + res = Begin)

\* The last d bytes the host has are the first of the request.
Ends(h, c, d) == d <= Len(h) /\ \A k \in 1..d : h[(Len(h) - d) + k] = c[k]
Delivered == Ends(host, ch, res) /\ last < MaxPacket

\* What is owed to the thread, or was told it, is that the host has the bytes handed over;
\* the last packet was a short one, or there is one more to come.
TailInv ==
    /\ tpc = "ok" => Delivered
    /\ tpc \in Waiting /\ done => req.remain = 0 /\ fifo = <<>> /\ Delivered
    /\ Owed => /\ Ends(host, ch, Gone - Out)
               /\ \/ (IF fifo = <<>> THEN last ELSE Out) < MaxPacket
                  \/ req.size = res /\ Gone % MaxPacket = 0

Flows == TokenInv /\ ReqInv /\ PacketInv /\ HostInv /\ TailInv

LEMMA WithinGrows ==
    ASSUME NEW h, NEW x \in Int, NEW y \in Int, Within(h, x), x <= y
    PROVE  Within(h, y)
  BY DEF Within

\* The host takes a packet that continues what it has.
LEMMA WithinTakes ==
    ASSUME NEW h, NEW x \in Nat, Within(h, x), NEW p \in Seq(Nat), \A i \in 1..Len(p) : p[i] = x + i,
           NEW e, e = h \o p
    PROVE  /\ Within(e, x + Len(p))
           /\ AllOf(h, x) => AllOf(e, x + Len(p))
           /\ \A c, d : /\ Ends(h, c, d) /\ d \in Nat /\ (\A i \in 1..Len(p) : p[i] = c[d + i])
                        => Ends(e, c, d + Len(p))
<1>1. h \in Seq(Nat) /\ Len(h) \in Nat /\ Len(p) \in Nat  BY LenProperties DEF Within
<1>2. /\ e \in Seq(Nat) /\ Len(e) = Len(h) + Len(p)
      /\ \A k \in 1..(Len(h) + Len(p)) : e[k] = IF k <= Len(h) THEN h[k] ELSE p[k - Len(h)]
  BY <1>1, ConcatProperties
<1>3. \A k \in 1..Len(h) : e[k] = h[k] /\ h[k] \in 1..x  BY <1>1, <1>2 DEF Within
<1>4. \A k \in 1..Len(e) : k \in 1..Len(h) \/ k - Len(h) \in 1..Len(p)  BY <1>1, <1>2
<1>5. \A i \in 1..Len(p) : Len(h) + i \in 1..Len(e) /\ e[Len(h) + i] = x + i
  <2>1. ASSUME NEW i \in 1..Len(p) PROVE Len(h) + i \in 1..Len(e) /\ e[Len(h) + i] = p[i]
    <3>1. Len(h) + i \in 1..(Len(h) + Len(p)) /\ ~(Len(h) + i <= Len(h)) /\ (Len(h) + i) - Len(h) = i
      BY <1>1
    <3> QED  BY <3>1, <1>2
  <2> QED  BY <2>1
<1>6. \A k \in 1..Len(e) : k \in 1..Len(h) \/ \E i \in 1..Len(p) : k = Len(h) + i /\ e[k] = x + i
  <2>1. ASSUME NEW k \in 1..Len(e), ~(k \in 1..Len(h))
        PROVE  \E i \in 1..Len(p) : k = Len(h) + i /\ e[k] = x + i
    <3>1. k - Len(h) \in 1..Len(p) /\ k = Len(h) + (k - Len(h))  BY <2>1, <1>1, <1>2, <1>4
    <3> QED  BY <3>1, <1>5
  <2> QED  BY <2>1
<1>7. ASSUME NEW k \in 1..Len(e) PROVE e[k] \in 1..(x + Len(p))
  <2>1. CASE k \in 1..Len(h)  BY <2>1, <1>1, <1>3
  <2>2. ASSUME NEW i \in 1..Len(p), e[k] = x + i PROVE e[k] \in 1..(x + Len(p))  BY <2>2, <1>1
  <2> QED  BY <2>1, <2>2, <1>6
<1>8. ASSUME NEW j \in 1..Len(e), NEW k \in 1..Len(e), j < k PROVE e[j] < e[k]
  <2>1. CASE k \in 1..Len(h)
    <3>1. j \in 1..Len(h)  BY <2>1, <1>8, <1>1
    <3> QED  BY <3>1, <2>1, <1>3, <1>8 DEF Within
  <2>2. ASSUME NEW i \in 1..Len(p), k = Len(h) + i, e[k] = x + i, j \in 1..Len(h) PROVE e[j] < e[k]
    <3>1. PICK y : y = e[j]  OBVIOUS
    <3>2. y \in 1..x /\ i \in Nat /\ i >= 1  BY <3>1, <2>2, <1>1, <1>3
    <3>3. y < x + i  BY <3>2
    <3> QED  BY <3>1, <3>3, <2>2
  <2>3. ASSUME NEW i \in 1..Len(p), k = Len(h) + i, e[k] = x + i,
               NEW m \in 1..Len(p), j = Len(h) + m, e[j] = x + m
        PROVE  e[j] < e[k]
    <3>1. m < i  BY <2>3, <1>8, <1>1
    <3> QED  BY <3>1, <2>3
  <2> QED  BY <2>1, <2>2, <2>3, <1>6
<1>9. ASSUME AllOf(h, x) PROVE AllOf(e, x + Len(p))
  <2>1. Len(h) = x /\ \A k \in 1..Len(h) : h[k] = k  BY <1>9 DEF AllOf
  <2>2. \A k \in 1..Len(e) : e[k] = k  BY <2>1, <1>3, <1>6
  <2> QED  BY <2>1, <2>2, <1>2 DEF AllOf
<1>10. ASSUME NEW c, NEW d \in Nat, Ends(h, c, d), \A i \in 1..Len(p) : p[i] = c[d + i]
       PROVE  Ends(e, c, d + Len(p))
  <2>1. d <= Len(h) /\ \A k \in 1..d : h[(Len(h) - d) + k] = c[k]  BY <1>10 DEF Ends
  <2>2. d + Len(p) <= Len(e) /\ Len(e) - (d + Len(p)) = Len(h) - d  BY <2>1, <1>1, <1>2
  <2>3. ASSUME NEW k \in 1..(d + Len(p)) PROVE e[(Len(h) - d) + k] = c[k]
    <3>1. CASE k <= d
      <4>1. k \in 1..d /\ (Len(h) - d) + k \in 1..Len(h)  BY <3>1, <2>1, <1>1
      <4> QED  BY <4>1, <2>1, <1>3
    <3>2. CASE ~(k <= d)
      <4>1. PICK i : i = k - d  OBVIOUS
      <4>2. i \in 1..Len(p) /\ d + i = k /\ (Len(h) - d) + k = Len(h) + i  BY <4>1, <3>2, <1>1
      <4>3. p[i] = c[d + i] /\ p[i] = x + i  BY <4>2, <1>10
      <4> QED  BY <4>2, <4>3, <1>5
    <3> QED  BY <3>1, <3>2
  <2> QED  BY <2>2, <2>3 DEF Ends
<1> QED  BY <1>2, <1>7, <1>8, <1>9, <1>10 DEF Within

-----------------------------------------------------------------------------
(* Every step keeps the flow, as long as no wait is given up early.        *)

LEMMA HistGrows ==
    ASSUME Next \/ UNCHANGED vars
    PROVE  hist \subseteq hist'
<1> USE DEF txVars, usbVars, hostVars, writerVars
<1>1. CASE UNCHANGED vars  BY <1>1 DEF vars
<1>2. CASE \E w \in Writers : Writer(w)  BY <1>2 DEF Writer, Putc, PutByte, PutCharForce, SendEvent
<1>3. CASE TxThread
  BY <1>3 DEF TxThread, EventRecv, TestRing, BeginTestFull, EndTestFull, TakeBytes, CheckConnected,
     SetBuffer, SetSize, SetRemain, FirstPacket, WritePacket, CompletionWait, WaitReturn
<1>4. CASE WaitTimeout  BY <1>4 DEF WaitTimeout
<1>5. CASE UsbdIn  BY <1>5 DEF UsbdIn, DataNotify, EpInHandler, WritePacket
<1>6. CASE UsbdControl  BY <1>6 DEF UsbdControl
<1>7. CASE Host  BY <1>7 DEF Host, HostTakes, HostRestarts, HostSetsLine
<1> QED  BY <1>1, <1>2, <1>3, <1>4, <1>5, <1>6, <1>7 DEF Next, Usbd

\* Steps that do not touch the stream.
LEMMA FlowsSame ==
    ASSUME Flows, UNCHANGED <<put, ring, ch, res, req, fifo, host, last, hist>>,
           Queued("IN", mq') = Queued("IN", mq), OneIn(mq'),
           UNCHANGED <<tpc, done>> \/ (tpc \in Idle \cup {"ok"} /\ tpc' \in Idle)
    PROVE  Flows'
<1>0. TokenInv /\ ReqInv /\ PacketInv /\ HostInv /\ TailInv  BY DEF Flows
<1>1. PICK g, d : g = Gone /\ d = Out  OBVIOUS
<1>2. Owed' = Owed /\ Gone' = g /\ Out' = d
  BY <1>1 DEF Owed, Gone, Out
<1>3. PacketInv'  BY <1>0 DEF PacketInv, Holds, Gone
<1>4. CASE UNCHANGED <<tpc, done>>
  <2>1. TokenInv'  BY <1>0, <1>2, <1>4 DEF TokenInv
  <2>2. ReqInv'  BY <1>0, <1>4 DEF ReqInv, Gone
  <2>3. PICK x : x = Reach  OBVIOUS
  <2>4. Reach' = x  BY <2>3, <1>4 DEF Reach, Begin, Gone, Out
  <2>5. HostInv'  BY <2>3, <2>4, <1>0, <1>4 DEF HostInv, Begin
  <2>6. TailInv'  BY <1>0, <1>1, <1>2, <1>4 DEF TailInv, Delivered
  <2> QED  BY <2>1, <2>2, <2>5, <2>6, <1>3 DEF Flows
<1>5. CASE tpc \in Idle \cup {"ok"} /\ tpc' \in Idle
  <2>1. /\ ~(tpc \in Waiting) /\ ~(tpc' \in Waiting) /\ ~(tpc' \in Busy)
        /\ tpc' \notin {"buffer", "size", "remain", "write", "ok"}
    BY <1>5 DEF Idle, Waiting, Busy
  <2>2. ~Owed /\ ~Owed'  BY <2>1, <1>0, <1>2 DEF TokenInv
  <2>3. TokenInv'  BY <2>1, <2>2, <1>0 DEF TokenInv, Owed
  <2>4. ReqInv'  BY <2>1, <1>0 DEF ReqInv
  <2>5. PICK x : x = Begin  OBVIOUS
  <2>6. Reach = x /\ Reach' = x  BY <2>1, <2>5, <1>5 DEF Reach, Begin
  <2>7. HostInv'  BY <2>1, <2>6, <1>0 DEF HostInv
  <2>8. TailInv'  BY <2>1, <2>2 DEF TailInv
  <2> QED  BY <2>3, <2>4, <2>7, <2>8, <1>3 DEF Flows
<1> QED  BY <1>4, <1>5

\* A byte is put; a full ring loses its oldest.
LEMMA FlowsPut ==
    ASSUME TypeOK, RingInv, Flows, NEW w \in Writers, PutByte(w)
    PROVE  Flows'
<1>0. TokenInv /\ ReqInv /\ PacketInv /\ HostInv /\ TailInv  BY DEF Flows
<1>1. PutCharForce /\ UNCHANGED <<tpc, done, mq, ch, res, req, fifo, host, last>>
  BY DEF PutByte, txVars, hostVars
<1>2. PICK b, c, x, y : b = Begin /\ c = Begin' /\ x = Reach /\ y = Reach'  OBVIOUS
<1>3. /\ b \in Int /\ c \in Int /\ b <= c
      /\ (hist' = hist /\ c = b) \/ hist' = hist \cup {"overflow"}
  BY <1>1, <1>2, PutIs
<1>4. TokenInv'  BY <1>0, <1>1 DEF TokenInv, Owed
<1>5. ReqInv'  BY <1>0, <1>1, <1>3 DEF ReqInv, Gone
<1>6. PacketInv'  BY <1>0, <1>1 DEF PacketInv, Holds, Gone
<1>7. TailInv'  BY <1>0, <1>1 DEF TailInv, Delivered, Owed, Gone, Out
<1>8. HostInv'
  <2>1. y = x \/ (x = b /\ y = c)
    <3>1. CASE tpc \in Waiting  BY <3>1, <1>1, <1>2 DEF Reach, Gone, Out
    <3>2. CASE tpc \notin Waiting  BY <3>2, <1>1, <1>2 DEF Reach
    <3> QED  BY <3>1, <3>2
  <2>2. Within(host, x)  BY <1>0, <1>2 DEF HostInv
  <2>3. Within(host, y)  BY <2>1, <2>2, <1>3, WithinGrows
  <2>4. ASSUME hist' = {} PROVE y = x /\ c = b /\ hist = {}  BY <2>1, <2>4, <1>3
  <2>5. hist = {} => AllOf(host, x) /\ (tpc \in Busy => (ch[1] - 1) + res = b)  BY <1>0, <1>2 DEF HostInv
  <2> QED  BY <2>3, <2>4, <2>5, <1>1, <1>2 DEF HostInv
<1> QED  BY <1>4, <1>5, <1>6, <1>7, <1>8 DEF Flows

\* The thread takes bytes from the ring.
LEMMA FlowsTake ==
    ASSUME TypeOK, RingInv, Flows, TakeBytes
    PROVE  Flows'
<1>0. TokenInv /\ ReqInv /\ PacketInv /\ HostInv /\ TailInv  BY DEF Flows
<1>1. tpc = "get" /\ UNCHANGED <<mq, fifo, hist, host, last>>  BY DEF TakeBytes, hostVars
<1>2. PICK b, d, n, f : b = Begin /\ d = Begin' /\ n = res' /\ f = ch'  OBVIOUS
<1>3. /\ b \in Nat /\ n \in 0..BulkMax /\ d = b + n
      /\ \A k \in 1..n : f[k] = b + k
      /\ tpc' = IF n = 0 THEN "test" ELSE "check"
  BY <1>2, TakeIs
<1>4. ~Owed /\ ~Owed'  BY <1>0, <1>1 DEF TokenInv, Waiting, Owed
<1>5. fifo' = <<>>  BY <1>1, <1>4 DEF Owed
<1>6. tpc' \in {"test", "check"} /\ tpc' \notin Waiting  BY <1>3 DEF Waiting
<1>7. TokenInv'  BY <1>0, <1>1, <1>4, <1>6 DEF TokenInv, Owed
<1>8. ReqInv'  BY <1>0, <1>1, <1>6 DEF ReqInv
<1>9. PacketInv'  BY <1>5 DEF PacketInv
<1>10. TailInv'  BY <1>4, <1>6 DEF TailInv
<1>11. Within(host, b) /\ (hist = {} => AllOf(host, b))
  BY <1>0, <1>1, <1>2 DEF HostInv, Reach, Idle, Waiting
<1>12. CASE n = 0
  <2>1. tpc' = "test" /\ d = b  BY <1>3, <1>12
  <2>2. Reach' = d  BY <2>1, <1>2 DEF Reach, Idle, Waiting
  <2>3. HostInv'  BY <2>1, <2>2, <1>1, <1>11 DEF HostInv, Busy
  <2> QED  BY <2>3, <1>7, <1>8, <1>9, <1>10 DEF Flows
<1>13. CASE n # 0
  <2>1. tpc' = "check" /\ 1 \in 1..n  BY <1>3, <1>13
  <2>2. f[1] - 1 = b  BY <2>1, <1>3
  <2>3. Reach' = b  BY <2>1, <2>2, <1>2 DEF Reach, Idle, Waiting
  <2>4. (ch'[1] - 1) + res' = Begin'  BY <2>2, <1>2, <1>3
  <2>5. HostInv'  BY <2>3, <2>4, <1>1, <1>11 DEF HostInv
  <2> QED  BY <2>5, <1>7, <1>8, <1>9, <1>10 DEF Flows
<1> QED  BY <1>12, <1>13

\* The bytes of a request in hand.
LEMMA ChIs ==
    ASSUME TypeOK, ChInv, tpc \in Busy
    PROVE  /\ ch[1] - 1 \in Nat /\ res \in 1..BulkMax /\ res \in Nat /\ Begin \in Int
           /\ (ch[1] - 1) + res <= Begin /\ \A k \in 1..res : ch[k] = (ch[1] - 1) + k
<1>1. Begin \in Int  BY LenProperties, SizesAssumption DEF Begin, TypeOK
<1> QED  BY <1>1, SizesAssumption DEF ChInv

Filling == {"check", "buffer", "size", "remain", "write"}

\* The thread fills in the request, or finds the port not connected.
LEMMA FlowsFill ==
    ASSUME Flows, tpc \in Filling, tpc' \in Filling, ReqInv', tpc' # "check" => ~done',
           UNCHANGED <<put, ring, ch, res, fifo, mq, host, last, hist>>
    PROVE  Flows'
<1>0. TokenInv /\ ReqInv /\ PacketInv /\ HostInv /\ TailInv  BY DEF Flows
<1>1. tpc \notin Waiting /\ tpc' \notin Waiting /\ tpc' # "ok"  BY DEF Filling, Waiting
<1>2. ~Owed /\ ~Owed'  BY <1>0, <1>1 DEF TokenInv, Owed
<1>3. TokenInv'  BY <1>0, <1>2 DEF TokenInv, Owed
<1>4. PacketInv'  BY <1>2 DEF PacketInv, Owed
<1>5. TailInv'  BY <1>1, <1>2 DEF TailInv
<1>6. PICK x : x = ch[1] - 1  OBVIOUS
<1>7. Reach = x /\ Reach' = x  BY <1>1, <1>6 DEF Reach, Filling, Idle, Waiting
<1>8. tpc \in Busy  BY DEF Filling, Busy
<1>9. HostInv'  BY <1>0, <1>7, <1>8 DEF HostInv, Begin
<1> QED  BY <1>3, <1>4, <1>5, <1>9 DEF Flows

LEMMA FlowsCheck ==
    ASSUME TypeOK, ChInv, Flows, CheckConnected
    PROVE  Flows'
<1>0. TokenInv /\ ReqInv /\ PacketInv /\ HostInv /\ TailInv  BY DEF Flows
<1> USE DEF txVars, hostVars, writerVars
<1>1. tpc = "check" /\ UNCHANGED <<put, ring, ch, res, req, fifo, mq, host, last>>  BY DEF CheckConnected
<1>2. CASE connected
  <2>1. tpc' = "buffer" /\ hist' = hist  BY <1>2 DEF CheckConnected
  <2>2. ReqInv'  BY <2>1, <1>0 DEF ReqInv, Waiting
  <2>3. ~done'  BY <1>2 DEF CheckConnected
  <2> QED  BY <2>1, <2>2, <2>3, <1>1, FlowsFill DEF Filling
<1>3. CASE ~connected
  <2>1. tpc' = "test" /\ hist' = hist \cup {"disconnected"}  BY <1>3 DEF CheckConnected
  <2>2. tpc \notin Waiting /\ tpc' \notin Waiting /\ tpc \in Busy  BY <2>1, <1>1 DEF Waiting, Busy
  <2>3. ~Owed /\ ~Owed'  BY <2>2, <1>0, <1>1 DEF TokenInv, Owed
  <2>4. TokenInv'  BY <2>1, <2>3, <1>0, <1>1 DEF TokenInv, Owed
  <2>5. ReqInv'  BY <2>1, <2>2, <1>0 DEF ReqInv
  <2>6. PacketInv'  BY <2>3 DEF PacketInv, Owed
  <2>7. TailInv'  BY <2>1, <2>2, <2>3 DEF TailInv
  <2>8. PICK b, x, n : b = Begin /\ x = ch[1] - 1 /\ n = res  OBVIOUS
  <2>9. x \in Nat /\ n \in Nat /\ b \in Int /\ x + n <= b  BY <2>2, <2>8, ChIs
  <2>10. Within(host, x)  BY <2>8, <1>0, <1>1 DEF HostInv, Reach, Idle, Waiting
  <2>11. x <= b  BY <2>9
  <2>12. Within(host, b)  BY <2>9, <2>10, <2>11, WithinGrows
  <2>13. Reach' = b  BY <2>1, <2>8, <1>1 DEF Reach, Idle, Waiting, Begin
  <2>14. HostInv'  BY <2>1, <2>12, <2>13, <1>1 DEF HostInv
  <2> QED  BY <2>4, <2>5, <2>6, <2>7, <2>14 DEF Flows
<1> QED  BY <1>2, <1>3

LEMMA FlowsSet ==
    ASSUME TypeOK, Flows, SetBuffer \/ SetSize \/ SetRemain
    PROVE  Flows'
<1>0. ReqInv /\ TokenInv  BY DEF Flows
<1> USE DEF txVars, hostVars, writerVars
<1>1. /\ UNCHANGED <<done, put, ring, ch, res, fifo, mq, host, last, hist>>
      /\ tpc \in Filling /\ tpc' \in Filling
  BY DEF SetBuffer, SetSize, SetRemain, Filling
<1>2. /\ tpc = "buffer" => req'.off = 0 /\ tpc' = "size"
      /\ tpc = "size" => req'.off = req.off /\ req'.size = res /\ tpc' = "remain"
      /\ tpc = "remain" => req'.off = req.off /\ req'.size = req.size /\ req'.remain = req.size /\ tpc' = "write"
      /\ tpc \in {"buffer", "size", "remain"}
  BY DEF SetBuffer, SetSize, SetRemain, TypeOK
<1>3. ReqInv'  BY <1>0, <1>1, <1>2 DEF ReqInv, Waiting
<1>4. ~done'  BY <1>0, <1>1, <1>2 DEF TokenInv
<1> QED  BY <1>1, <1>3, <1>4, FlowsFill

\* The packet in the FIFO, if there is one.
LEMMA OutIs ==
    ASSUME TypeOK, PacketInv
    PROVE  /\ Out \in Nat /\ (fifo = <<>> => Out = 0) /\ Gone \in Int
           /\ fifo # <<>> => /\ fifo[1] \in Seq(Nat) /\ Len(fifo[1]) = Out /\ fifo = <<fifo[1]>> /\ Out <= Gone
                             /\ \A i \in 1..Out : fifo[1][i] = ch[(Gone - Out) + i]
<1>1. CASE fifo = <<>>  BY <1>1, SizesAssumption DEF Out, Gone, TypeOK
<1>2. CASE fifo # <<>>
  <2>1. PICK p \in Seq(Nat) : Holds(p)  BY <1>2 DEF PacketInv
  <2>2. fifo = <<p>> /\ Len(p) <= Gone /\ \A i \in 1..Len(p) : p[i] = ch[(Gone - Len(p)) + i]
    BY <2>1 DEF Holds
  <2>3. fifo[1] = p  BY <2>2
  <2>4. Out = Len(p) /\ Len(p) \in Nat  BY <2>3, <1>2, LenProperties DEF Out
  <2>5. Gone \in Int  BY SizesAssumption DEF Gone, TypeOK
  <2> QED  BY <2>2, <2>3, <2>4, <2>5, <1>2
<1> QED  BY <1>1, <1>2

LEMMA FlowsWaits ==
    ASSUME TypeOK, ChInv, Flows, CompletionWait
    PROVE  Flows'
<1>0. TokenInv /\ ReqInv /\ PacketInv /\ HostInv /\ TailInv  BY DEF Flows
<1> USE DEF txVars, hostVars, writerVars
<1>1. /\ tpc = "waitcall" /\ tpc' = IF done THEN "ok" ELSE "wait"
      /\ UNCHANGED <<put, ring, ch, res, done, req, fifo, mq, host, last, hist>>
  BY DEF CompletionWait
<1>2. PacketInv'  BY <1>0, <1>1 DEF PacketInv, Holds, Gone
<1>3. CASE ~done
  <2>1. tpc' = "wait" /\ tpc \in Waiting /\ tpc' \in Waiting /\ tpc \in Busy  BY <1>1, <1>3 DEF Waiting, Busy
  <2>2. TokenInv'  BY <2>1, <1>0, <1>1 DEF TokenInv, Owed
  <2>3. ReqInv'  BY <2>1, <1>0, <1>1 DEF ReqInv, Gone
  <2>4. PICK x : x = Reach  OBVIOUS
  <2>5. Reach' = x  BY <2>1, <2>4, <1>1 DEF Reach, Gone, Out
  <2>6. HostInv'  BY <2>1, <2>4, <2>5, <1>0, <1>1 DEF HostInv, Begin
  <2>7. TailInv'  BY <2>1, <1>0, <1>1, <1>3 DEF TailInv, Owed, Gone, Out
  <2> QED  BY <2>2, <2>3, <2>6, <2>7, <1>2 DEF Flows
<1>4. CASE done
  <2>1. tpc' = "ok" /\ tpc \in Waiting /\ tpc' \notin Waiting /\ tpc \in Busy  BY <1>1, <1>4 DEF Waiting, Busy
  <2>2. ~Owed /\ ~Owed'  BY <1>0, <1>1, <1>4 DEF TokenInv, Owed
  <2>3. req.remain = 0 /\ fifo = <<>> /\ Delivered  BY <2>1, <1>0, <1>4 DEF TailInv
  <2>4. TokenInv'  BY <2>2, <1>0, <1>1 DEF TokenInv, Owed
  <2>5. ReqInv'  BY <2>1, <1>0, <1>1 DEF ReqInv
  <2>6. TailInv'  BY <2>1, <2>2, <2>3, <1>1 DEF TailInv, Delivered
  <2>7. PICK b, x, n : b = Begin /\ x = ch[1] - 1 /\ n = res  OBVIOUS
  <2>8. x \in Nat /\ n \in Nat /\ b \in Int /\ x + n <= b  BY <2>1, <2>7, ChIs
  <2>9. Reach = x + n  BY <2>1, <2>3, <2>7, <2>8 DEF Reach, Gone, Out
  <2>10. Reach' = b  BY <2>1, <2>7, <1>1 DEF Reach, Begin
  <2>11. Begin' = b  BY <2>7, <1>1 DEF Begin
  <2>12. Within(host, x + n) /\ (hist = {} => AllOf(host, x + n) /\ x + n = b)
    BY <2>1, <2>7, <2>9, <1>0 DEF HostInv
  <2>13. Within(host, b)
    <3>1. x + n \in Int  BY <2>8
    <3> QED  BY <3>1, <2>8, <2>12, WithinGrows
  <2>14. (ch'[1] - 1) + res' = x + n  BY <2>7, <1>1
  <2>15. HostInv'  BY <2>10, <2>11, <2>12, <2>13, <2>14, <1>1 DEF HostInv
  <2> QED  BY <2>4, <2>5, <2>6, <2>15, <1>2 DEF Flows
<1> QED  BY <1>3, <1>4

\* A wait that times out has no answer to come, if the host is prompt.
LEMMA FlowsTimeout ==
    ASSUME TypeOK, BusInv, ChInv, Flows, WaitTimeout, Prompt'
    PROVE  Flows'
<1>0. TokenInv /\ ReqInv /\ PacketInv /\ HostInv /\ TailInv  BY DEF Flows
<1> USE DEF txVars, hostVars, writerVars
<1>1. /\ tpc = "wait" /\ tpc' = "late" /\ hist' = hist \cup {"timeout"}
      /\ UNCHANGED <<put, ring, ch, res, done, req, fifo, mq, host, last>>
  BY DEF WaitTimeout
<1>2. ~AnswerDue  BY <1>1 DEF WaitTimeout, Prompt
<1>3. Queued("IN", mq) => configured  BY DEF BusInv, Queued
<1>4. ~Owed /\ ~Owed' /\ fifo = <<>>  BY <1>1, <1>2, <1>3 DEF AnswerDue, Owed
<1>5. tpc \in Waiting /\ tpc' \notin Waiting /\ tpc \in Busy /\ tpc' \in Idle  BY <1>1 DEF Waiting, Busy, Idle
<1>6. TokenInv'  BY <1>0, <1>1, <1>4 DEF TokenInv, Owed
<1>7. ReqInv'  BY <1>0, <1>1, <1>5 DEF ReqInv
<1>8. PacketInv'  BY <1>1, <1>4 DEF PacketInv
<1>9. TailInv'  BY <1>1, <1>4, <1>5 DEF TailInv
<1>10. PICK b, x, n, m : b = Begin /\ x = ch[1] - 1 /\ n = res /\ m = req.remain  OBVIOUS
<1>11. /\ x \in Nat /\ n \in Nat /\ b \in Int /\ x + n <= b /\ m \in Nat /\ m <= n
  <2>1. x \in Nat /\ n \in Nat /\ b \in Int /\ x + n <= b  BY <1>5, <1>10, ChIs
  <2>2. m \in Nat  BY <1>10, SizesAssumption DEF TypeOK
  <2>3. m <= n  BY <1>0, <1>5, <1>10 DEF ReqInv
  <2> QED  BY <2>1, <2>2, <2>3
<1>12. Reach = x + (n - m)  BY <1>4, <1>5, <1>10, <1>11 DEF Reach, Gone, Out
<1>13. Reach' = b  BY <1>1, <1>5, <1>10 DEF Reach, Begin
<1>14. Within(host, b)
  <2>1. Within(host, x + (n - m))  BY <1>0, <1>12 DEF HostInv
  <2>2. x + (n - m) \in Int /\ x + (n - m) <= b  BY <1>11
  <2> QED  BY <2>1, <2>2, <1>11, WithinGrows
<1>15. HostInv'  BY <1>1, <1>13, <1>14 DEF HostInv
<1> QED  BY <1>6, <1>7, <1>8, <1>9, <1>15 DEF Flows

\* A restart empties the FIFO and is noted in the history if the host was listening.
LEMMA FlowsRestart ==
    ASSUME TypeOK, BusInv, ChInv, Flows, NEW m \in Restarts, HostRestarts(m)
    PROVE  Flows'
<1>0. TokenInv /\ ReqInv /\ PacketInv /\ HostInv /\ TailInv  BY DEF Flows
<1> USE DEF txVars, hostVars, writerVars
<1>1. /\ fifo' = <<>> /\ hist' = IF bus = "on" THEN hist \cup {"restart"} ELSE hist
      /\ UNCHANGED <<put, ring, ch, res, req, tpc, done, host, last>>
  BY DEF HostRestarts
<1>2. Queued("IN", mq') = Queued("IN", mq) /\ OneIn(mq')
  <2>1. m \in Message /\ m # "IN" /\ mq \in Seq(Message) /\ Signal(m)
    BY DEF Restarts, Message, HostRestarts, TypeOK
  <2> QED  BY <2>1, <1>0, SignalKeepsIn DEF TokenInv
<1>3. Owed' => Owed /\ fifo = <<>>  BY <1>0, <1>1, <1>2 DEF Owed, TokenInv
<1>4. TokenInv'  BY <1>0, <1>1, <1>2, <1>3 DEF TokenInv
<1>5. ReqInv'  BY <1>0, <1>1 DEF ReqInv, Gone
<1>6. PacketInv'  BY <1>1 DEF PacketInv
<1>7. TailInv'  BY <1>0, <1>1, <1>3 DEF TailInv, Delivered, Gone, Out
<1>8. PICK x, y, d, g : x = Reach /\ y = Reach' /\ d = Out /\ g = Gone  OBVIOUS
<1>9. d \in Nat /\ (fifo = <<>> => d = 0) /\ g \in Int /\ Gone' = g /\ Out' = 0
  BY <1>0, <1>1, <1>8, OutIs DEF Gone, Out
<1>10. y = x \/ /\ tpc \in Waiting /\ x = (ch[1] - 1) + (g - d) /\ y = (ch[1] - 1) + g
                /\ fifo # <<>>
  <2>1. CASE tpc \in Waiting
    <3>1. x = (ch[1] - 1) + (g - d) /\ y = (ch[1] - 1) + (g - 0)
      BY <2>1, <1>1, <1>8, <1>9 DEF Reach
    <3> QED  BY <3>1, <2>1, <1>9
  <2>2. CASE tpc \notin Waiting  BY <2>2, <1>1, <1>8 DEF Reach, Begin
  <2> QED  BY <2>1, <2>2
<1>11. Within(host, y)
  <2>1. Within(host, x)  BY <1>0, <1>8 DEF HostInv
  <2>2. CASE tpc \in Waiting /\ x = (ch[1] - 1) + (g - d) /\ y = (ch[1] - 1) + g
    <3>1. tpc \in Busy  BY <2>2 DEF Waiting, Busy
    <3>2. ch[1] - 1 \in Nat  BY <3>1, ChIs
    <3>3. x \in Int /\ y \in Int /\ x <= y  BY <3>2, <2>2, <1>9
    <3> QED  BY <3>3, <2>1, WithinGrows
  <2> QED  BY <2>1, <2>2, <1>10
<1>12. hist' = {} => hist = {} /\ y = x  BY <1>1, <1>10 DEF BusInv
<1>13. Begin' = Begin  BY <1>1 DEF Begin
<1>14. HostInv'  BY <1>0, <1>1, <1>8, <1>11, <1>12, <1>13 DEF HostInv
<1> QED  BY <1>4, <1>5, <1>6, <1>7, <1>14 DEF Flows

\* The packet that is sent next of a request.
PacketLen(r) == IF r.remain >= MaxPacket THEN MaxPacket ELSE r.remain

LEMMA PacketIs ==
    ASSUME TypeOK, NEW r \in [off : Nat, size : 0..BulkMax, remain : 0..BulkMax], WritePacket(r),
           fifo = <<>>, NEW n, n = PacketLen(r)
    PROVE  /\ n \in Nat /\ n <= r.remain /\ (n = MaxPacket \/ (n < MaxPacket /\ n = r.remain))
           /\ req'.size = r.size /\ req'.remain = r.remain - n
           /\ n = MaxPacket => req'.off = r.off + n
           /\ r.off + n <= BulkMax => hist' = hist
           /\ bus # "on" => fifo' = <<>>
           /\ bus = "on" => \E p \in Seq(Nat) :
                 /\ fifo' = <<p>> /\ Len(p) = n
                 /\ \A k \in 1..n : r.off + k <= BulkMax => p[k] = ch[r.off + k]
<1>1. r.remain \in Nat /\ r.off \in Nat /\ MaxPacket \in Nat \ {0} /\ BulkMax \in Nat \ {0}
  BY SizesAssumption
<1>2. n \in Nat /\ n <= r.remain /\ (n = MaxPacket \/ (n < MaxPacket /\ n = r.remain))
  BY <1>1 DEF PacketLen
<1>3. /\ Transmit(Slice(r.off, n))
      /\ req' = [r EXCEPT !.remain = r.remain - n,
                          !.off = IF n = MaxPacket THEN r.off + n ELSE r.off]
      /\ hist' = IF r.off + n > BulkMax THEN hist \cup {"overrun"} ELSE hist
  BY DEF WritePacket, PacketLen
<1>4. /\ req'.size = r.size /\ req'.remain = r.remain - n /\ (n = MaxPacket => req'.off = r.off + n)
  BY <1>3
<1>5. r.off + n <= BulkMax => hist' = hist  BY <1>1, <1>2, <1>3
<1>6. PICK p : p = Slice(r.off, n)  OBVIOUS
<1>7. p \in Seq(Nat) /\ Len(p) = n /\ \A k \in 1..n : r.off + k <= BulkMax => p[k] = ch[r.off + k]
  <2>1. p = [k \in 1..n |-> IF r.off + k <= BulkMax THEN ch[r.off + k] ELSE 0]  BY <1>6 DEF Slice
  <2>2. ASSUME NEW k \in 1..n PROVE (IF r.off + k <= BulkMax THEN ch[r.off + k] ELSE 0) \in Nat
    <3>1. r.off + k <= BulkMax => r.off + k \in 1..BulkMax  BY <1>1, <1>2
    <3>2. r.off + k <= BulkMax => ch[r.off + k] \in 0..MaxBytes  BY <3>1 DEF TypeOK
    <3> QED  BY <3>2, SizesAssumption
  <2>3. p \in [1..n -> Nat]  BY <2>1, <2>2
  <2>4. p \in Seq(Nat) /\ Len(p) = n  BY <2>3, <1>2
  <2> QED  BY <2>1, <2>4
<1>8. bus # "on" => fifo' = <<>>  BY <1>3 DEF Transmit
<1>9. bus = "on" => fifo' = <<p>>
  <2>1. Append(<<>>, p) = <<p>>  OBVIOUS
  <2> QED  BY <2>1, <1>3, <1>6 DEF Transmit
<1> QED  BY <1>2, <1>4, <1>5, <1>7, <1>8, <1>9

\* The next packet of a request, g bytes of which the host has taken, is handed over.
LEMMA FlowsPacket ==
    ASSUME TypeOK, ChInv, Flows, tpc \in Busy, tpc' \in Waiting, ~done', fifo = <<>>,
           ~Queued("IN", mq'), OneIn(mq'), UNCHANGED <<put, ring, ch, res, host, last>>,
           NEW r \in [off : Nat, size : 0..BulkMax, remain : 0..BulkMax], WritePacket(r),
           NEW g \in 0..res, r.remain = res - g,
           r.remain > 0 => r.off = g /\ g % MaxPacket = 0 /\ r.size = res,
           r.remain = 0 => r.off <= BulkMax /\ r.size \in {0, res},
           Reach = (ch[1] - 1) + g, Ends(host, ch, g), hist = {} => bus = "on"
    PROVE  Flows'
<1>0. TokenInv /\ ReqInv /\ PacketInv /\ HostInv /\ TailInv  BY DEF Flows
<1>1. PICK n : n = PacketLen(r)  OBVIOUS
<1>2. /\ n \in Nat /\ n <= r.remain /\ (n = MaxPacket \/ (n < MaxPacket /\ n = r.remain))
      /\ req'.size = r.size /\ req'.remain = r.remain - n
      /\ n = MaxPacket => req'.off = r.off + n
      /\ r.off + n <= BulkMax => hist' = hist
      /\ bus # "on" => fifo' = <<>>
      /\ bus = "on" => \E p \in Seq(Nat) :
            /\ fifo' = <<p>> /\ Len(p) = n
            /\ \A k \in 1..n : r.off + k <= BulkMax => p[k] = ch[r.off + k]
  BY <1>1, PacketIs
<1>3. /\ res \in 1..BulkMax /\ ch[1] - 1 \in Nat /\ g \in Nat /\ BulkMax \in Nat /\ res \in Nat
      /\ MaxPacket \in Nat \ {0} /\ r.remain \in Nat /\ r.off \in Nat
  BY ChIs, SizesAssumption
<1>4. r.off + n <= BulkMax
  <2>1. CASE r.remain > 0
    <3>1. r.off = g /\ n <= res - g  BY <2>1, <1>2
    <3> QED  BY <3>1, <1>2, <1>3
  <2>2. CASE r.remain = 0
    <3>1. n = 0 /\ r.off <= BulkMax  BY <2>2, <1>2, <1>3
    <3> QED  BY <3>1, <1>3
  <2> QED  BY <2>1, <2>2, <1>3
<1>5. hist' = hist  BY <1>2, <1>4
<1>6. Gone' = g + n
  <2>1. Gone' = res - (r.remain - n)  BY <1>2 DEF Gone
  <2> QED  BY <2>1, <1>2, <1>3
<1>7. n = MaxPacket => r.size = res /\ r.off = g /\ (g + n) % MaxPacket = 0
  <2>1. ASSUME n = MaxPacket PROVE r.size = res /\ r.off = g /\ g % MaxPacket = 0
    <3>1. r.remain > 0  BY <2>1, <1>2, <1>3
    <3> QED  BY <3>1
  <2>2. ASSUME n = MaxPacket, g % MaxPacket = 0 PROVE (g + n) % MaxPacket = 0
    <3>1. PICK q : q = 1  OBVIOUS
    <3>2. q \in Int /\ g \in Int  BY <3>1, <1>3
    <3>3. (q * MaxPacket + g) % MaxPacket = g % MaxPacket  BY <3>2, <1>3, ModPlusMultiple
    <3>4. q * MaxPacket + g = g + n  BY <3>1, <2>2, <1>3
    <3> QED  BY <3>3, <3>4, <2>2
  <2> QED  BY <2>1, <2>2
<1>8. tpc' \notin {"buffer", "size", "remain", "write", "ok"}  BY DEF Waiting
<1>9. TokenInv'  BY <1>8 DEF TokenInv, Owed
<1>10. ReqInv'
  <2>1. req'.remain <= res'  BY <1>2, <1>3
  <2>2. req'.size = res' \/ (req'.size = 0 /\ req'.remain = 0)
    <3>1. CASE r.remain > 0  BY <3>1, <1>2
    <3>2. CASE r.remain = 0
      <4>1. req'.remain = 0 /\ req'.size \in {0, res}  BY <3>2, <1>2, <1>3
      <4> QED  BY <4>1
    <3> QED  BY <3>1, <3>2, <1>3
  <2>3. ASSUME req'.remain > 0 PROVE req'.off = Gone' /\ req'.off % MaxPacket = 0
    <3>1. n # r.remain  BY <2>3, <1>2, <1>3
    <3>2. n = MaxPacket  BY <3>1, <1>2
    <3>3. req'.off = g + n  BY <3>2, <1>2, <1>7
    <3> QED  BY <3>2, <3>3, <1>6, <1>7
  <2>4. "overrun" \notin hist'  BY <1>0, <1>5 DEF ReqInv
  <2>5. tpc' \notin {"size", "remain", "write"}  BY <1>8
  <2> QED  BY <2>1, <2>2, <2>3, <2>4, <2>5 DEF ReqInv
<1>11. /\ PacketInv' /\ Out' \in Nat /\ Out' <= g + n /\ (hist = {} \/ fifo' # <<>> => Out' = n)
       /\ g <= (g + n) - Out'
  <2>1. CASE bus # "on"
    <3>1. fifo' = <<>> /\ hist # {}  BY <2>1, <1>2
    <3>2. Out' = 0  BY <3>1 DEF Out
    <3> QED  BY <3>1, <3>2, <1>2, <1>3 DEF PacketInv
  <2>2. CASE bus = "on"
    <3>1. PICK p \in Seq(Nat) :
            /\ fifo' = <<p>> /\ Len(p) = n
            /\ \A k \in 1..n : r.off + k <= BulkMax => p[k] = ch[r.off + k]
      BY <2>2, <1>2
    <3>2. fifo'[1] = p /\ fifo' # <<>>  BY <3>1
    <3>3. Out' = n  BY <3>1, <3>2 DEF Out
    <3>4. \A i \in 1..n : p[i] = ch[g + i]
      <4>1. ASSUME NEW i \in 1..n PROVE p[i] = ch[g + i]
        <5>1. r.remain > 0  BY <4>1, <1>2, <1>3
        <5>2. r.off = g /\ g + i <= BulkMax  BY <5>1, <4>1, <1>2, <1>3, <1>4
        <5> QED  BY <5>2, <4>1, <3>1
      <4> QED  BY <4>1
    <3>5. Len(p) <= g + n /\ (g + n) - Len(p) = g  BY <3>1, <1>2, <1>3
    <3>6. Holds(p)'  BY <3>1, <3>4, <3>5, <1>6 DEF Holds
    <3>7. PacketInv'  BY <3>6 DEF PacketInv
    <3>8. PICK d : d = Out'  OBVIOUS
    <3>9. d = n /\ d \in Nat /\ d <= g + n /\ g <= (g + n) - d  BY <3>3, <3>8, <1>2, <1>3
    <3> QED  BY <3>3, <3>7, <3>8, <3>9
  <2> QED  BY <2>1, <2>2
<1>12. PICK x, y, d, b : x = ch[1] - 1 /\ y = Reach' /\ d = Out' /\ b = Begin  OBVIOUS
<1>13. y = x + ((g + n) - d)  BY <1>6, <1>12 DEF Reach
<1>14. x \in Nat /\ d \in Nat /\ d <= g + n /\ g <= (g + n) - d /\ (hist = {} \/ fifo' # <<>> => d = n)
  BY <1>3, <1>11, <1>12
<1>15. HostInv'
  <2>1. Within(host, x + g) /\ (hist = {} => AllOf(host, x + g) /\ x + res = b)
    BY <1>0, <1>12 DEF HostInv
  <2>2. x + g \in Int /\ y \in Int /\ x + g <= y  BY <1>3, <1>2, <1>13, <1>14
  <2>3. Within(host, y)  BY <2>1, <2>2, WithinGrows
  <2>4. hist = {} => y = x + g  BY <1>2, <1>3, <1>13, <1>14
  <2>5. Begin' = b  BY <1>12 DEF Begin
  <2>6. hist' = {} => AllOf(host, y) /\ (ch'[1] - 1) + res' = Begin'  BY <2>1, <2>4, <2>5, <1>5, <1>12
  <2> QED  BY <2>3, <2>6, <1>12 DEF HostInv
<1>16. TailInv'
  <2>1. ASSUME Owed'
        PROVE  /\ Ends(host', ch', Gone' - Out')
               /\ \/ (IF fifo' = <<>> THEN last' ELSE Out') < MaxPacket
                  \/ req'.size = res' /\ Gone' % MaxPacket = 0
    <3>1. fifo' # <<>>  BY <2>1 DEF Owed
    <3>2. d = n /\ Gone' - Out' = g
      <4>1. (g + n) - n = g  BY <1>2, <1>3
      <4> QED  BY <4>1, <3>1, <1>6, <1>12, <1>14
    <3>3. n < MaxPacket \/ (req'.size = res' /\ Gone' % MaxPacket = 0)  BY <1>2, <1>6, <1>7
    <3> QED  BY <3>1, <3>2, <3>3, <1>12
  <2> QED  BY <2>1, <1>8 DEF TailInv
<1> QED  BY <1>9, <1>10, <1>11, <1>15, <1>16 DEF Flows

LEMMA FlowsFirst ==
    ASSUME TypeOK, ConnInv, ChInv, Flows, FirstPacket
    PROVE  Flows'
<1>0. TokenInv /\ ReqInv /\ PacketInv /\ HostInv /\ TailInv  BY DEF Flows
<1>1. /\ tpc = "write" /\ tpc' = "waitcall" /\ WritePacket(req)
      /\ UNCHANGED <<put, ring, ch, res, host, last, done, mq>>
  BY DEF FirstPacket, txVars, hostVars, writerVars
<1>2. tpc \in Busy /\ tpc \notin Waiting /\ tpc' \in Waiting /\ tpc \in Sending
  BY <1>1 DEF Busy, Waiting, Sending
<1>3. fifo = <<>> /\ ~Queued("IN", mq) /\ OneIn(mq) /\ ~done  BY <1>0, <1>1, <1>2 DEF TokenInv, Owed
<1>4. ~Queued("IN", mq') /\ OneIn(mq') /\ ~done'  BY <1>1, <1>3
<1>5. req.off = 0 /\ req.size = res /\ req.remain = res  BY <1>0, <1>1 DEF ReqInv
<1>6. res \in 1..BulkMax /\ res \in Nat /\ ch[1] - 1 \in Nat  BY <1>2, ChIs
<1>7. Reach = ch[1] - 1  BY <1>1 DEF Reach, Waiting, Idle
<1>8. PICK g \in 0..res : g = 0  BY <1>6
<1>9. Reach = (ch[1] - 1) + g /\ req.remain = res - g  BY <1>5, <1>6, <1>7, <1>8
<1>10. Ends(host, ch, g)
  <2>1. Len(host) \in Nat  BY <1>0, LenProperties DEF HostInv, Within
  <2> QED  BY <2>1, <1>8 DEF Ends
<1>11. g % MaxPacket = 0  BY <1>8, SizesAssumption, ModSmall
<1>12. hist = {} => bus = "on"  BY <1>2 DEF ConnInv
<1>13. req \in [off : Nat, size : 0..BulkMax, remain : 0..BulkMax] /\ ~(req.remain = 0)
  BY <1>5, <1>6 DEF TypeOK
<1>14. req.off = g  BY <1>5, <1>8
<1> QED  BY <1>1, <1>2, <1>3, <1>4, <1>5, <1>9, <1>10, <1>11, <1>12, <1>13, <1>14, FlowsPacket

\* A notification finds the thread waiting for it: the next packet, the empty one that ends
\* the transfer, or the answer to the thread.
LEMMA FlowsNotify ==
    ASSUME TypeOK, BusInv, ConnInv, ChInv, Flows, UsbdIn
    PROVE  Flows'
<1>0. TokenInv /\ ReqInv /\ PacketInv /\ HostInv /\ TailInv  BY DEF Flows
<1>1. /\ mq # <<>> /\ Head(mq) = "IN" /\ mq' = Tail(mq) /\ mq \in Seq(Message) /\ DataNotify
      /\ UNCHANGED <<put, ring, ch, res, host, last>>
  BY DEF UsbdIn, txVars, hostVars, writerVars, TypeOK
<1>2. Queued("IN", mq) /\ OneIn(mq) /\ OneIn(mq') /\ ~Queued("IN", mq')
  BY <1>0, <1>1, TakenKeepsIn DEF TokenInv
<1>3. configured  BY <1>2 DEF BusInv, Queued
<1>4. Owed /\ fifo = <<>> /\ tpc \in Waiting /\ ~done  BY <1>0, <1>2 DEF TokenInv, Owed
<1>5. tpc \in Busy /\ tpc \in Sending  BY <1>4 DEF Waiting, Busy, Sending
<1>6. /\ res \in 1..BulkMax /\ res \in Nat /\ ch[1] - 1 \in Nat /\ Begin \in Int
      /\ (ch[1] - 1) + res <= Begin /\ MaxPacket \in Nat \ {0} /\ BulkMax \in Nat /\ req.remain \in Nat
  BY <1>5, ChIs, SizesAssumption DEF TypeOK
<1>7. /\ req.remain <= res /\ (req.size = res \/ (req.size = 0 /\ req.remain = 0))
      /\ req.remain > 0 => req.off = Gone /\ req.off % MaxPacket = 0
  BY <1>0, <1>4 DEF ReqInv
<1>8. PICK g \in 0..res : g = res - req.remain /\ req.remain = res - g  BY <1>6, <1>7
<1>9. Gone = g /\ Out = 0  BY <1>4, <1>8 DEF Gone, Out
<1>10. Reach = (ch[1] - 1) + g
  <2>1. Reach = (ch[1] - 1) + (g - 0)  BY <1>4, <1>9 DEF Reach
  <2>2. g - 0 = g  BY <1>6
  <2> QED  BY <2>1, <2>2
<1>11. Ends(host, ch, g)
  <2>1. g - 0 = g  BY <1>6
  <2> QED  BY <2>1, <1>0, <1>4, <1>9 DEF TailInv
<1>12. hist = {} => bus = "on"  BY <1>5 DEF ConnInv
<1>13. CASE req.remain > 0
  <2>1. WritePacket(req) /\ UNCHANGED <<done, tpc>>  BY <1>1, <1>3, <1>13, <1>6 DEF DataNotify
  <2>2. req \in [off : Nat, size : 0..BulkMax, remain : 0..BulkMax] /\ ~(req.remain = 0)
    BY <1>13, <1>6 DEF TypeOK
  <2>3. req.off = g /\ g % MaxPacket = 0 /\ req.size = res  BY <2>2, <1>7, <1>9, <1>13
  <2>4. tpc' \in Waiting /\ ~done'  BY <2>1, <1>4
  <2> QED  BY <2>1, <2>2, <2>3, <2>4, <1>1, <1>2, <1>4, <1>5, <1>8, <1>10, <1>11, <1>12, FlowsPacket
<1>14. CASE req.remain = 0 /\ req.size # 0 /\ req.size % MaxPacket = 0
  <2>1. PICK r : r = [off |-> Null, size |-> 0, remain |-> 0]  OBVIOUS
  <2>2. WritePacket(r) /\ UNCHANGED <<done, tpc>>  BY <2>1, <1>1, <1>3, <1>14 DEF DataNotify, EpInHandler
  <2>3. r \in [off : Nat, size : 0..BulkMax, remain : 0..BulkMax]  BY <2>1, <1>6 DEF Null
  <2>4. r.off = BulkMax /\ r.size = 0 /\ r.remain = 0  BY <2>1 DEF Null
  <2>5. /\ r.remain = res - g /\ ~(r.remain > 0) /\ r.off <= BulkMax /\ r.size \in {0, res}
    BY <2>4, <1>6, <1>8, <1>14
  <2>6. tpc' \in Waiting /\ ~done'  BY <2>2, <1>4
  <2> QED  BY <2>2, <2>3, <2>5, <2>6, <1>1, <1>2, <1>4, <1>5, <1>10, <1>11, <1>12, FlowsPacket
<1>15. CASE req.remain = 0 /\ ~(req.size # 0 /\ req.size % MaxPacket = 0)
  <2>1. CompletionDone /\ UNCHANGED <<req, fifo, hist>>
    BY <1>1, <1>3, <1>15 DEF DataNotify, EpInHandler
  <2>2. done' = TRUE /\ tpc' = IF tpc = "wait" THEN "ok" ELSE tpc  BY <2>1, <1>4 DEF CompletionDone
  <2>3. g = res  BY <1>6, <1>8, <1>15
  <2>4. last < MaxPacket
    <3>1. ~(req.size = res /\ Gone % MaxPacket = 0)  BY <2>3, <1>6, <1>9, <1>15
    <3> QED  BY <3>1, <1>0, <1>4 DEF TailInv
  <2>5. Delivered /\ Delivered'  BY <2>3, <2>4, <1>1, <1>11 DEF Delivered
  <2>6. ~Owed' /\ fifo' = <<>> /\ req'.remain = 0  BY <2>1, <1>2, <1>4, <1>15 DEF Owed
  <2>7. tpc' \in {"ok", "waitcall"}  BY <2>2, <1>4 DEF Waiting
  <2>8. TokenInv'  BY <2>6, <2>7, <1>2 DEF TokenInv, Owed
  <2>9. ReqInv'
    <3>1. tpc' \notin {"size", "remain", "write"} /\ ~(req'.remain > 0)  BY <2>6, <2>7
    <3> QED  BY <3>1, <2>1, <1>0, <1>1, <1>7 DEF ReqInv
  <2>10. PacketInv'  BY <2>6 DEF PacketInv
  <2>11. TailInv'  BY <2>5, <2>6 DEF TailInv
  <2>12. PICK b, x, y : b = Begin /\ x = ch[1] - 1 /\ y = Reach'  OBVIOUS
  <2>13. Begin' = b  BY <2>12, <1>1 DEF Begin
  <2>14. y = x + res \/ y = b
    <3>1. CASE tpc' = "ok"  BY <3>1, <2>12, <2>13 DEF Reach, Waiting
    <3>2. CASE tpc' = "waitcall"
      <4>1. y = (ch'[1] - 1) + ((res' - 0) - 0)  BY <3>2, <2>6, <2>12 DEF Reach, Waiting, Gone, Out
      <4> QED  BY <4>1, <2>12, <1>1, <1>6
    <3> QED  BY <3>1, <3>2, <2>7
  <2>15. Within(host, x + res) /\ (hist = {} => AllOf(host, x + res) /\ x + res = b)
    BY <2>3, <2>12, <1>0, <1>5, <1>10 DEF HostInv
  <2>16. x + res \in Int /\ b \in Int /\ x + res <= b  BY <2>12, <1>6
  <2>17. Within(host, y)  BY <2>14, <2>15, <2>16, WithinGrows
  <2>18. hist' = {} => AllOf(host, y) /\ (ch'[1] - 1) + res' = Begin'
    BY <2>1, <2>12, <2>13, <2>14, <2>15, <1>1
  <2>19. HostInv'  BY <2>12, <2>17, <2>18, <1>1 DEF HostInv
  <2> QED  BY <2>8, <2>9, <2>10, <2>11, <2>19 DEF Flows
<1>16. req.remain > 0 \/ req.remain = 0  BY <1>6
<1> QED  BY <1>13, <1>14, <1>15, <1>16

\* The host takes the packet; its notification may be lost in a full queue.
LEMMA FlowsTaken ==
    ASSUME TypeOK, ChInv, Flows, HostTakes
    PROVE  Flows'
<1>0. TokenInv /\ ReqInv /\ PacketInv /\ HostInv /\ TailInv  BY DEF Flows
<1>1. /\ fifo # <<>> /\ host' = host \o Head(fifo) /\ last' = Len(Head(fifo)) /\ fifo' = Tail(fifo)
      /\ Signal("IN") /\ UNCHANGED <<put, ring, ch, res, req, tpc, done, hist>>
  BY DEF HostTakes, txVars, writerVars
<1>2. PICK p, d, g, x : p = fifo[1] /\ d = Out /\ g = Gone /\ x = ch[1] - 1  OBVIOUS
<1>3. /\ p \in Seq(Nat) /\ Len(p) = d /\ fifo = <<p>> /\ d \in Nat /\ g \in Int /\ d <= g
      /\ \A i \in 1..d : p[i] = ch[(g - d) + i]
  BY <1>0, <1>1, <1>2, OutIs
<1>4. Head(fifo) = p /\ fifo' = <<>>  BY <1>1, <1>3
<1>5. Owed /\ tpc \in Waiting /\ ~done /\ ~Queued("IN", mq)  BY <1>0, <1>1 DEF Owed, TokenInv
<1>6. tpc \in Busy /\ tpc \notin {"buffer", "size", "remain", "write", "ok"}  BY <1>5 DEF Busy, Waiting
<1>7. OneIn(mq')  BY <1>1, <1>5, SignalKeepsIn DEF TypeOK, Message
<1>8. Gone' = g /\ Out' = 0  BY <1>1, <1>2, <1>4 DEF Gone, Out
<1>9. TokenInv'  BY <1>1, <1>4, <1>5, <1>6, <1>7 DEF TokenInv
<1>10. ReqInv'  BY <1>0, <1>1 DEF ReqInv, Gone
<1>11. PacketInv'  BY <1>4 DEF PacketInv
<1>12. x \in Nat /\ res \in Nat /\ g <= res /\ \A k \in 1..res : ch[k] = x + k
  <2>1. x \in Nat /\ res \in Nat /\ \A k \in 1..res : ch[k] = x + k  BY <1>2, <1>6, ChIs
  <2>2. g = res - req.remain /\ req.remain \in Nat  BY <1>2, SizesAssumption DEF Gone, TypeOK
  <2> QED  BY <2>1, <2>2
<1>13. PICK e, t : e = host' /\ t = x + (g - d)  OBVIOUS
<1>14. t \in Nat /\ g - d \in Nat /\ t + d = x + g /\ (g - d) + d = g  BY <1>3, <1>12, <1>13
<1>15. \A i \in 1..Len(p) : p[i] = t + i
  <2>1. ASSUME NEW i \in 1..d PROVE p[i] = t + i
    <3>1. (g - d) + i \in 1..res /\ x + ((g - d) + i) = t + i  BY <1>3, <1>12, <1>13, <1>14
    <3> QED  BY <3>1, <1>3, <1>12
  <2> QED  BY <2>1, <1>3
<1>16. Reach = t  BY <1>2, <1>5, <1>13 DEF Reach
<1>17. Within(host, t) /\ (hist = {} => AllOf(host, t) /\ x + res = Begin)
  BY <1>0, <1>2, <1>6, <1>16 DEF HostInv
<1>18. e = host \o p  BY <1>1, <1>4, <1>13
<1>19. /\ Within(e, t + Len(p)) /\ (AllOf(host, t) => AllOf(e, t + Len(p)))
       /\ Ends(host, ch, g - d) => Ends(e, ch, (g - d) + Len(p))
  <2>1. PICK c, m : c = ch /\ m = g - d  OBVIOUS
  <2>2. m \in Nat /\ \A i \in 1..Len(p) : p[i] = c[m + i]  BY <2>1, <1>3, <1>14
  <2>3. /\ Within(e, t + Len(p)) /\ (AllOf(host, t) => AllOf(e, t + Len(p)))
        /\ Ends(host, c, m) => Ends(e, c, m + Len(p))
    BY <2>2, <1>3, <1>14, <1>15, <1>17, <1>18, WithinTakes
  <2> QED  BY <2>1, <2>3
<1>20. Reach' = x + g
  <2>1. Reach' = (ch'[1] - 1) + (g - 0)  BY <1>1, <1>5, <1>8 DEF Reach
  <2> QED  BY <2>1, <1>1, <1>2, <1>3
<1>21. Begin' = Begin  BY <1>1 DEF Begin
<1>22. Within(e, x + g) /\ (AllOf(host, t) => AllOf(e, x + g))  BY <1>3, <1>14, <1>19
<1>23. hist' = {} => AllOf(e, x + g) /\ (ch'[1] - 1) + res' = Begin'  BY <1>1, <1>2, <1>17, <1>21, <1>22
<1>24. HostInv'  BY <1>13, <1>20, <1>22, <1>23 DEF HostInv
<1>25. Ends(host, ch, g - d) /\ (d < MaxPacket \/ (req.size = res /\ g % MaxPacket = 0))
  BY <1>0, <1>1, <1>2, <1>5 DEF TailInv
<1>26. Ends(e, ch, g)  BY <1>3, <1>14, <1>19, <1>25
<1>27. TailInv'
  <2>1. Ends(host', ch', Gone' - Out')
    <3>1. g - 0 = g  BY <1>3
    <3> QED  BY <3>1, <1>1, <1>8, <1>13, <1>26
  <2>2. last' = d  BY <1>1, <1>3, <1>4
  <2> QED  BY <2>1, <2>2, <1>1, <1>4, <1>5, <1>6, <1>8, <1>25 DEF TailInv
<1> QED  BY <1>9, <1>10, <1>11, <1>24, <1>27 DEF Flows

-----------------------------------------------------------------------------
StreamInv == Prompt => Flows
VInv == TypeOK /\ BusInv /\ ConnInv /\ RingInv /\ ChInv /\ StreamInv

LEMMA FlowsStep ==
    ASSUME VInv, Next \/ UNCHANGED vars
    PROVE  StreamInv'
<1> SUFFICES ASSUME Prompt' PROVE Flows'
  BY DEF StreamInv
<1>1. Prompt  BY HistGrows DEF Prompt
<1>2. TypeOK /\ BusInv /\ ConnInv /\ RingInv /\ ChInv /\ Flows  BY <1>1 DEF VInv, StreamInv
<1>3. OneIn(mq) /\ mq \in Seq(Message)  BY <1>2 DEF Flows, TokenInv, TypeOK
<1> USE DEF txVars, usbVars, hostVars, writerVars
<1>4. ASSUME UNCHANGED <<put, ring, ch, res, req, fifo, host, last, hist, mq>>,
             UNCHANGED <<tpc, done>> \/ (tpc \in Idle \cup {"ok"} /\ tpc' \in Idle)
      PROVE  Flows'
  BY <1>2, <1>3, <1>4, FlowsSame
<1>5. CASE UNCHANGED vars  BY <1>4, <1>5 DEF vars
<1>6. ASSUME NEW w \in Writers, NEW newline \in BOOLEAN, Putc(w, newline) PROVE Flows'  BY <1>4, <1>6 DEF Putc
<1>7. ASSUME NEW w \in Writers, PutByte(w) PROVE Flows'  BY <1>2, <1>7, FlowsPut
<1>8. ASSUME NEW w \in Writers, SendEvent(w) PROVE Flows'  BY <1>4, <1>8 DEF SendEvent, EventSend, Idle
<1>9. CASE EventRecv \/ TestRing \/ BeginTestFull \/ EndTestFull \/ WaitReturn
  <2>1. UNCHANGED <<put, ring, ch, res, req, fifo, host, last, hist, mq>>
    BY <1>9 DEF EventRecv, TestRing, BeginTestFull, EndTestFull, WaitReturn
  <2>2. tpc \in Idle \cup {"ok"} /\ tpc' \in Idle
    BY <1>9 DEF EventRecv, TestRing, BeginTestFull, EndTestFull, WaitReturn, Idle
  <2> QED  BY <2>1, <2>2, <1>4
<1>10. CASE TakeBytes  BY <1>2, <1>10, FlowsTake
<1>11. CASE CheckConnected  BY <1>2, <1>11, FlowsCheck
<1>12. CASE SetBuffer \/ SetSize \/ SetRemain  BY <1>2, <1>12, FlowsSet
<1>13. CASE FirstPacket  BY <1>2, <1>13, FlowsFirst
<1>14. CASE CompletionWait  BY <1>2, <1>14, FlowsWaits
<1>15. CASE WaitTimeout  BY <1>2, <1>15, FlowsTimeout
<1>16. CASE UsbdIn  BY <1>2, <1>16, FlowsNotify
<1>17. CASE UsbdControl
  <2>1. /\ mq # <<>> /\ Head(mq) # "IN" /\ mq' = Tail(mq)
        /\ UNCHANGED <<put, ring, ch, res, req, fifo, host, last, hist, tpc, done>>
    BY <1>17 DEF UsbdControl
  <2>2. Queued("IN", mq') = Queued("IN", mq) /\ OneIn(mq')  BY <2>1, <1>3, TakenKeepsIn
  <2> QED  BY <2>1, <2>2, <1>2, FlowsSame
<1>18. CASE HostTakes  BY <1>2, <1>18, FlowsTaken
<1>19. ASSUME NEW m \in Restarts, HostRestarts(m) PROVE Flows'  BY <1>2, <1>19, FlowsRestart
<1>20. ASSUME NEW m \in {"DTR_ON", "DTR_OFF"}, HostSetsLine(m) PROVE Flows'
  <2>1. Signal(m) /\ UNCHANGED <<put, ring, ch, res, req, fifo, host, last, hist, tpc, done>>
    BY <1>20 DEF HostSetsLine
  <2>2. m \in Message /\ m # "IN"  BY <1>20 DEF Message
  <2>3. Queued("IN", mq') = Queued("IN", mq) /\ OneIn(mq')  BY <2>1, <2>2, <1>3, SignalKeepsIn
  <2> QED  BY <2>1, <2>3, <1>2, FlowsSame
<1> QED
  BY <1>5, <1>6, <1>7, <1>8, <1>9, <1>10, <1>11, <1>12, <1>13, <1>14, <1>15, <1>16, <1>17, <1>18,
     <1>19, <1>20 DEF Next, Writer, TxThread, Usbd, Host, Restarts

LEMMA InitVInv == Init => VInv
<1> SUFFICES ASSUME Init PROVE VInv
  OBVIOUS
<1>1. TypeOK  BY InitIInv DEF IInv
<1>2. mq = <<>> /\ Len(mq) = 0 /\ ring = <<>> /\ Len(ring) = 0 /\ host = <<>> /\ Len(host) = 0
  BY DEF Init
<1>3. ~ \E k \in 1..0 : TRUE  OBVIOUS
<1>4. ~Queued("IN", mq) /\ ~Queued("DTR_ON", mq) /\ OneIn(mq)  BY <1>2, <1>3 DEF Queued, OneIn
<1>5. tpc = "recv" /\ fifo = <<>> /\ hist = {} /\ bus = "off" /\ ~connected /\ put = 0  BY DEF Init
<1>6. tpc \notin Waiting /\ tpc \notin Busy /\ tpc \notin Sending /\ tpc \in Idle
  BY <1>5 DEF Waiting, Busy, Sending, Idle
<1>7. BusInv  BY <1>2, <1>3, <1>5 DEF BusInv
<1>8. ConnInv  BY <1>4, <1>5, <1>6 DEF ConnInv
<1>9. RingInv /\ ChInv  BY <1>2, <1>3, <1>6 DEF RingInv, ChInv
<1>10. ~Owed  BY <1>4, <1>5 DEF Owed
<1>11. TokenInv  BY <1>4, <1>5, <1>10 DEF TokenInv
<1>12. ReqInv /\ PacketInv  BY <1>5, <1>6 DEF ReqInv, PacketInv
<1>13. TailInv  BY <1>5, <1>6, <1>10 DEF TailInv
<1>14. Reach = 0
  <2>1. PICK n, p : n = Len(ring) /\ p = put  OBVIOUS
  <2>2. n = 0 /\ p = 0  BY <2>1, <1>2, <1>5
  <2>3. Begin = p - n  BY <2>1 DEF Begin
  <2>4. p - n = 0  BY <2>2
  <2> QED  BY <2>3, <2>4, <1>6 DEF Reach
<1>15. host \in Seq(Nat)  BY <1>2
<1>16. HostInv  BY <1>2, <1>3, <1>6, <1>14, <1>15 DEF HostInv, Within, AllOf
<1> QED  BY <1>1, <1>7, <1>8, <1>9, <1>11, <1>12, <1>13, <1>16 DEF VInv, StreamInv, Flows

LEMMA AlwaysVInv == Spec => []VInv
<1>1. Init => VInv  BY InitVInv
<1>2. VInv /\ [Next]_vars => VInv'
  BY NextType, BusStep, ConnStep, RingStep, FlowsStep DEF VInv
<1> QED  BY <1>1, <1>2, PTL DEF Spec

-----------------------------------------------------------------------------
(* What that says of the stream.                                           *)

\* The n bytes after the first a.
Span(s, a, n) == s \in Seq(Nat) /\ Len(s) = n /\ \A k \in 1..n : s[k] = a + k

LEMMA SpanJoin ==
    ASSUME NEW a \in Nat, NEW n \in Nat, NEW m \in Nat, NEW s, NEW t, Span(s, a, n), Span(t, a + n, m),
           NEW u, u = s \o t
    PROVE  Span(u, a, n + m)
<1>1. /\ s \in Seq(Nat) /\ t \in Seq(Nat) /\ Len(s) = n /\ Len(t) = m
      /\ \A k \in 1..n : s[k] = a + k
      /\ \A k \in 1..m : t[k] = (a + n) + k
  BY DEF Span
<1>2. /\ u \in Seq(Nat) /\ Len(u) = n + m
      /\ \A k \in 1..(n + m) : u[k] = IF k <= n THEN s[k] ELSE t[k - n]
  <2>1. /\ u \in Seq(Nat) /\ Len(u) = Len(s) + Len(t)
        /\ \A k \in 1..(Len(s) + Len(t)) : u[k] = IF k <= Len(s) THEN s[k] ELSE t[k - Len(s)]
    BY <1>1, ConcatProperties
  <2> QED  BY <2>1, <1>1
<1>3. ASSUME NEW k \in 1..(n + m) PROVE u[k] = a + k
  <2>1. CASE k <= n
    <3>1. k \in 1..n  BY <2>1
    <3> QED  BY <3>1, <2>1, <1>1, <1>2
  <2>2. CASE ~(k <= n)
    <3>1. PICK i : i = k - n  OBVIOUS
    <3>2. i \in 1..m /\ (a + n) + i = a + k  BY <3>1, <2>2
    <3> QED  BY <3>1, <3>2, <2>2, <1>1, <1>2
  <2> QED  BY <2>1, <2>2
<1> QED  BY <1>2, <1>3 DEF Span

LEMMA SpanIs ==
    ASSUME NEW n \in Nat, NEW s, Span(s, 0, n)
    PROVE  s = [k \in 1..n |-> k]
<1>1. s \in Seq(Nat) /\ Len(s) = n /\ \A k \in 1..n : s[k] = k  BY DEF Span
<1>2. s = [k \in 1..n |-> s[k]]  BY <1>1
<1> QED  BY <1>1, <1>2

\* Where the host's bytes end.
LEMMA ReachIs ==
    ASSUME VInv, Flows
    PROVE  Begin \in Nat /\ Reach \in Int /\ Reach <= Begin /\ Begin <= put
<1>0. TokenInv /\ ReqInv /\ PacketInv /\ HostInv /\ TailInv /\ TypeOK /\ RingInv /\ ChInv  BY DEF Flows, VInv
<1>1. PICK p, g, b : p = put /\ g = ring /\ b = Begin  OBVIOUS
<1>2. /\ p \in Nat /\ g \in Seq(1..MaxBytes) /\ Len(g) \in Nat /\ b = p - Len(g)
      /\ \A k \in 1..Len(g) : g[k] = b + k /\ g[k] \in 1..MaxBytes
  <2>1. p \in Nat /\ g \in Seq(1..MaxBytes) /\ b = p - Len(g)
    BY <1>0, <1>1, SizesAssumption DEF TypeOK, Begin
  <2>2. \A k \in 1..Len(g) : g[k] = b + k  BY <1>0, <1>1 DEF RingInv
  <2> QED  BY <2>1, <2>2, ElementOfSeq, LenProperties
<1>3. b \in Nat /\ b <= p
  <2>1. CASE Len(g) = 0  BY <2>1, <1>2
  <2>2. CASE Len(g) # 0
    <3>1. 1 \in 1..Len(g)  BY <2>2, <1>2
    <3>2. b + 1 \in 1..MaxBytes  BY <3>1, <1>2
    <3> QED  BY <3>2, <1>2
  <2> QED  BY <2>1, <2>2
<1>4. CASE tpc \in Waiting
  <2>1. tpc \in Busy  BY <1>4 DEF Waiting, Busy
  <2>2. PICK x, d, h : x = ch[1] - 1 /\ d = Out /\ h = Gone  OBVIOUS
  <2>3. x \in Nat /\ res \in Nat /\ x + res <= b  BY <2>1, <2>2, <1>0, <1>1, ChIs
  <2>4. d \in Nat /\ h \in Int  BY <2>2, <1>0, OutIs
  <2>5. h = res - req.remain /\ req.remain \in Nat  BY <2>2, <1>0, SizesAssumption DEF Gone, TypeOK
  <2>6. Reach = x + (h - d)  BY <2>2, <1>4 DEF Reach
  <2> QED  BY <2>3, <2>4, <2>5, <2>6, <1>1, <1>3
<1>5. CASE tpc \notin Waiting /\ tpc \in Idle \cup {"ok"}  BY <1>1, <1>3, <1>5 DEF Reach
<1>6. CASE tpc \notin Waiting /\ tpc \notin Idle \cup {"ok"}
  <2>1. tpc \in Busy  BY <1>0, <1>6 DEF Waiting, Busy, Idle, TypeOK, TxPlaces
  <2>2. PICK x : x = ch[1] - 1  OBVIOUS
  <2>3. x \in Nat /\ res \in Nat /\ x + res <= b  BY <2>1, <2>2, <1>0, <1>1, ChIs
  <2>4. Reach = x  BY <2>2, <1>6 DEF Reach
  <2> QED  BY <2>3, <2>4, <1>1, <1>3
<1> QED  BY <1>4, <1>5, <1>6

\* The bytes in flight go from those the host has to those in the ring.
LEMMA InFlightIs ==
    ASSUME VInv, Flows, hist = {}
    PROVE  \E n \in Nat : Span(InFlight, Reach, n) /\ Reach + n = Begin
<1>0. TokenInv /\ ReqInv /\ PacketInv /\ HostInv /\ TailInv /\ TypeOK /\ RingInv /\ ChInv  BY DEF Flows, VInv
<1>1. PICK f, x, b, y : f = InFlight /\ x = ch[1] - 1 /\ b = Begin /\ y = Reach  OBVIOUS
<1>2. b \in Nat /\ y \in Int /\ (tpc \in Busy => x + res = b)  BY <1>0, <1>1, ReachIs DEF HostInv
<1>3. tpc \in Busy => x \in Nat /\ res \in 1..BulkMax /\ res \in Nat /\ \A k \in 1..res : ch[k] = x + k
  BY <1>0, <1>1, ChIs
<1>4. CASE tpc \in Filling
  <2>1. tpc \in Busy /\ tpc \notin Waiting /\ tpc \notin Idle \cup {"ok"}
    BY <1>4 DEF Busy, Filling, Waiting, Idle
  <2>2. y = x  BY <2>1, <1>1 DEF Reach
  <2>3. f = SubSeq(ch, 1, res)  BY <1>1, <1>4 DEF InFlight, Filling
  <2>4. ch \in Seq(Nat) /\ Len(ch) = BulkMax /\ BulkMax \in Nat
    <3>1. ch \in [1..BulkMax -> Nat] /\ BulkMax \in Nat  BY <1>0, SizesAssumption DEF TypeOK
    <3> QED  BY <3>1
  <2>5. \A k \in 1..res : ch[k] \in Nat  BY <2>1, <1>3
  <2>6. f \in Seq(Nat) /\ Len(f) = res /\ \A k \in 1..res : f[k] = ch[k]
    <3>1. 1 \in 1..(Len(ch) + 1) /\ res \in 0..Len(ch)  BY <2>1, <2>4, <1>3
    <3>2. f = [k \in 1..res |-> ch[k]]  BY <2>1, <2>3, <2>4, <1>3
    <3>3. f \in [1..res -> Nat]  BY <3>2, <2>5
    <3> QED  BY <3>2, <3>3, <2>1, <1>3
  <2>7. Span(f, y, res)  BY <2>1, <2>2, <2>6, <1>3 DEF Span
  <2> QED  BY <2>1, <2>2, <2>7, <1>1, <1>2, <1>3
<1>5. CASE tpc \in Waiting
  <2>1. tpc \in Busy  BY <1>5 DEF Busy, Waiting
  <2>2. PICK d, g, m, p, q : /\ d = Out /\ g = Gone /\ m = req.remain
                             /\ p = (IF fifo = <<>> THEN <<>> ELSE Head(fifo)) /\ q = Slice(req.off, req.remain)
    OBVIOUS
  <2>3. f = p \o q  BY <2>2, <1>1, <1>5 DEF InFlight, Waiting
  <2>4. y = x + (g - d)  BY <2>2, <1>1, <1>5 DEF Reach
  <2>5. /\ m \in Nat /\ g = res - m /\ m <= res /\ d \in Nat /\ (fifo = <<>> => d = 0)
        /\ fifo # <<>> => fifo[1] \in Seq(Nat) /\ Len(fifo[1]) = d /\ d <= g
                          /\ (\A i \in 1..d : fifo[1][i] = ch[(g - d) + i])
    <3>1. m \in Nat /\ g = res - m  BY <2>2, <1>0, SizesAssumption DEF TypeOK, Gone
    <3>2. m <= res  BY <2>2, <1>0, <1>5 DEF ReqInv
    <3> QED  BY <3>1, <3>2, <2>2, <1>0, OutIs
  <2>6. /\ x \in Nat /\ res \in Nat /\ res <= BulkMax /\ BulkMax \in Nat /\ x + res = b
        /\ g \in Nat /\ d <= g /\ y \in Nat /\ y + d = x + g /\ (x + g) + m = b /\ g + m = res
    <3>1. x \in Nat /\ res \in Nat /\ res <= BulkMax /\ BulkMax \in Nat /\ x + res = b
      BY <2>1, <1>2, <1>3, SizesAssumption
    <3>2. g \in Nat /\ d <= g /\ g + m = res  BY <3>1, <2>5
    <3> QED  BY <3>1, <3>2, <2>4, <2>5
  <2>7. Span(p, y, d)
    <3>1. CASE fifo = <<>>
      <4>1. p = <<>> /\ d = 0 /\ p \in Seq(Nat) /\ Len(p) = 0  BY <3>1, <2>2, <2>5
      <4> QED  BY <4>1 DEF Span
    <3>2. CASE fifo # <<>>
      <4>1. p = fifo[1]  BY <3>2, <2>2, <1>0 DEF PacketInv, Holds
      <4>2. \A i \in 1..d : (g - d) + i \in 1..res /\ x + ((g - d) + i) = y + i
        <5>1. g - d \in Nat /\ (g - d) + d <= res /\ y = x + (g - d)  BY <2>4, <2>5, <2>6
        <5> QED  BY <5>1, <2>5, <2>6
      <4>3. \A i \in 1..d : p[i] = y + i  BY <4>1, <4>2, <3>2, <2>1, <2>5, <1>3
      <4> QED  BY <4>1, <4>3, <3>2, <2>5 DEF Span
    <3> QED  BY <3>1, <3>2
  <2>8. Span(q, y + d, m)
    <3>1. q = [k \in 1..m |-> IF req.off + k <= BulkMax THEN ch[req.off + k] ELSE 0]  BY <2>2 DEF Slice
    <3>2. ASSUME NEW k \in 1..m PROVE q[k] = (y + d) + k
      <4>1. m > 0  BY <3>2, <2>5
      <4>2. req.off = g  BY <4>1, <2>2, <1>0, <1>5 DEF ReqInv
      <4>3. g + k \in 1..res /\ g + k <= BulkMax /\ x + (g + k) = (y + d) + k
        BY <3>2, <2>5, <2>6
      <4>4. q[k] = ch[g + k]  BY <4>2, <4>3, <3>1
      <4> QED  BY <4>3, <4>4, <2>1, <1>3
    <3>3. \A k \in 1..m : (y + d) + k \in Nat  BY <2>5, <2>6
    <3>4. q \in [1..m -> Nat]  BY <3>1, <3>2, <3>3
    <3>5. q \in Seq(Nat) /\ Len(q) = m  BY <3>1, <3>4, <2>5
    <3> QED  BY <3>2, <3>5 DEF Span
  <2>9. Span(f, y, d + m)  BY <2>3, <2>5, <2>6, <2>7, <2>8, SpanJoin
  <2>10. d + m \in Nat /\ y + (d + m) = b  BY <2>5, <2>6
  <2> QED  BY <2>9, <2>10, <1>1
<1>6. CASE tpc \notin Filling /\ tpc \notin Waiting
  <2>1. tpc \in Idle \cup {"ok"}  BY <1>0, <1>6 DEF Filling, Waiting, Idle, TypeOK, TxPlaces
  <2>2. f = <<>> /\ y = b  BY <2>1, <1>1, <1>6 DEF InFlight, Reach, Filling, Waiting
  <2>3. f \in Seq(Nat) /\ Len(f) = 0  BY <2>2
  <2>4. Span(f, y, 0) /\ y + 0 = b  BY <2>2, <2>3, <1>2 DEF Span
  <2> QED  BY <2>4, <1>1
<1> QED  BY <1>4, <1>5, <1>6

LEMMA FlowsInOrder ==
    ASSUME VInv, Prompt
    PROVE  InOrder
<1>0. Flows /\ HostInv /\ PacketInv /\ TypeOK /\ RingInv  BY DEF VInv, StreamInv, Flows
<1>1. PICK b, y, h, l : b = Begin /\ y = Reach /\ h = host /\ l = Len(ring)  OBVIOUS
<1>2. /\ b \in Nat /\ y \in Int /\ y <= b /\ b <= put /\ put \in Nat /\ l \in Nat /\ b = put - l
  BY <1>0, <1>1, ReachIs, LenProperties, SizesAssumption DEF TypeOK, Begin
<1>3. Within(h, y)  BY <1>0, <1>1 DEF HostInv
<1>4. h \in Seq(Nat) /\ Len(h) \in Nat  BY <1>3, LenProperties DEF Within
<1>5. \A k \in 1..Len(host) : host[k] \in 1..put
  <2>1. Within(h, put)
    <3>1. y <= put /\ put \in Int  BY <1>2
    <3> QED  BY <3>1, <1>2, <1>3, WithinGrows
  <2> QED  BY <2>1, <1>1 DEF Within
<1>6. \A j, k \in 1..Len(host) : j < k => host[j] < host[k]  BY <1>1, <1>3 DEF Within
<1>7. Len(fifo) <= 1
  <2>1. fifo = <<>> \/ \E p : fifo = <<p>>  BY <1>0 DEF PacketInv, Holds
  <2>2. Len(<<>>) = 0 /\ \A p : Len(<<p>>) = 1  OBVIOUS
  <2>3. Len(fifo) \in {0, 1}  BY <2>1, <2>2
  <2> QED  BY <2>3
<1>8. ASSUME hist = {} PROVE host \o InFlight \o ring = [k \in 1..put |-> k]
  <2>1. PICK f, u, v, g : f = InFlight /\ u = h \o f /\ v = u \o g /\ g = ring  OBVIOUS
  <2>2. PICK n \in Nat : Span(f, y, n) /\ y + n = b  BY <2>1, <1>0, <1>1, <1>8, InFlightIs
  <2>3. AllOf(h, y)  BY <1>0, <1>1, <1>8 DEF HostInv
  <2>4. y \in Nat /\ Span(h, 0, y)
    <3>1. Len(h) = y /\ \A k \in 1..Len(h) : h[k] = k  BY <2>3 DEF AllOf
    <3>2. \A k \in 1..Len(h) : 0 + k = k  BY <1>4
    <3> QED  BY <3>1, <3>2, <1>4 DEF Span
  <2>5. Span(g, b, l)
    <3>1. g \in Seq(Nat)
      <4>1. g \in Seq(1..MaxBytes)  BY <2>1, <1>0 DEF TypeOK
      <4>2. \A k \in 1..Len(g) : g[k] \in Nat  BY <4>1, ElementOfSeq, SizesAssumption
      <4> QED  BY <4>1, <4>2, SeqMonotonic
    <3>2. Len(g) = l /\ \A k \in 1..l : g[k] = b + k  BY <2>1, <1>0, <1>1 DEF RingInv
    <3> QED  BY <3>1, <3>2 DEF Span
  <2>6. 0 + y = y /\ 0 + (y + n) = b /\ (y + n) + l = put /\ y + n \in Nat  BY <2>2, <2>4, <1>2
  <2>7. Span(u, 0, y + n)
    <3>1. Span(f, 0 + y, n)  BY <2>2, <2>6
    <3> QED  BY <3>1, <2>1, <2>4, SpanJoin
  <2>8. Span(v, 0, (y + n) + l)
    <3>1. Span(g, 0 + (y + n), l)  BY <2>5, <2>6
    <3> QED  BY <3>1, <2>1, <2>6, <2>7, <1>2, SpanJoin
  <2>9. v = [k \in 1..put |-> k]  BY <2>6, <2>8, <1>2, SpanIs
  <2> QED  BY <2>1, <2>9, <1>1
<1> QED  BY <1>5, <1>6, <1>7, <1>8 DEF InOrder

LEMMA FlowsDelivered ==
    ASSUME VInv, Prompt
    PROVE  DoneMeansDelivered
<1> SUFFICES ASSUME tpc = "ok"
             PROVE  /\ res <= Len(host) /\ last < MaxPacket
                    /\ SubSeq(host, Len(host) - res + 1, Len(host)) = SubSeq(ch, 1, res)
  BY DEF DoneMeansDelivered
<1>0. Flows /\ HostInv /\ TailInv /\ TypeOK /\ ChInv  BY DEF VInv, StreamInv, Flows
<1>1. Delivered  BY <1>0 DEF TailInv
<1>2. PICK h, n, c : h = host /\ n = Len(host) /\ c = ch  OBVIOUS
<1>3. h \in Seq(Nat) /\ Len(h) = n /\ n \in Nat  BY <1>0, <1>2, LenProperties DEF HostInv, Within
<1>4. res <= n /\ \A k \in 1..res : h[(n - res) + k] = c[k]  BY <1>1, <1>2 DEF Delivered, Ends
<1>5. res \in Nat /\ res \in 1..BulkMax /\ BulkMax \in Nat  BY <1>0, ChIs, SizesAssumption DEF Busy
<1>6. c \in Seq(Nat) /\ Len(c) = BulkMax
  <2>1. c \in [1..BulkMax -> Nat]  BY <1>0, <1>2, SizesAssumption DEF TypeOK
  <2> QED  BY <2>1, <1>5
<1>7. PICK s, t : s = SubSeq(h, (n - res) + 1, n) /\ t = SubSeq(c, 1, res)  OBVIOUS
<1>8. Len(s) = res /\ s \in Seq(Nat) /\ \A k \in 1..res : s[k] = h[(n - res) + k]
  <2>1. PICK d : d = n - res  OBVIOUS
  <2>2. d \in 0..Len(h) /\ Len(h) - d = res  BY <2>1, <1>3, <1>4, <1>5
  <2>3. /\ SubSeq(h, d + 1, Len(h)) \in Seq(Nat) /\ Len(SubSeq(h, d + 1, Len(h))) = Len(h) - d
        /\ \A k \in 1..(Len(h) - d) : SubSeq(h, d + 1, Len(h))[k] = h[d + k]
    BY <2>2, <1>3, RestIs
  <2> QED  BY <2>1, <2>2, <2>3, <1>3, <1>7
<1>9. t = [k \in 1..res |-> c[k]]  BY <1>5, <1>6, <1>7
<1>10. \A k \in 1..res : s[k] = c[k]  BY <1>4, <1>8
<1>11. s = [k \in 1..res |-> s[k]]  BY <1>8
<1>12. s = t  BY <1>9, <1>10, <1>11
<1>13. last < MaxPacket  BY <1>1 DEF Delivered
<1> QED  BY <1>2, <1>4, <1>7, <1>12, <1>13

\* With a host that takes its packets before VCOM_TX_TIMEOUT: whatever is lost to overflow, a
\* dropped DTR, bus resets and lost notifications, no byte reaches the host twice, out of
\* order, or unput; and none is lost at all while the history is empty.
THEOREM BytesSentInOrder ==
    ASSUME HostStalls = FALSE
    PROVE  Spec => []InOrder
<1>1. VInv => InOrder  BY FlowsInOrder DEF Prompt
<1> QED  BY <1>1, AlwaysVInv, PTL

\* With such a host rt_completion_wait returns RT_EOK only when the host has the whole
\* request and its transfer was ended by a short packet.
THEOREM DoneWhenDelivered ==
    ASSUME HostStalls = FALSE
    PROVE  Spec => []DoneMeansDelivered
<1>1. VInv => DoneMeansDelivered  BY FlowsDelivered DEF Prompt
<1> QED  BY <1>1, AlwaysVInv, PTL

\* Whatever the host does, the core reads past ch only after a wait has timed out.
THEOREM OverrunOnlyLate == Spec => []OverrunNeedsTimeout
<1>1. VInv => OverrunNeedsTimeout  BY DEF VInv, StreamInv, Flows, ReqInv, Prompt, OverrunNeedsTimeout
<1> QED  BY <1>1, AlwaysVInv, PTL

=============================================================================
