------------------------------- MODULE VcomTx --------------------------------
(***************************************************************************)
(* The transmit path of the USB virtual COM port.                          *)
(*                                                                         *)
(*   writers    threads printing to the port: _vcom_putc puts a byte into  *)
(*              tx_ringbuffer and sends the event CDC_TX_HAS_DATE          *)
(*   vcom       the thread vcom_tx_thread_entry: waits for the event,      *)
(*              takes up to BulkMax bytes into its array ch, asks the USB  *)
(*              core to send them and waits for data->wait (rt_completion) *)
(*   usbd       the USB core thread: takes messages from usb_mq and, on an *)
(*              IN notification, sends the next packet of the request, a   *)
(*              zero-length packet, or completes data->wait                *)
(*   interrupt  the host takes a packet, resets the bus, or sends a setup  *)
(*              packet: all reach usbd through usb_mq                      *)
(*                                                                         *)
(* usbd runs at priority 8, above every other thread here, so one message  *)
(* is handled in one step; the vcom thread (16) and the writers can be     *)
(* preempted between any two steps.  tx_ringbuffer is the queue its proof  *)
(* (RingBufferProofs!RingBufferIsQueue) shows it to be; every access to it *)
(* is under the interrupt lock.  Bytes are numbered in the order they are  *)
(* put; 0 stands for memory that holds none of them.                       *)
(***************************************************************************)
EXTENDS Integers, Sequences

CONSTANTS
    Writers,        \* threads that print to the port
    RingSize,       \* CDC_TX_BUFSIZE
    BulkMax,        \* CDC_BULKIN_MAXSIZE, the size of ch
    MaxPacket,      \* EP_MAXPACKET of the bulk IN endpoint
    MqMax,          \* USBD_MQ_MAX_MSG
    HostStalls,     \* may the host leave a packet unread for VCOM_TX_TIMEOUT?
    MaxBytes,       \* bound: bytes put
    MaxControl      \* bound: bus resets and setup packets

ASSUME SizesAssumption ==
    /\ RingSize \in Nat \ {0} /\ BulkMax \in Nat \ {0} /\ MaxPacket \in Nat \ {0}
    /\ MqMax \in Nat \ {0} /\ MaxBytes \in Nat /\ MaxControl \in Nat
    /\ HostStalls \in BOOLEAN

VARIABLES
    wpc,        \* where each writer is in _vcom_putc
    put,        \* number of bytes put so far
    ring,       \* data->tx_ringbuffer, as the queue of its bytes
    event,      \* CDC_TX_HAS_DATE is set in data->tx_event
    tpc,        \* where the vcom thread is
    ch,         \* its array ch
    res,        \* number of bytes it took
    done,       \* data->wait.flag is RT_COMPLETED
    req,        \* data->ep_in->request: offset of buffer in ch, size, remain_size
    fifo,       \* packets handed to the controller and not yet taken by the host
    mq,         \* usb_mq
    configured, \* device->state is USB_STATE_CONFIGURED
    bus,        \* the host's view: it polls the endpoint ("on"), waits for its
                \* SET_CONFIGURATION to be answered ("pending"), or neither ("off")
    connected,  \* data->connected
    control,    \* number of resets and setup packets so far
    host,       \* the bytes the host received
    last,       \* length of the last packet the host received
    seen,       \* put, when the vcom thread began to read a full ring's length
    hist        \* history: what has happened to the stream so far

vars == <<wpc, put, ring, event, tpc, ch, res, done, req, fifo, mq,
          configured, bus, connected, control, host, last, seen, hist>>

writerVars == <<wpc, put>>
txVars     == <<ch, res, seen>>
usbVars    == <<configured, bus, connected, control>>
hostVars   == <<host, last>>

Message == {"IN", "RESET", "CONFIG", "UNCONFIG", "DTR_ON", "DTR_OFF"}

\* request.buffer is kept as an offset into ch.  RT_NULL is, like the end of ch, an
\* offset from which none of ch can be read.
Null == BulkMax

Init ==
    /\ wpc = [w \in Writers |-> "idle"]
    /\ put = 0
    /\ ring = <<>>
    /\ event = FALSE
    /\ tpc = "recv"
    /\ ch = [k \in 1..BulkMax |-> 0]
    /\ res = 0
    /\ done = FALSE
    /\ req = [off |-> Null, size |-> 0, remain |-> 0]
    /\ fifo = <<>>
    /\ mq = <<>>
    /\ configured = FALSE
    /\ bus = "off"
    /\ connected = FALSE
    /\ control = 0
    /\ host = <<>>
    /\ last = 0
    /\ seen = 0
    /\ hist = {}

-----------------------------------------------------------------------------
(* The pieces the threads share.                                           *)

\* A mutant: a full ring grows instead of losing its oldest byte.
PutCharForce_grows ==
    /\ put' = put + 1
    /\ ring' = Append(ring, put + 1)
    /\ hist' = hist

\* rt_ringbuffer_putchar_force.
PutCharForce ==
    /\ put' = put + 1
    /\ ring' = IF Len(ring) = RingSize THEN Append(Tail(ring), put + 1)
                                       ELSE Append(ring, put + 1)
    /\ hist' = IF Len(ring) = RingSize THEN hist \cup {"overflow"} ELSE hist

\* A mutant: an event nobody waits for yet is not kept.
EventSend_not_kept ==
    /\ UNCHANGED event
    /\ tpc' = IF tpc = "evtwait" THEN "test" ELSE tpc

\* rt_event_send: a waiting vcom thread is resumed and, having asked for
\* RT_EVENT_FLAG_CLEAR, consumes the event; otherwise the event stays set.
EventSend ==
    IF tpc = "evtwait" THEN tpc' = "test" /\ UNCHANGED event
                       ELSE event' = TRUE /\ UNCHANGED tpc

\* rt_completion_done.
CompletionDone ==
    /\ done' = TRUE
    /\ tpc' = IF tpc = "wait" /\ ~done THEN "ok" ELSE tpc

\* rt_usbd_event_signal: a message that finds the queue full is lost.
Signal(m) == mq' = IF Len(mq) < MqMax THEN Append(mq, m) ELSE mq

Queued(m, queue) == \E k \in 1..Len(queue) : queue[k] = m

\* The len bytes of ch from offset off; past its end there is other memory.
Slice(off, len) == [k \in 1..len |-> IF off + k <= BulkMax THEN ch[off + k] ELSE 0]

\* dcd_ep_write(HAL_PCD_EP_Transmit): the packet is copied to the endpoint's FIFO.
\* A host that does not poll the endpoint never takes it.  If an earlier packet is
\* still there, the endpoint is programmed anew, with or without the old one going out.
Transmit(bytes) ==
    fifo' \in IF bus = "on" THEN {Append(fifo, bytes), <<bytes>>} ELSE {fifo}

\* Two mutants: the buffer is not advanced; the rest is not reduced.
WritePacket_same_buffer(r) ==
    LET len == IF r.remain >= MaxPacket THEN MaxPacket ELSE r.remain IN
    /\ Transmit(Slice(r.off, len))
    /\ req' = [r EXCEPT !.remain = @ - len]
    /\ hist' = IF r.off + len > BulkMax THEN hist \cup {"overrun"} ELSE hist

WritePacket_same_rest(r) ==
    LET len == IF r.remain >= MaxPacket THEN MaxPacket ELSE r.remain IN
    /\ Transmit(Slice(r.off, len))
    /\ req' = [r EXCEPT !.off = IF len = MaxPacket THEN @ + len ELSE @]
    /\ hist' = IF r.off + len > BulkMax THEN hist \cup {"overrun"} ELSE hist

\* Send the next packet of request r: rt_usbd_ep_write, and _data_notify when
\* bytes remain.
WritePacket(r) ==
    LET len == IF r.remain >= MaxPacket THEN MaxPacket ELSE r.remain IN
    /\ Transmit(Slice(r.off, len))
    /\ req' = [r EXCEPT !.remain = @ - len,
                        !.off = IF len = MaxPacket THEN @ + len ELSE @]
    /\ hist' = IF r.off + len > BulkMax THEN hist \cup {"overrun"} ELSE hist

-----------------------------------------------------------------------------
(* _vcom_putc, run by writer w.                                            *)

\* A byte is accepted only while data->connected; '\n' on a STREAM device is
\* preceded by '\r'.
Putc(w, newline) ==
    /\ wpc[w] = "idle" /\ connected
    /\ put + (IF newline THEN 2 ELSE 1) <= MaxBytes
    /\ wpc' = [wpc EXCEPT ![w] = IF newline THEN "cr" ELSE "put"]
    /\ UNCHANGED <<put, ring, event, tpc, done, req, fifo, mq, txVars, usbVars, hostVars, hist>>

PutByte(w) ==
    /\ wpc[w] \in {"cr", "put"} /\ put < MaxBytes
    /\ PutCharForce
    /\ wpc' = [wpc EXCEPT ![w] = IF @ = "cr" THEN "crsend" ELSE "send"]
    /\ UNCHANGED <<event, tpc, done, req, fifo, mq, txVars, usbVars, hostVars>>

SendEvent(w) ==
    /\ wpc[w] \in {"crsend", "send"}
    /\ EventSend
    /\ wpc' = [wpc EXCEPT ![w] = IF @ = "crsend" THEN "put" ELSE "idle"]
    /\ UNCHANGED <<put, ring, done, req, fifo, mq, txVars, usbVars, hostVars, hist>>

-----------------------------------------------------------------------------
(* vcom_tx_thread_entry.                                                   *)

\* rt_event_recv(OR | CLEAR, RT_WAITING_FOREVER).
EventRecv ==
    /\ tpc = "recv"
    /\ tpc' = IF event THEN "test" ELSE "evtwait"
    /\ event' = FALSE
    /\ UNCHANGED <<writerVars, ring, done, req, fifo, mq, txVars, usbVars, hostVars, hist>>

\* while (rt_ringbuffer_data_len(&data->tx_ringbuffer)), when no put interferes.
TestRing ==
    /\ tpc = "test"
    /\ tpc' = IF ring = <<>> THEN "recv" ELSE "get"
    /\ UNCHANGED <<writerVars, ring, event, done, req, fifo, mq, txVars, usbVars, hostVars, hist>>

\* rt_ringbuffer_data_len reads indices and mirror bits without the interrupt lock.
\* On a full ring a forced put in between turns over both mirror bits, and an old
\* read_mirror equal to the new write_mirror reads as an empty ring.
BeginTestFull ==
    /\ tpc = "test" /\ Len(ring) = RingSize
    /\ tpc' = "testing"
    /\ seen' = put
    /\ UNCHANGED <<writerVars, ring, event, done, req, fifo, mq, ch, res, usbVars, hostVars, hist>>

EndTestFull ==
    /\ tpc = "testing"
    /\ tpc' \in IF put > seen THEN {"recv", "get"} ELSE {"get"}
    /\ UNCHANGED <<writerVars, ring, event, done, req, fifo, mq, txVars, usbVars, hostVars, hist>>

\* rt_ringbuffer_get into ch, under the interrupt lock.
TakeBytes ==
    /\ tpc = "get"
    /\ LET n == IF Len(ring) < BulkMax THEN Len(ring) ELSE BulkMax IN
       /\ res' = n
       /\ ch' = [k \in 1..BulkMax |-> IF k <= n THEN ring[k] ELSE ch[k]]
       /\ ring' = SubSeq(ring, n + 1, Len(ring))
       /\ tpc' = IF n = 0 THEN "test" ELSE "check"
    /\ UNCHANGED <<writerVars, event, done, req, fifo, mq, seen, usbVars, hostVars, hist>>

\* Bytes taken while the port is not connected are dropped; otherwise
\* rt_completion_init(&data->wait).
CheckConnected ==
    /\ tpc = "check"
    /\ tpc' = IF connected THEN "buffer" ELSE "test"
    /\ done' = IF connected THEN FALSE ELSE done
    /\ hist' = IF connected THEN hist ELSE hist \cup {"disconnected"}
    /\ UNCHANGED <<writerVars, ring, event, req, fifo, mq, txVars, usbVars, hostVars>>

\* The request is filled in field by field and is the one usbd works on.
SetBuffer ==
    /\ tpc = "buffer"
    /\ tpc' = "size"
    /\ req' = [req EXCEPT !.off = 0]
    /\ UNCHANGED <<writerVars, ring, event, done, fifo, mq, txVars, usbVars, hostVars, hist>>

SetSize ==
    /\ tpc = "size"
    /\ tpc' = "remain"
    /\ req' = [req EXCEPT !.size = res]
    /\ UNCHANGED <<writerVars, ring, event, done, fifo, mq, txVars, usbVars, hostVars, hist>>

\* rt_usbd_io_request sets remain_size ...
SetRemain ==
    /\ tpc = "remain"
    /\ tpc' = "write"
    /\ req' = [req EXCEPT !.remain = req.size]
    /\ UNCHANGED <<writerVars, ring, event, done, fifo, mq, txVars, usbVars, hostVars, hist>>

\* ... and rt_usbd_ep_write sends the first packet, with the scheduler locked.
FirstPacket ==
    /\ tpc = "write"
    /\ tpc' = "waitcall"
    /\ WritePacket(req)
    /\ UNCHANGED <<writerVars, ring, event, done, mq, txVars, usbVars, hostVars>>

\* rt_completion_wait: go on at once if the flag is set, else suspend.
CompletionWait ==
    /\ tpc = "waitcall"
    /\ tpc' = IF done THEN "ok" ELSE "wait"
    /\ UNCHANGED <<writerVars, ring, event, done, req, fifo, mq, txVars, usbVars, hostVars, hist>>

\* Is the packet in hand still to be taken, or its notification to be handled?
AnswerDue == fifo # <<>> \/ (configured /\ Queued("IN", mq))

\* A mutant: rt_completion_wait(&data->wait, RT_WAITING_FOREVER).
WaitTimeout_forever == FALSE

\* The thread's timer ends the wait after VCOM_TX_TIMEOUT.  Unless HostStalls, the
\* host takes a packet, and usbd handles the notification, well before that.
WaitTimeout ==
    /\ tpc = "wait"
    /\ HostStalls \/ ~AnswerDue
    /\ tpc' = "late"
    /\ hist' = hist \cup {"timeout"}
    /\ UNCHANGED <<writerVars, ring, event, done, req, fifo, mq, txVars, usbVars, hostVars>>

\* The wait clears the flag and returns; the loop goes on, timeout or not.
WaitReturn ==
    /\ tpc \in {"ok", "late"}
    /\ tpc' = "test"
    /\ done' = FALSE
    /\ UNCHANGED <<writerVars, ring, event, req, fifo, mq, txVars, usbVars, hostVars, hist>>

-----------------------------------------------------------------------------
(* The USB core thread: one message of usb_mq.                             *)

\* A mutant: no zero-length packet.
EpInHandler_no_zlp ==
    /\ CompletionDone
    /\ UNCHANGED <<req, fifo, hist>>

\* _ep_in_handler: a request whose size is a multiple of the packet size is ended
\* with a zero-length packet, any other with data->wait.
EpInHandler ==
    IF req.size # 0 /\ req.size % MaxPacket = 0
      THEN /\ WritePacket([off |-> Null, size |-> 0, remain |-> 0])
           /\ UNCHANGED <<done, tpc>>
      ELSE /\ CompletionDone
           /\ UNCHANGED <<req, fifo, hist>>

\* _data_notify for the IN endpoint.
DataNotify ==
    \/ /\ ~configured
       /\ UNCHANGED <<req, fifo, done, tpc, hist>>
    \/ /\ configured /\ req.remain > 0
       /\ WritePacket(req)
       /\ UNCHANGED <<done, tpc>>
    \/ /\ configured /\ req.remain = 0
       /\ EpInHandler

UsbdIn ==
    /\ mq # <<>> /\ Head(mq) = "IN"
    /\ mq' = Tail(mq)
    /\ DataNotify
    /\ UNCHANGED <<writerVars, ring, event, txVars, usbVars, hostVars>>

\* Bus reset and SET_CONFIGURATION disconnect the port (_vcom_reset_state);
\* SET_CONFIGURATION(0) does not; SET_CONTROL_LINE_STATE carries DTR.  Nothing ends
\* a wait in progress.
UsbdControl ==
    /\ mq # <<>> /\ Head(mq) # "IN"
    /\ mq' = Tail(mq)
    /\ LET m == Head(mq) IN
       /\ configured' = CASE m = "CONFIG" -> TRUE
                          [] m \in {"RESET", "UNCONFIG"} -> FALSE
                          [] OTHER -> configured
       /\ connected' = CASE m \in {"CONFIG", "RESET", "DTR_OFF"} -> FALSE
                         [] m = "DTR_ON" -> TRUE
                         [] OTHER -> connected
       /\ bus' = IF m = "CONFIG" /\ bus = "pending" /\ ~ Queued("CONFIG", Tail(mq))
                   THEN "on" ELSE bus
    /\ UNCHANGED <<writerVars, ring, event, tpc, done, req, fifo, txVars, control, hostVars, hist>>

-----------------------------------------------------------------------------
(* The host and the interrupt handler.                                     *)

HostTakes ==
    /\ fifo # <<>>
    /\ host' = host \o Head(fifo)
    /\ last' = Len(Head(fifo))
    /\ fifo' = Tail(fifo)
    /\ Signal("IN")
    /\ UNCHANGED <<writerVars, ring, event, tpc, done, req, txVars, usbVars, hist>>

\* A bus reset, or a SET_CONFIGURATION on its way: the endpoint is not polled again
\* before SET_CONFIGURATION has disabled and enabled it, which empties its FIFO.
HostRestarts(m) ==
    /\ control < MaxControl
    /\ control' = control + 1
    /\ bus' = IF m = "CONFIG" /\ Len(mq) < MqMax THEN "pending" ELSE "off"
    /\ fifo' = <<>>
    /\ hist' = IF bus = "on" THEN hist \cup {"restart"} ELSE hist
    /\ Signal(m)
    /\ UNCHANGED <<writerVars, ring, event, tpc, done, req, txVars, configured, connected, hostVars>>

\* SET_CONTROL_LINE_STATE.
HostSetsLine(m) ==
    /\ control < MaxControl /\ bus = "on"
    /\ control' = control + 1
    /\ Signal(m)
    /\ UNCHANGED <<writerVars, ring, event, tpc, done, req, fifo, txVars, configured, bus, connected, hostVars, hist>>

-----------------------------------------------------------------------------
Writer(w) == (\E newline \in BOOLEAN : Putc(w, newline)) \/ PutByte(w) \/ SendEvent(w)

TxThread ==
    \/ EventRecv \/ TestRing \/ BeginTestFull \/ EndTestFull \/ TakeBytes
    \/ CheckConnected \/ SetBuffer \/ SetSize \/ SetRemain \/ FirstPacket \/ CompletionWait \/ WaitReturn

Usbd == UsbdIn \/ UsbdControl

Host ==
    \/ HostTakes
    \/ \E m \in {"RESET", "CONFIG", "UNCONFIG"} : HostRestarts(m)
    \/ \E m \in {"DTR_ON", "DTR_OFF"} : HostSetsLine(m)

Next ==
    \/ \E w \in Writers : Writer(w)
    \/ TxThread
    \/ WaitTimeout
    \/ Usbd
    \/ Host

Spec == Init /\ [][Next]_vars

\* A writer that has entered _vcom_putc finishes it, the vcom thread is scheduled and
\* its timer expires.  Nothing is assumed of the host.
FairSpec ==
    /\ Spec
    /\ \A w \in Writers : WF_vars(PutByte(w) \/ SendEvent(w))
    /\ WF_vars(TxThread)
    /\ WF_vars(WaitTimeout)

-----------------------------------------------------------------------------
(* Properties.                                                             *)

TxPlaces == {"recv", "evtwait", "test", "testing", "get", "check", "buffer", "size",
             "remain", "write", "waitcall", "wait", "ok", "late"}

TypeOK ==
    /\ wpc \in [Writers -> {"idle", "cr", "crsend", "put", "send"}]
    /\ put \in 0..MaxBytes
    /\ ring \in Seq(1..MaxBytes) /\ Len(ring) <= RingSize
    /\ event \in BOOLEAN /\ done \in BOOLEAN
    /\ tpc \in TxPlaces
    /\ ch \in [1..BulkMax -> 0..MaxBytes]
    /\ res \in 0..BulkMax
    /\ req \in [off : Nat, size : 0..BulkMax, remain : 0..BulkMax]
    /\ mq \in Seq(Message) /\ Len(mq) <= MqMax
    /\ configured \in BOOLEAN /\ connected \in BOOLEAN /\ bus \in {"off", "pending", "on"}
    /\ control \in 0..MaxControl
    /\ seen \in 0..MaxBytes
    /\ hist \subseteq {"overflow", "disconnected", "timeout", "restart", "overrun"}

WakeupDue == event \/ \E w \in Writers : wpc[w] \in {"crsend", "send"}

\* The vcom thread never goes to sleep on, or sleeps over, bytes nobody will wake it
\* for: if it waits for the event (or is about to) while tx_ringbuffer holds bytes, the
\* event is set or a writer is about to send it.  (_vcom_putc puts before it sends; the
\* unlocked rt_ringbuffer_data_len may misread a full ring as empty.)
NoLostWakeup == tpc \in {"recv", "evtwait"} /\ ring # <<>> => WakeupDue

\* The bytes taken from the ring that the host has not received.
InFlight ==
    IF tpc \in {"check", "buffer", "size", "remain", "write"} THEN SubSeq(ch, 1, res)
    ELSE IF tpc \in {"waitcall", "wait"}
         THEN (IF fifo = <<>> THEN <<>> ELSE Head(fifo)) \o Slice(req.off, req.remain)
    ELSE <<>>

\* Whatever is lost to overflow, disconnection, bus resets and the timeouts they
\* cause, the host receives no byte twice, out of order, or that was never put.  As long as
\* the ring does not overflow, the port stays connected and no wait times out, every byte
\* accepted by _vcom_putc is in exactly one place and in order: received by the host, in
\* flight, or in tx_ringbuffer.
InOrder ==
    /\ \A k \in 1..Len(host) : host[k] \in 1..put
    /\ \A j, k \in 1..Len(host) : j < k => host[j] < host[k]
    /\ hist = {} => /\ Len(fifo) <= 1
                    /\ host \o InFlight \o ring = [k \in 1..put |-> k]

\* When rt_completion_wait returns RT_EOK the host has received the whole request, and
\* the transfer has been ended by a short (or zero-length) packet.
DoneMeansDelivered ==
    tpc = "ok" => /\ res <= Len(host)
                  /\ SubSeq(host, Len(host) - res + 1, Len(host)) = SubSeq(ch, 1, res)
                  /\ last < MaxPacket

\* The core reads past the array ch (or through a null buffer) only after a wait has
\* timed out and left its packet to be notified late.
OverrunNeedsTimeout == "overrun" \in hist => "timeout" \in hist

\* A byte in tx_ringbuffer leaves it, whatever the host does: the wait's timeout frees
\* the vcom thread.
Drains ==
    \A b \in 1..MaxBytes :
        (\E k \in 1..Len(ring) : ring[k] = b) ~> ~ (\E k \in 1..Len(ring) : ring[k] = b)

=============================================================================
