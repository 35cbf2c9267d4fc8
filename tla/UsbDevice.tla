------------------------------- MODULE UsbDevice -------------------------------
(***************************************************************************)
(* The USB core's device states and the receive path of the virtual COM    *)
(* port.                                                                   *)
(*                                                                         *)
(* Interrupts turn bus resets, setup packets and received packets into     *)
(* messages of usb_mq; the thread usbd (priority 8) handles them one by    *)
(* one.  Configuring the device enables the port: _function_enable         *)
(* allocates the buffer of the bulk OUT endpoint and arms the endpoint     *)
(* with it; a bus reset disables the port and frees the buffer.  A packet  *)
(* goes from the buffer through rx_ringbuffer into the serial device's     *)
(* fifo, and the endpoint is armed again.                                  *)
(*                                                                         *)
(* The host has one control transfer under way at a time and starts none   *)
(* while usbd still has its last reset to handle (it leaves a device 10 ms *)
(* after a reset).  Bytes are numbered in the order the host sends them.   *)
(***************************************************************************)
EXTENDS Integers, Sequences, FiniteSets

CONSTANTS
    Blocks,         \* the heap blocks left for the endpoint's buffer
    MaxPacket,      \* EP_MAXPACKET of the bulk OUT endpoint
    RxSize,         \* CDC_RX_BUFSIZE: rx_ringbuffer and the serial fifo
    MqMax,          \* USBD_MQ_MAX_MSG
    MaxBytes,       \* bound: bytes sent
    MaxControl      \* bound: resets and control transfers

ASSUME SizesAssumption ==
    /\ IsFiniteSet(Blocks) /\ Blocks # {} /\ MaxPacket \in Nat \ {0} /\ RxSize \in Nat \ {0}
    /\ MqMax \in Nat \ {0} /\ MaxBytes \in Nat /\ MaxControl \in Nat

CONSTANTS Null, Nak     \* RT_NULL; an endpoint that is not armed

ASSUME NullAssumption == Null \notin Blocks /\ Nak \notin Blocks /\ Null # Nak

VARIABLES
    state,      \* device->state
    mq,         \* usb_mq: [type, size]
    used,       \* the blocks allocated
    buf,        \* ep_out->buffer
    mem,        \* the bytes in each block (0: no byte the host sent)
    arm,        \* the block the OUT endpoint receives into, Nak if it is not armed
    remain,     \* ep_out->request.remain_size
    stalled,    \* ep_out->stalled
    waiting,    \* the request is in ep_out->request_list
    halted,     \* the controller answers the OUT endpoint with STALL
    open,       \* the serial device "vcom" is open
    fifo,       \* its serial_rx
    got,        \* bytes read from it
    sent,       \* number of bytes the host sent
    host,       \* what the host knows the device to be
    ctl,        \* the host's control transfer under way, "none" if none is
    control,    \* number of resets and control transfers
    hist,       \* history: what has been lost or left undone
    again       \* history: a configured device was configured again, with no reset between

vars == <<state, mq, used, buf, mem, arm, remain, stalled, waiting, halted, open, fifo, got,
          sent, host, ctl, control, hist, again>>
epVars == <<used, buf, mem, arm, remain, stalled, waiting, halted>>
rxVars == <<open, fifo, got>>
hostVars == <<sent, host, ctl, control, again>>

Setups == {"ADDRESS", "CONFIG", "UNCONFIG", "HALT", "CLEAR"}

Init ==
    /\ state = "NOTATTACHED"
    /\ mq = <<>>
    /\ used = {} /\ buf = Null /\ mem = [b \in Blocks \cup {Null} |-> [k \in 1..MaxPacket |-> 0]]
    /\ arm = Nak /\ remain = 0
    /\ stalled = FALSE /\ waiting = FALSE /\ halted = FALSE
    /\ open = FALSE /\ fifo = <<>> /\ got = <<>>
    /\ sent = 0 /\ host = "default" /\ ctl = "none" /\ control = 0
    /\ hist = {} /\ again = FALSE

-----------------------------------------------------------------------------
(* Pieces.                                                                 *)

Message(type, size) == [type |-> type, size |-> size]

Queued(type) == \E k \in 1..Len(mq) : mq[k].type = type

\* rt_usbd_event_signal: a message that finds usb_mq full is lost.
Signal(m) == mq' = IF Len(mq) < MqMax THEN Append(mq, m) ELSE mq

Dropped == IF Len(mq) < MqMax THEN {} ELSE {"dropped"}

\* A mutant: remain_size keeps its value.
IoRequest_keeps_remain(b, rest) ==
    IF stalled THEN waiting' = TRUE /\ arm' = Nak /\ remain' = rest
               ELSE UNCHANGED waiting /\ arm' = b /\ remain' = rest

\* rt_usbd_io_request for the OUT endpoint, which is not armed then: arm it with buffer
\* b, or keep the request in request_list while the endpoint is stalled.
IoRequest(b, rest) ==
    IF stalled THEN waiting' = TRUE /\ arm' = Nak /\ remain' = rest
               ELSE UNCHANGED waiting /\ arm' = b /\ remain' = MaxPacket

\* A mutant: the first byte of a packet is stored in the place of each of them.
StoreBytes_first(bytes) ==
    LET all == fifo \o [k \in 1..Len(bytes) |-> bytes[1]]
        over == Len(all) - (RxSize - 1)
    IN fifo' = IF over > 0 THEN SubSeq(all, over + 1, Len(all)) ELSE all

\* rt_ringbuffer_put into the empty rx_ringbuffer, and rt_hw_serial_isr, which moves
\* everything from there into the serial fifo: the oldest bytes give way.
StoreBytes(bytes) ==
    LET all == fifo \o SubSeq(bytes, 1, IF Len(bytes) < RxSize THEN Len(bytes) ELSE RxSize)
        over == Len(all) - (RxSize - 1)
    IN fifo' = IF over > 0 THEN SubSeq(all, over + 1, Len(all)) ELSE all

-----------------------------------------------------------------------------
(* usbd: one message.                                                      *)

Takes(type) ==
    /\ mq # <<>> /\ Head(mq).type = type
    /\ mq' = Tail(mq)

\* dcd_ep0_send_status ends the host's control transfer, if it still waits for one.
Answer(type) ==
    /\ ctl' = IF ctl = type THEN "none" ELSE ctl
    /\ host' = IF ctl # type THEN host
               ELSE CASE type = "CONFIG" -> "configured"
                      [] type \in {"ADDRESS", "UNCONFIG"} -> "addressed"
                      [] OTHER -> host

\* _data_notify and _ep_out_handler.
DataNotify ==
    /\ Takes("OUT")
    /\ \/ /\ state # "CONFIGURED" \/ remain = 0
          /\ hist' = hist \cup {"ignored"}
          /\ UNCHANGED <<epVars, fifo>>
       \/ /\ state = "CONFIGURED" /\ remain # 0
          /\ IF open THEN StoreBytes(SubSeq(mem[buf], 1, Head(mq).size)) ELSE UNCHANGED fifo
          /\ hist' = hist \cup
                 (IF ~open THEN {"ignored"}
                  ELSE IF Len(fifo) + Head(mq).size > RxSize - 1 THEN {"overflow"} ELSE {})
          /\ IoRequest(buf, remain - Head(mq).size)
          /\ UNCHANGED <<used, buf, mem, stalled, halted>>
    /\ UNCHANGED <<state, open, got, hostVars>>

\* _function_disable.
FunctionDisable == used' = used \ {buf} /\ buf' = Null

\* USB_MSG_RESET: _stop_notify runs _function_disable.
Reset ==
    /\ Takes("RESET")
    /\ IF state = "NOTATTACHED" THEN UNCHANGED <<used, buf>> ELSE FunctionDisable
    /\ state' = "NOTATTACHED"
    /\ UNCHANGED <<mem, arm, remain, stalled, waiting, halted, rxVars, hostVars, hist>>

SetAddress ==
    /\ Takes("ADDRESS")
    /\ state' = "ADDRESS"
    /\ Answer("ADDRESS")
    /\ UNCHANGED <<epVars, rxVars, sent, control, again, hist>>

\* _set_config(0): the function is not disabled.
Unconfigure ==
    /\ Takes("UNCONFIG")
    /\ state' = "ADDRESS"
    /\ Answer("UNCONFIG")
    /\ UNCHANGED <<epVars, rxVars, sent, control, again, hist>>

\* rt_malloc: a free block, or RT_NULL when there is none.
Malloc == IF Blocks \subseteq used THEN {Null} ELSE Blocks \ used

\* A mutant: the buffer is freed after it has been allocated and not before.
FunctionEnable_frees_new ==
    \E b \in Malloc :
        /\ used' = used \ {b} /\ buf' = b
        /\ IoRequest(b, remain)
        /\ hist' = IF b = Null THEN hist \cup {"no_memory"} ELSE hist

\* _function_enable allocates a buffer and requests the first packet.  It does not look at
\* what rt_malloc returns, and RT_ASSERT(buffer != RT_NULL) of rt_usbd_ep_read_prepare is
\* compiled out (rtconfig.h: RT_DEBUG is not set).
FunctionEnable ==
    \E b \in Malloc :
        /\ used' = (used \cup {b}) \ {Null} /\ buf' = b
        /\ IoRequest(b, remain)
        /\ hist' = IF b = Null THEN hist \cup {"no_memory"} ELSE hist

\* A mutant: configuring ends the halt but keeps the request that waited for its end.
SetConfig_unstalls ==
    /\ Takes("CONFIG")
    /\ \E b \in Malloc :
         /\ used' = (used \cup {b}) \ {Null} /\ buf' = b
         /\ arm' = b /\ remain' = MaxPacket
         /\ hist' = IF b = Null THEN hist \cup {"no_memory"} ELSE hist
    /\ stalled' = FALSE /\ halted' = FALSE
    /\ state' = "CONFIGURED"
    /\ Answer("CONFIG")
    /\ UNCHANGED <<mem, waiting, rxVars, sent, control, again>>

\* _set_config: the endpoints are closed and opened, which leaves the OUT endpoint not
\* armed and ends the controller's halt but not ep->stalled, and _function_enable runs.
SetConfig ==
    /\ Takes("CONFIG")
    /\ FunctionEnable
    /\ halted' = FALSE
    /\ state' = "CONFIGURED"
    /\ Answer("CONFIG")
    /\ UNCHANGED <<mem, stalled, rxVars, sent, control, again>>

\* SET_FEATURE(ENDPOINT_HALT) for the OUT endpoint.
SetHalt ==
    /\ Takes("HALT")
    /\ stalled' = TRUE /\ halted' = TRUE
    /\ Answer("HALT")
    /\ UNCHANGED <<state, used, buf, mem, arm, remain, waiting, rxVars, sent, control, again, hist>>

\* A mutant: the status stage is left out.
ClearHalt_no_status ==
    /\ Takes("CLEAR")
    /\ halted' = FALSE /\ stalled' = FALSE /\ waiting' = FALSE
    /\ arm' = IF waiting THEN buf ELSE arm
    /\ remain' = IF waiting THEN MaxPacket ELSE remain
    /\ UNCHANGED <<ctl, host, used, buf, mem, state, rxVars, sent, control, again, hist>>

\* CLEAR_FEATURE(ENDPOINT_HALT): the request kept meanwhile is fired.  If the endpoint is
\* not stalled there is no answer at all.
ClearHalt ==
    /\ Takes("CLEAR")
    /\ IF stalled
       THEN /\ halted' = FALSE /\ stalled' = FALSE /\ waiting' = FALSE
            /\ arm' = IF waiting THEN buf ELSE arm
            /\ remain' = IF waiting THEN MaxPacket ELSE remain
            /\ Answer("CLEAR")
            /\ UNCHANGED <<used, buf, mem, hist>>
       ELSE /\ hist' = hist \cup {"unanswered"}
            /\ UNCHANGED <<epVars, ctl, host>>
    /\ UNCHANGED <<state, rxVars, sent, control, again>>

-----------------------------------------------------------------------------
(* The host and the controller; the users of the port.                     *)

\* A received packet is in the armed block when its interrupt comes; until it is armed
\* again the endpoint NAKs.  At address 0 is flash memory, which the packet does not change.
HostSends(n) ==
    /\ host = "configured" /\ ctl \in {"none", "HALT"} /\ ~halted /\ arm # Nak
    /\ sent + n <= MaxBytes
    /\ sent' = sent + n
    /\ mem' = IF arm = Null THEN mem
              ELSE [mem EXCEPT ![arm] = [k \in 1..MaxPacket |-> IF k <= n THEN sent + k ELSE @[k]]]
    /\ arm' = Nak
    /\ Signal(Message("OUT", n))
    /\ hist' = hist \cup Dropped
    /\ UNCHANGED <<state, used, buf, remain, stalled, waiting, halted, rxVars, host, ctl, control, again>>

HostResets ==
    /\ control < MaxControl
    /\ control' = control + 1
    /\ host' = "default" /\ ctl' = "none"
    /\ Signal(Message("RESET", 0))
    /\ hist' = hist \cup Dropped
    /\ UNCHANGED <<state, epVars, rxVars, sent, again>>

\* What the host asks for follows from what it knows of the device.
MayAsk(m) ==
    CASE m = "ADDRESS"  -> host = "default"
      [] m = "CONFIG"   -> host \in {"addressed", "configured"}
      [] m = "UNCONFIG" -> host = "configured"
      [] m = "HALT"     -> host = "configured"
      [] m = "CLEAR"    -> host = "configured"

HostAsks(m) ==
    /\ control < MaxControl /\ ctl = "none" /\ ~Queued("RESET")
    /\ MayAsk(m)
    /\ control' = control + 1
    /\ ctl' = m
    /\ Signal(Message(m, 0))
    /\ hist' = hist \cup Dropped
    /\ again' = (again \/ (host = "configured" /\ m \in {"CONFIG", "UNCONFIG"}))
    /\ UNCHANGED <<state, epVars, rxVars, sent, host>>

\* The host gives up a control transfer that has timed out.
HostGivesUp ==
    /\ ctl # "none" /\ ~Queued(ctl)
    /\ ctl' = "none"
    /\ UNCHANGED <<state, mq, epVars, rxVars, sent, host, control, hist, again>>

\* main opens "vcom" and keeps it open (Console!UsedDevicesOpen).
MainOpens ==
    /\ ~open
    /\ open' = TRUE
    /\ UNCHANGED <<state, mq, epVars, fifo, got, hostVars, hist>>

\* _serial_int_rx.
ReadByte ==
    /\ fifo # <<>>
    /\ got' = Append(got, Head(fifo))
    /\ fifo' = Tail(fifo)
    /\ UNCHANGED <<state, mq, epVars, open, hostVars, hist>>

-----------------------------------------------------------------------------
Usbd ==
    \/ DataNotify \/ Reset \/ SetAddress \/ Unconfigure \/ SetConfig \/ SetHalt \/ ClearHalt

Next ==
    \/ Usbd
    \/ \E n \in 0..MaxPacket : HostSends(n)
    \/ HostResets
    \/ \E m \in Setups : HostAsks(m)
    \/ HostGivesUp
    \/ MainOpens \/ ReadByte

Spec == Init /\ [][Next]_vars

-----------------------------------------------------------------------------
(* Properties.                                                             *)

\* Neither usb_mq nor the heap has run out.
Sound == hist \cap {"dropped", "no_memory"} = {}

\* The OUT endpoint is never forgotten: as long as usb_mq and the heap suffice, on a device
\* the host knows to be configured it is armed with the port's buffer, a received packet
\* is queued whose handling will arm it, or its request is kept for the end of a halt,
\* across resets, configurations and halts in any order.
OutAlive ==
    host = "configured" /\ Sound
        => \/ arm = buf /\ remain # 0
           \/ Queued("OUT")
           \/ stalled /\ waiting

\* A received packet is never written to a freed buffer: whenever the host may send, the
\* endpoint is armed with an allocated block or not at all.  And the only block allocated is
\* the endpoint's buffer: as long as every configuration of the device follows a reset, no
\* restart leaks memory and no allocation fails.
BufferLives ==
    /\ host = "configured" /\ ctl \in {"none", "HALT"} /\ Sound => arm \in used \cup {Nak}
    /\ ~again /\ "dropped" \notin hist => used \subseteq {buf} /\ "no_memory" \notin hist

\* Bytes received and not yet handled.
InBuffer ==
    IF Queued("OUT") /\ buf # Null
    THEN SubSeq(mem[buf], 1, mq[CHOOSE k \in 1..Len(mq) : mq[k].type = "OUT"].size)
    ELSE <<>>

\* Bytes reach the reader of the port in order and once each, and those that do not were
\* pushed out of a full fifo, came before the port was opened, or belonged to a
\* configuration the host had ended.
ReceivedInOrder ==
    LET trail == got \o fifo IN
    /\ Len(fifo) < RxSize
    /\ Sound => \A j, k \in 1..Len(trail) : j < k => trail[j] < trail[k]
    /\ hist = {} => trail \o InBuffer = [k \in 1..sent |-> k]

\* A halt the host meets and a request kept for the end of a halt are known to the core,
\* across resets and configurations: clearing the halt ends the one and fires the other.
HaltKnown == (halted => stalled) /\ (waiting => stalled)

\* No control transfer is forgotten: the one under way has its message queued, to be
\* answered when usbd comes to it, across resets that cut transfers off and late answers to
\* those, unless a message was lost or cleared the halt of an endpoint that is not halted.
ControlAnswered ==
    hist \cap {"dropped", "unanswered"} = {} /\ ctl # "none" => Queued(ctl)

=============================================================================
