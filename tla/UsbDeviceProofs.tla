--------------------------- MODULE UsbDeviceProofs ---------------------------
(***************************************************************************)
(* The USB device keeps its OUT endpoint, its buffer and its control       *)
(* transfers, for any number of blocks, bytes and resets and any size of   *)
(* usb_mq.                                                                 *)
(***************************************************************************)
EXTENDS UsbDevice, SequenceTheorems, TLAPS

Messages == [type : Setups \cup {"OUT", "RESET"}, size : 0..MaxPacket]

\* The part of the state's type the arguments below need.
Typed ==
    /\ mq \in Seq(Messages)
    /\ used \subseteq Blocks /\ buf \in Blocks \cup {Null}
    /\ remain \in Int
    /\ stalled \in BOOLEAN /\ waiting \in BOOLEAN /\ halted \in BOOLEAN
    /\ host \in {"default", "addressed", "configured"}
    /\ ctl \in Setups \cup {"none"}
    /\ again \in BOOLEAN

\* While a reset is queued the host knows the device to be reset, and asks for nothing.
ResetKnown == Queued("RESET") => host = "default" /\ ctl = "none"

\* Unless a message was lost, at most one setup packet is queued, no reset comes before
\* it, and it is the host's transfer under way or a reset comes after it.
OneSetup ==
    "dropped" \notin hist =>
        \A k \in 1..Len(mq) : mq[k].type \in Setups =>
            /\ \A j \in 1..Len(mq) : j < k => mq[j].type \notin Setups \cup {"RESET"}
            /\ ctl = mq[k].type \/ Queued("RESET")

\* What the host asks for fits what it knows.
AskFits ==
    /\ ctl = "ADDRESS" => host = "default"
    /\ ctl = "UNCONFIG" => again

\* A device the host knows to be configured is configured, its endpoint's buffer is
\* allocated and it receives into no other one.
ConfiguredInv ==
    host = "configured" /\ Sound =>
        /\ state = "CONFIGURED"
        /\ buf \in used /\ arm \in {buf, Nak}
        /\ remain # 0 \/ waiting

\* As long as every configuration follows a reset: nothing is allocated when a
\* configuration is handled, nor on a device that is not configured.
LeakInv ==
    ~again /\ "dropped" \notin hist =>
        /\ used \subseteq {buf} /\ "no_memory" \notin hist
        /\ Queued("CONFIG") => used = {}
        /\ host # "configured" /\ ~Queued("RESET") => used = {}
        /\ state = "NOTATTACHED" => used = {}

IInv ==
    /\ Typed /\ ResetKnown /\ OneSetup /\ AskFits /\ ConfiguredInv /\ LeakInv
    /\ OutAlive /\ HaltKnown /\ ControlAnswered

trail == got \o fifo

\* Unless a message was lost, a received packet that is queued is the only one, waits
\* behind nothing but a halt, and the endpoint is not armed meanwhile.
OneOut ==
    "dropped" \notin hist =>
        \A k \in 1..Len(mq) : mq[k].type = "OUT" =>
            /\ arm = Nak
            /\ \A j \in 1..Len(mq) : j < k => mq[j].type = "HALT"

\* The bytes of a packet of the size given are in the endpoint's buffer, and come after all
\* those the port holds or its reader has.
Held(size) ==
    /\ buf # Null
    /\ \A i \in 1..size : mem[buf][i] = sent - size + i
    /\ \A i \in 1..Len(trail) : trail[i] <= sent - size
    /\ hist = {} => Len(trail) = sent - size

OutHeld == Sound => \A k \in 1..Len(mq) : mq[k].type = "OUT" => Held(mq[k].size)

RxTyped ==
    /\ sent \in Nat /\ mem \in [Blocks \cup {Null} -> [1..MaxPacket -> Int]]
    /\ got \in Seq(Int) /\ fifo \in Seq(Int) /\ Len(fifo) < RxSize

\* The bytes the port holds or its reader has.
TrailInv ==
    /\ Sound => /\ \A i \in 1..Len(trail) : trail[i] <= sent
                /\ \A j, k \in 1..Len(trail) : j < k => trail[j] < trail[k]
    /\ hist = {} => \A i \in 1..Len(trail) : trail[i] = i
    /\ hist = {} /\ ~Queued("OUT") => Len(trail) = sent

RxInv == RxTyped /\ OneOut /\ OutHeld /\ TrailInv

-----------------------------------------------------------------------------
(* usb_mq.                                                                 *)

\* Taking a message removes the first one and moves the others up.
LEMMA TakesFacts ==
    ASSUME Typed, NEW t, Takes(t)
    PROVE  /\ Len(mq) \in Nat \ {0} /\ 1 \in 1..Len(mq)
           /\ Head(mq) = mq[1] /\ mq[1].type = t /\ mq[1] \in Messages
           /\ mq' \in Seq(Messages) /\ Len(mq') = Len(mq) - 1
           /\ \A k \in 1..Len(mq') : k + 1 \in 1..Len(mq) /\ mq'[k] = mq[k + 1]
           /\ \A s : Queued(s)' => Queued(s)
           /\ \A s : Queued(s) /\ s # t => Queued(s)'
<1>1. mq # <<>> /\ mq \in Seq(Messages) /\ mq' = Tail(mq) /\ Head(mq).type = t
  BY DEF Takes, Typed
<1>2. /\ Len(mq) \in Nat \ {0} /\ 1 \in 1..Len(mq) /\ Head(mq) = mq[1]
      /\ mq' \in Seq(Messages) /\ Len(mq') = Len(mq) - 1
  BY <1>1
<1>3. \A k \in 1..Len(mq') : k + 1 \in 1..Len(mq) /\ mq'[k] = mq[k + 1]
  BY <1>1, <1>2
<1>4. \A s : Queued(s)' => Queued(s)
  BY <1>3 DEF Queued
<1>5. \A s : Queued(s) /\ s # t => Queued(s)'
  <2> SUFFICES ASSUME NEW s, NEW k \in 1..Len(mq), mq[k].type = s, s # t
               PROVE  \E i \in 1..Len(mq') : mq'[i].type = s
    BY DEF Queued
  <2>1. k # 1  BY <1>1, <1>2
  <2>2. k - 1 \in 1..Len(mq') /\ (k - 1) + 1 = k  BY <2>1, <1>2
  <2>3. mq'[k - 1] = mq[k]  BY <2>2, <1>3
  <2> QED  BY <2>2, <2>3
<1>6. mq[1] \in Messages  BY <1>1, <1>2, ElementOfSeq
<1> QED  BY <1>1, <1>2, <1>3, <1>4, <1>5, <1>6

\* Signalling a message appends it, or records that it was dropped.
LEMMA SignalFacts ==
    ASSUME Typed, NEW m \in Messages, Signal(m), hist' = hist \cup Dropped
    PROVE  /\ mq' \in Seq(Messages) /\ Len(mq) \in Nat
           /\ hist \subseteq hist' /\ hist' \subseteq hist \cup {"dropped"}
           /\ \A s : Queued(s) => Queued(s)'
           /\ \A s : Queued(s)' => Queued(s) \/ s = m.type
           /\ "dropped" \notin hist' =>
                 /\ Len(mq') = Len(mq) + 1
                 /\ \A k \in 1..Len(mq) : mq'[k] = mq[k]
                 /\ mq'[Len(mq) + 1] = m
                 /\ Queued(m.type)'
<1>1. mq \in Seq(Messages) /\ Len(mq) \in Nat  BY DEF Typed
<1>2. CASE Len(mq) < MqMax
  <2>1. mq' = Append(mq, m) /\ hist' = hist  BY <1>2 DEF Signal, Dropped
  <2>2. /\ mq' \in Seq(Messages) /\ Len(mq') = Len(mq) + 1
        /\ mq'[Len(mq) + 1] = m /\ \A k \in 1..Len(mq) : mq'[k] = mq[k]
    BY <1>1, <2>1, AppendProperties
  <2>3. Queued(m.type)'
    <3>1. Len(mq) + 1 \in 1..Len(mq')  BY <1>1, <2>2
    <3> QED  BY <3>1, <2>2 DEF Queued
  <2>4. \A s : Queued(s) => Queued(s)'
    <3>1. \A k \in 1..Len(mq) : k \in 1..Len(mq')  BY <1>1, <2>2
    <3> QED  BY <3>1, <2>2 DEF Queued
  <2>5. \A s : Queued(s)' => Queued(s) \/ s = m.type
    <3>1. \A k \in 1..Len(mq') : k \in 1..Len(mq) \/ k = Len(mq) + 1  BY <1>1, <2>2
    <3> QED  BY <3>1, <2>2 DEF Queued
  <2> QED  BY <1>1, <2>1, <2>2, <2>3, <2>4, <2>5
<1>3. CASE ~(Len(mq) < MqMax)
  <2>1. mq' = mq /\ hist' = hist \cup {"dropped"}  BY <1>3 DEF Signal, Dropped
  <2> QED  BY <1>1, <2>1 DEF Queued
<1> QED  BY <1>2, <1>3

\* A setup packet or a reset that is taken leaves no setup packet behind.
LEMMA TakesLast ==
    ASSUME Typed, OneSetup, "dropped" \notin hist, NEW t \in Setups \cup {"RESET"}, Takes(t)
    PROVE  /\ \A k \in 1..Len(mq') : mq'[k].type \notin Setups
           /\ \A s \in Setups : ~Queued(s)'
<1>1. SUFFICES ASSUME NEW k \in 1..Len(mq'), mq'[k].type \in Setups PROVE FALSE
  BY DEF Queued
<1>2. k + 1 \in 1..Len(mq) /\ mq'[k] = mq[k + 1] /\ 1 \in 1..Len(mq) /\ mq[1].type = t
  BY TakesFacts
<1>3. 1 < k + 1  BY TakesFacts
<1> QED  BY <1>1, <1>2, <1>3 DEF OneSetup

\* A setup packet that is taken is the host's transfer under way, or a reset is queued.
LEMMA TakesCurrent ==
    ASSUME Typed, OneSetup, "dropped" \notin hist, NEW t \in Setups, Takes(t)
    PROVE  ctl = t \/ Queued("RESET")'
<1>1. 1 \in 1..Len(mq) /\ mq[1].type = t  BY TakesFacts
<1>2. ctl = t \/ Queued("RESET")  BY <1>1 DEF OneSetup
<1>3. t # "RESET"  BY DEF Setups
<1> QED  BY <1>2, <1>3, TakesFacts

\* The setup packets queued stay as they should be when a message is taken.
LEMMA TakesOneSetup ==
    ASSUME Typed, OneSetup, NEW t, Takes(t), hist \subseteq hist',
           t \in Setups \cup {"RESET"} \/ ctl' = ctl
    PROVE  OneSetup'
<1> SUFFICES ASSUME "dropped" \notin hist', NEW k \in 1..Len(mq'), mq'[k].type \in Setups
             PROVE  /\ \A j \in 1..Len(mq') : j < k => mq'[j].type \notin Setups \cup {"RESET"}
                    /\ ctl' = mq'[k].type \/ Queued("RESET")'
  BY DEF OneSetup
<1>0. "dropped" \notin hist  OBVIOUS
<1>1. CASE t \in Setups \cup {"RESET"}
  BY <1>0, <1>1, TakesLast
<1>2. CASE t \notin Setups \cup {"RESET"}
  <2>1. ctl' = ctl /\ t # "RESET"  BY <1>2
  <2>2. k + 1 \in 1..Len(mq) /\ mq'[k] = mq[k + 1]  BY TakesFacts
  <2>3. \A j \in 1..Len(mq) : j < k + 1 => mq[j].type \notin Setups \cup {"RESET"}
    BY <1>0, <2>2 DEF OneSetup
  <2>4. ctl = mq[k + 1].type \/ Queued("RESET")  BY <1>0, <2>2 DEF OneSetup
  <2>5. \A j \in 1..Len(mq') : j < k =>
            j + 1 \in 1..Len(mq) /\ mq'[j] = mq[j + 1] /\ j + 1 < k + 1
    BY TakesFacts
  <2>6. \A j \in 1..Len(mq') : j < k => mq'[j].type \notin Setups \cup {"RESET"}
    BY <2>3, <2>5
  <2>7. Queued("RESET") => Queued("RESET")'  BY <2>1, TakesFacts
  <2> QED  BY <2>1, <2>2, <2>4, <2>6, <2>7
<1> QED  BY <1>1, <1>2

-----------------------------------------------------------------------------
(* Configurations, resets, halts: every action preserves the invariant.    *)

\* SetAddress preserves the invariant.
LEMMA SetAddressStep == ASSUME IInv, SetAddress PROVE IInv'
<1> USE DEF IInv
<1>0. /\ Takes("ADDRESS") /\ Answer("ADDRESS") /\ state' = "ADDRESS"
      /\ UNCHANGED <<used, buf, arm, remain, stalled, waiting, halted, again, hist>>
  BY DEF SetAddress, epVars
<1>1. Typed'  BY <1>0, TakesFacts DEF Typed, Answer, Setups
<1>2. ResetKnown'  BY <1>0, TakesFacts DEF ResetKnown, Answer
<1>3. OneSetup'  BY <1>0, TakesOneSetup DEF Setups
<1>4. AskFits'  BY <1>0 DEF AskFits, Answer, Typed
<1>5. ConfiguredInv'
  BY <1>0, TakesCurrent, TakesFacts DEF ConfiguredInv, Answer, Sound, ResetKnown, Setups
<1>6. LeakInv'
  BY <1>0, TakesCurrent, TakesFacts DEF LeakInv, Answer, ResetKnown, Setups, AskFits
<1>7. OutAlive'  BY <1>0, TakesFacts DEF OutAlive, Answer, Sound
<1>8. HaltKnown'  BY <1>0 DEF HaltKnown
<1>9. ControlAnswered'  BY <1>0, TakesFacts DEF ControlAnswered, Answer
<1> QED  BY <1>1, <1>2, <1>3, <1>4, <1>5, <1>6, <1>7, <1>8, <1>9

\* Unconfigure preserves the invariant.
LEMMA UnconfigureStep == ASSUME IInv, Unconfigure PROVE IInv'
<1> USE DEF IInv
<1>0. /\ Takes("UNCONFIG") /\ Answer("UNCONFIG") /\ state' = "ADDRESS"
      /\ UNCHANGED <<used, buf, arm, remain, stalled, waiting, halted, again, hist>>
  BY DEF Unconfigure, epVars
<1>1. Typed'  BY <1>0, TakesFacts DEF Typed, Answer, Setups
<1>2. ResetKnown'  BY <1>0, TakesFacts DEF ResetKnown, Answer
<1>3. OneSetup'  BY <1>0, TakesOneSetup DEF Setups
<1>4. AskFits'  BY <1>0 DEF AskFits, Answer, Typed
<1>5. ConfiguredInv'
  BY <1>0, TakesCurrent, TakesFacts DEF ConfiguredInv, Answer, Sound, ResetKnown, Setups
<1>6. LeakInv'
  BY <1>0, TakesCurrent, TakesFacts DEF LeakInv, Answer, ResetKnown, Setups, AskFits
<1>7. OutAlive'  BY <1>0, TakesFacts DEF OutAlive, Answer, Sound
<1>8. HaltKnown'  BY <1>0 DEF HaltKnown
<1>9. ControlAnswered'  BY <1>0, TakesFacts DEF ControlAnswered, Answer
<1> QED  BY <1>1, <1>2, <1>3, <1>4, <1>5, <1>6, <1>7, <1>8, <1>9

\* SetHalt preserves the invariant.
LEMMA SetHaltStep == ASSUME IInv, SetHalt PROVE IInv'
<1> USE DEF IInv
<1>0. /\ Takes("HALT") /\ Answer("HALT") /\ stalled' = TRUE /\ halted' = TRUE
      /\ UNCHANGED <<state, used, buf, arm, remain, waiting, again, hist>>
  BY DEF SetHalt
<1>1. Typed'  BY <1>0, TakesFacts DEF Typed, Answer, Setups
<1>2. ResetKnown'  BY <1>0, TakesFacts DEF ResetKnown, Answer
<1>3. OneSetup'  BY <1>0, TakesOneSetup DEF Setups
<1>4. AskFits'  BY <1>0 DEF AskFits, Answer, Typed
<1>5. ConfiguredInv'
  BY <1>0, TakesCurrent, TakesFacts DEF ConfiguredInv, Answer, Sound, ResetKnown, Setups
<1>6. LeakInv'
  BY <1>0, TakesCurrent, TakesFacts DEF LeakInv, Answer, ResetKnown, Setups, AskFits
<1>7. OutAlive'  BY <1>0, TakesFacts DEF OutAlive, Answer, Sound
<1>8. HaltKnown'  BY <1>0 DEF HaltKnown
<1>9. ControlAnswered'  BY <1>0, TakesFacts DEF ControlAnswered, Answer
<1> QED  BY <1>1, <1>2, <1>3, <1>4, <1>5, <1>6, <1>7, <1>8, <1>9

\* Reset preserves the invariant.
LEMMA ResetStep == ASSUME IInv, Reset PROVE IInv'
<1> USE DEF IInv
<1>0. /\ Takes("RESET")
      /\ IF state = "NOTATTACHED" THEN UNCHANGED <<used, buf>> ELSE FunctionDisable
      /\ state' = "NOTATTACHED"
      /\ UNCHANGED <<arm, remain, stalled, waiting, halted, host, ctl, again, hist>>
  BY DEF Reset, hostVars
<1>a. host = "default" /\ ctl = "none"
  BY <1>0, TakesFacts DEF ResetKnown, Queued
<1>1. Typed'  BY <1>0, TakesFacts DEF Typed, FunctionDisable
<1>2. ResetKnown'  BY <1>0, TakesFacts DEF ResetKnown, Answer
<1>3. OneSetup'  BY <1>0, TakesOneSetup DEF Setups
<1>4. AskFits'  BY <1>0 DEF AskFits
<1>5. ConfiguredInv'  BY <1>0, <1>a DEF ConfiguredInv
<1>6. LeakInv'  BY <1>0, TakesFacts DEF LeakInv, FunctionDisable
<1>7. OutAlive'  BY <1>0, <1>a DEF OutAlive
<1>8. HaltKnown'  BY <1>0 DEF HaltKnown
<1>9. ControlAnswered'  BY <1>0, <1>a DEF ControlAnswered
<1> QED  BY <1>1, <1>2, <1>3, <1>4, <1>5, <1>6, <1>7, <1>8, <1>9

\* ClearHalt preserves the invariant.
LEMMA ClearHaltStep == ASSUME IInv, ClearHalt PROVE IInv'
<1> USE DEF IInv
<1>0. /\ Takes("CLEAR")
      /\ IF stalled
         THEN /\ halted' = FALSE /\ stalled' = FALSE /\ waiting' = FALSE
              /\ arm' = IF waiting THEN buf ELSE arm
              /\ remain' = IF waiting THEN MaxPacket ELSE remain
              /\ Answer("CLEAR") /\ hist' = hist
         ELSE /\ hist' = hist \cup {"unanswered"}
              /\ UNCHANGED <<arm, remain, stalled, waiting, halted, ctl, host>>
      /\ UNCHANGED <<state, used, buf, again>>
  BY DEF ClearHalt, epVars
<1>1. Typed'
  <2>1. remain' \in Int  BY <1>0, SizesAssumption DEF Typed
  <2>2. stalled' \in BOOLEAN /\ waiting' \in BOOLEAN /\ halted' \in BOOLEAN
    BY <1>0 DEF Typed
  <2>3. host' \in {"default", "addressed", "configured"} /\ ctl' \in Setups \cup {"none"}
    BY <1>0 DEF Typed, Answer
  <2> QED  BY <1>0, <2>1, <2>2, <2>3, TakesFacts DEF Typed
<1>2. ResetKnown'  BY <1>0, TakesFacts DEF ResetKnown, Answer
<1>3. OneSetup'  BY <1>0, TakesOneSetup DEF Setups
<1>4. AskFits'  BY <1>0 DEF AskFits, Answer, Typed
<1>5. ConfiguredInv'  BY <1>0, SizesAssumption DEF ConfiguredInv, Answer, Sound, Typed
<1>6. LeakInv'
  BY <1>0, TakesCurrent, TakesFacts DEF LeakInv, Answer, ResetKnown, Setups, AskFits
<1>7. OutAlive'
  BY <1>0, TakesFacts, SizesAssumption DEF OutAlive, Answer, Sound, ConfiguredInv, Typed
<1>8. HaltKnown'  BY <1>0 DEF HaltKnown
<1>9. ControlAnswered'  BY <1>0, TakesFacts DEF ControlAnswered, Answer
<1> QED  BY <1>1, <1>2, <1>3, <1>4, <1>5, <1>6, <1>7, <1>8, <1>9

\* DataNotify preserves the invariant: a packet that is handled arms its endpoint again.
LEMMA DataNotifyStep == ASSUME IInv, DataNotify PROVE IInv'
<1> USE DEF IInv
<1>0. /\ Takes("OUT")
      /\ hist \subseteq hist' /\ hist' \subseteq hist \cup {"ignored", "overflow"}
      /\ \/ (state # "CONFIGURED" \/ remain = 0) /\ UNCHANGED <<arm, remain, waiting>>
         \/ IoRequest(buf, remain - Head(mq).size)
      /\ UNCHANGED <<state, used, buf, stalled, halted, host, ctl, again>>
  BY DEF DataNotify, epVars, hostVars
<1>1. Typed'
  <2>1. remain' \in Int
    <3>1. Head(mq).size \in Int  BY <1>0, TakesFacts, SizesAssumption DEF Messages
    <3> QED  BY <1>0, <3>1, SizesAssumption DEF Typed, IoRequest
  <2>2. waiting' \in BOOLEAN  BY <1>0 DEF Typed, IoRequest
  <2> QED  BY <1>0, <2>1, <2>2, TakesFacts DEF Typed
<1>2. ResetKnown'  BY <1>0, TakesFacts DEF ResetKnown
<1>3. OneSetup'  BY <1>0, TakesOneSetup
<1>4. AskFits'  BY <1>0 DEF AskFits
<1>5. ConfiguredInv'  BY <1>0, SizesAssumption DEF ConfiguredInv, IoRequest, Sound, Typed
<1>6. LeakInv'  BY <1>0, TakesFacts DEF LeakInv
<1>7. OutAlive'
  BY <1>0, TakesFacts, SizesAssumption DEF OutAlive, IoRequest, Sound, ConfiguredInv, HaltKnown, Typed
<1>8. HaltKnown'  BY <1>0 DEF HaltKnown, IoRequest, Typed
<1>9. ControlAnswered'  BY <1>0, TakesFacts DEF ControlAnswered, Typed, Setups
<1> QED  BY <1>1, <1>2, <1>3, <1>4, <1>5, <1>6, <1>7, <1>8, <1>9

\* SetConfig preserves the invariant: the buffer it allocates is the only one if every
\* configuration follows a reset.
LEMMA SetConfigStep == ASSUME IInv, SetConfig PROVE IInv'
<1> USE DEF IInv
<1>0. /\ Takes("CONFIG") /\ FunctionEnable /\ Answer("CONFIG")
      /\ halted' = FALSE /\ state' = "CONFIGURED"
      /\ UNCHANGED <<stalled, again>>
  BY DEF SetConfig
<1>a. PICK b \in Malloc :
        /\ used' = (used \cup {b}) \ {Null} /\ buf' = b
        /\ IoRequest(b, remain)
        /\ hist' = IF b = Null THEN hist \cup {"no_memory"} ELSE hist
        /\ b \in Blocks \cup {Null}
  BY <1>0 DEF FunctionEnable, Malloc
<1>b. ~again /\ "dropped" \notin hist => used = {} /\ b # Null /\ "no_memory" \notin hist
  <2>1. Queued("CONFIG")  BY <1>0, TakesFacts DEF Queued
  <2> QED  BY <2>1, <1>a, NullAssumption, SizesAssumption DEF LeakInv, Malloc
<1>1. Typed'
  <2>1. remain' \in Int  BY <1>a, SizesAssumption DEF Typed, IoRequest
  <2>2. stalled' \in BOOLEAN /\ waiting' \in BOOLEAN /\ halted' \in BOOLEAN
    BY <1>0, <1>a DEF Typed, IoRequest
  <2>3. host' \in {"default", "addressed", "configured"} /\ ctl' \in Setups \cup {"none"}
    BY <1>0 DEF Typed, Answer
  <2>4. used' \subseteq Blocks /\ buf' \in Blocks \cup {Null}  BY <1>a DEF Typed
  <2> QED  BY <1>0, <2>1, <2>2, <2>3, <2>4, TakesFacts DEF Typed
<1>2. ResetKnown'  BY <1>0, TakesFacts DEF ResetKnown, Answer
<1>3. OneSetup'  BY <1>0, <1>a, TakesOneSetup DEF Setups
<1>4. AskFits'  BY <1>0 DEF AskFits, Answer, Typed
<1>5. ConfiguredInv'
  BY <1>0, <1>a, NullAssumption, SizesAssumption DEF ConfiguredInv, IoRequest, Sound, Typed
<1>6. LeakInv'
  BY <1>0, <1>a, <1>b, TakesCurrent, TakesLast, TakesFacts DEF LeakInv, Answer, Setups
<1>7. OutAlive'  BY <1>0, <1>a, SizesAssumption DEF OutAlive, IoRequest, Sound, Typed
<1>8. HaltKnown'  BY <1>0, <1>a DEF HaltKnown, IoRequest, Typed
<1>9. ControlAnswered'  BY <1>0, <1>a, TakesFacts DEF ControlAnswered, Answer
<1> QED  BY <1>1, <1>2, <1>3, <1>4, <1>5, <1>6, <1>7, <1>8, <1>9

\* A packet the host sends preserves the invariant: its message will arm the endpoint again.
LEMMA HostSendsStep == ASSUME IInv, NEW n \in 0..MaxPacket, HostSends(n) PROVE IInv'
<1> USE DEF IInv
<1>0. /\ host = "configured" /\ arm # Nak /\ arm' = Nak /\ ctl \in {"none", "HALT"}
      /\ Signal(Message("OUT", n)) /\ hist' = hist \cup Dropped
      /\ UNCHANGED <<state, used, buf, remain, stalled, waiting, halted, host, ctl, again>>
  BY DEF HostSends
<1>a. Message("OUT", n) \in Messages /\ Message("OUT", n).type = "OUT"
  BY DEF Message, Messages
<1>b. /\ mq' \in Seq(Messages) /\ Len(mq) \in Nat
      /\ hist \subseteq hist' /\ hist' \subseteq hist \cup {"dropped"}
      /\ \A s : Queued(s) => Queued(s)'
      /\ \A s : Queued(s)' => Queued(s) \/ s = "OUT"
      /\ "dropped" \notin hist' =>
            /\ Len(mq') = Len(mq) + 1
            /\ \A k \in 1..Len(mq) : mq'[k] = mq[k]
            /\ mq'[Len(mq) + 1].type = "OUT"
            /\ Queued("OUT")'
  BY <1>0, <1>a, SignalFacts
<1>1. Typed'  BY <1>0, <1>b DEF Typed
<1>2. ResetKnown'  BY <1>0, <1>b DEF ResetKnown
<1>3. OneSetup'
  <2> SUFFICES ASSUME "dropped" \notin hist', NEW k \in 1..Len(mq'), mq'[k].type \in Setups
               PROVE  /\ \A j \in 1..Len(mq') : j < k =>
                            mq'[j].type \notin Setups \cup {"RESET"}
                      /\ ctl' = mq'[k].type \/ Queued("RESET")'
    BY DEF OneSetup
  <2>1. k # Len(mq) + 1  BY <1>b DEF Setups
  <2>2. k \in 1..Len(mq) /\ mq'[k] = mq[k]  BY <1>b, <2>1
  <2>3. \A j \in 1..Len(mq') : j < k => j \in 1..Len(mq) /\ mq'[j] = mq[j]  BY <1>b, <2>2
  <2> QED  BY <1>0, <1>b, <2>2, <2>3 DEF OneSetup
<1>4. AskFits'  BY <1>0 DEF AskFits
<1>5. ConfiguredInv'  BY <1>0, <1>b DEF ConfiguredInv, Sound
<1>6. LeakInv'  BY <1>0, <1>b DEF LeakInv
<1>7. OutAlive'  BY <1>0, <1>b DEF OutAlive, Sound
<1>8. HaltKnown'  BY <1>0 DEF HaltKnown
<1>9. ControlAnswered'  BY <1>0, <1>b DEF ControlAnswered
<1> QED  BY <1>1, <1>2, <1>3, <1>4, <1>5, <1>6, <1>7, <1>8, <1>9

\* A bus reset preserves the invariant.
LEMMA HostResetsStep == ASSUME IInv, HostResets PROVE IInv'
<1> USE DEF IInv
<1>0. /\ host' = "default" /\ ctl' = "none"
      /\ Signal(Message("RESET", 0)) /\ hist' = hist \cup Dropped
      /\ UNCHANGED <<state, used, buf, arm, remain, stalled, waiting, halted, again>>
  BY DEF HostResets, epVars
<1>a. Message("RESET", 0) \in Messages /\ Message("RESET", 0).type = "RESET"
  BY SizesAssumption DEF Message, Messages
<1>b. /\ mq' \in Seq(Messages) /\ Len(mq) \in Nat
      /\ hist \subseteq hist' /\ hist' \subseteq hist \cup {"dropped"}
      /\ \A s : Queued(s)' => Queued(s) \/ s = "RESET"
      /\ "dropped" \notin hist' =>
            /\ Len(mq') = Len(mq) + 1
            /\ \A k \in 1..Len(mq) : mq'[k] = mq[k]
            /\ mq'[Len(mq) + 1].type = "RESET"
            /\ Queued("RESET")'
  BY <1>0, <1>a, SignalFacts
<1>1. Typed'  BY <1>0, <1>b DEF Typed
<1>2. ResetKnown'  BY <1>0 DEF ResetKnown
<1>3. OneSetup'
  <2> SUFFICES ASSUME "dropped" \notin hist', NEW k \in 1..Len(mq'), mq'[k].type \in Setups
               PROVE  \A j \in 1..Len(mq') : j < k => mq'[j].type \notin Setups \cup {"RESET"}
    BY <1>b DEF OneSetup
  <2>1. k # Len(mq) + 1  BY <1>b DEF Setups
  <2>2. k \in 1..Len(mq) /\ mq'[k] = mq[k]  BY <1>b, <2>1
  <2>3. \A j \in 1..Len(mq') : j < k => j \in 1..Len(mq) /\ mq'[j] = mq[j]  BY <1>b, <2>2
  <2> QED  BY <1>0, <1>b, <2>2, <2>3 DEF OneSetup
<1>4. AskFits'  BY <1>0 DEF AskFits
<1>5. ConfiguredInv'  BY <1>0 DEF ConfiguredInv
<1>6. LeakInv'  BY <1>0, <1>b DEF LeakInv
<1>7. OutAlive'  BY <1>0 DEF OutAlive
<1>8. HaltKnown'  BY <1>0 DEF HaltKnown
<1>9. ControlAnswered'  BY <1>0 DEF ControlAnswered
<1> QED  BY <1>1, <1>2, <1>3, <1>4, <1>5, <1>6, <1>7, <1>8, <1>9

\* A control transfer the host starts preserves the invariant.
LEMMA HostAsksStep == ASSUME IInv, NEW m \in Setups, HostAsks(m) PROVE IInv'
<1> USE DEF IInv
<1>0. /\ ctl = "none" /\ ~Queued("RESET") /\ MayAsk(m) /\ ctl' = m
      /\ Signal(Message(m, 0)) /\ hist' = hist \cup Dropped
      /\ again' = (again \/ (host = "configured" /\ m \in {"CONFIG", "UNCONFIG"}))
      /\ UNCHANGED <<state, used, buf, arm, remain, stalled, waiting, halted, host>>
  BY DEF HostAsks, epVars
<1>a. Message(m, 0) \in Messages /\ Message(m, 0).type = m
  BY SizesAssumption DEF Message, Messages
<1>b. /\ mq' \in Seq(Messages) /\ Len(mq) \in Nat
      /\ hist \subseteq hist' /\ hist' \subseteq hist \cup {"dropped"}
      /\ \A s : Queued(s) => Queued(s)'
      /\ \A s : Queued(s)' => Queued(s) \/ s = m
      /\ "dropped" \notin hist' =>
            /\ Len(mq') = Len(mq) + 1
            /\ \A k \in 1..Len(mq) : mq'[k] = mq[k]
            /\ mq'[Len(mq) + 1].type = m
            /\ Queued(m)'
  BY <1>0, <1>a, SignalFacts
<1>1. Typed'  BY <1>0, <1>b DEF Typed
<1>2. ResetKnown'  BY <1>0, <1>b DEF ResetKnown, Setups
<1>3. OneSetup'
  <2> SUFFICES ASSUME "dropped" \notin hist', NEW k \in 1..Len(mq'), mq'[k].type \in Setups
               PROVE  /\ \A j \in 1..Len(mq') : j < k =>
                            mq'[j].type \notin Setups \cup {"RESET"}
                      /\ ctl' = mq'[k].type
    BY DEF OneSetup
  <2>1. \A j \in 1..Len(mq) : mq[j].type \notin Setups \cup {"RESET"}
    BY <1>0, <1>b DEF OneSetup, Queued, Setups
  <2>2. k = Len(mq) + 1  BY <1>b, <2>1
  <2>3. \A j \in 1..Len(mq') : j < k => j \in 1..Len(mq) /\ mq'[j] = mq[j]  BY <1>b, <2>2
  <2> QED  BY <1>0, <1>b, <2>1, <2>2, <2>3
<1>4. AskFits'  BY <1>0 DEF AskFits, MayAsk, Typed
<1>5. ConfiguredInv'  BY <1>0, <1>b DEF ConfiguredInv, Sound
<1>6. LeakInv'  BY <1>0, <1>b DEF LeakInv, MayAsk, Setups, Typed
<1>7. OutAlive'  BY <1>0, <1>b DEF OutAlive, Sound
<1>8. HaltKnown'  BY <1>0 DEF HaltKnown
<1>9. ControlAnswered'  BY <1>0, <1>b DEF ControlAnswered
<1> QED  BY <1>1, <1>2, <1>3, <1>4, <1>5, <1>6, <1>7, <1>8, <1>9

\* Giving up a control transfer preserves the invariant.
LEMMA HostGivesUpStep == ASSUME IInv, HostGivesUp PROVE IInv'
<1> USE DEF IInv
<1>0. /\ ctl # "none" /\ ~Queued(ctl) /\ ctl' = "none"
      /\ UNCHANGED <<state, mq, used, buf, arm, remain, stalled, waiting, halted, host, hist,
                     again>>
  BY DEF HostGivesUp, epVars
<1>1. Typed'  BY <1>0 DEF Typed
<1>2. ResetKnown'  BY <1>0 DEF ResetKnown, Queued
<1>3. OneSetup'  BY <1>0 DEF OneSetup, Queued
<1>4. AskFits'  BY <1>0 DEF AskFits
<1>5. ConfiguredInv'  BY <1>0 DEF ConfiguredInv, Sound
<1>6. LeakInv'  BY <1>0 DEF LeakInv, Queued
<1>7. OutAlive'  BY <1>0 DEF OutAlive, Sound, Queued
<1>8. HaltKnown'  BY <1>0 DEF HaltKnown
<1>9. ControlAnswered'  BY <1>0 DEF ControlAnswered
<1> QED  BY <1>1, <1>2, <1>3, <1>4, <1>5, <1>6, <1>7, <1>8, <1>9

\* Steps of the users of the port do not touch what the invariant is about.
LEMMA UserStep ==
    ASSUME IInv, UNCHANGED <<state, mq, epVars, hostVars, hist>>
    PROVE  IInv'
<1> USE DEF IInv
<1>0. UNCHANGED <<state, mq, used, buf, arm, remain, stalled, waiting, halted, host, ctl,
                  again, hist>>
  BY DEF epVars, hostVars
<1>1. Typed'  BY <1>0 DEF Typed
<1>2. ResetKnown'  BY <1>0 DEF ResetKnown, Queued
<1>3. OneSetup'  BY <1>0 DEF OneSetup, Queued
<1>4. AskFits'  BY <1>0 DEF AskFits
<1>5. ConfiguredInv'  BY <1>0 DEF ConfiguredInv, Sound
<1>6. LeakInv'  BY <1>0 DEF LeakInv, Queued
<1>7. OutAlive'  BY <1>0 DEF OutAlive, Sound, Queued
<1>8. HaltKnown'  BY <1>0 DEF HaltKnown
<1>9. ControlAnswered'  BY <1>0 DEF ControlAnswered, Queued
<1> QED  BY <1>1, <1>2, <1>3, <1>4, <1>5, <1>6, <1>7, <1>8, <1>9

\* The invariant is inductive.
LEMMA IInvStep == IInv /\ [Next]_vars => IInv'
<1> SUFFICES ASSUME IInv, [Next]_vars PROVE IInv'
  OBVIOUS
<1>1. CASE UNCHANGED vars  BY <1>1, UserStep DEF vars, epVars, hostVars
<1>2. CASE MainOpens \/ ReadByte  BY <1>2, UserStep DEF MainOpens, ReadByte
<1> QED
  BY <1>1, <1>2, DataNotifyStep, ResetStep, SetAddressStep, UnconfigureStep, SetConfigStep,
     SetHaltStep, ClearHaltStep, HostSendsStep, HostResetsStep, HostAsksStep, HostGivesUpStep
     DEF Next, Usbd

\* It holds initially.
LEMMA InitIInv == Init => IInv
<1> SUFFICES ASSUME Init PROVE IInv
  OBVIOUS
<1>1. mq \in Seq(Messages) /\ Len(mq) = 0 /\ \A s : ~Queued(s)  BY DEF Init, Queued
<1>2. Typed
  <2>1. stalled \in BOOLEAN /\ waiting \in BOOLEAN /\ halted \in BOOLEAN /\ again \in BOOLEAN
    BY DEF Init
  <2>2. remain \in Int  BY DEF Init
  <2>3. used \subseteq Blocks /\ buf \in Blocks \cup {Null}  BY DEF Init
  <2>4. host \in {"default", "addressed", "configured"} /\ ctl \in Setups \cup {"none"}
    BY DEF Init
  <2> QED  BY <1>1, <2>1, <2>2, <2>3, <2>4 DEF Typed
<1>3. HaltKnown  BY DEF Init, HaltKnown
<1> QED
  BY <1>1, <1>2, <1>3 DEF Init, IInv, ResetKnown, OneSetup, AskFits, ConfiguredInv, LeakInv,
     OutAlive, ControlAnswered

\* Every reachable state satisfies it.
LEMMA AlwaysIInv == Spec => []IInv
  BY InitIInv, IInvStep, PTL DEF Spec

\* The OUT endpoint of a device the host knows to be configured is armed, has a packet
\* queued whose handling arms it, or has its request kept for the end of a halt.
THEOREM OutNeverForgotten == Spec => []OutAlive
<1>1. IInv => OutAlive  BY DEF IInv
<1> QED  BY <1>1, AlwaysIInv, PTL

\* _function_enable and _function_disable keep the endpoint's buffer: no packet is
\* received into a freed block, and no restart of the device that goes through a reset
\* leaks one or runs out of them.
THEOREM BufferNeverLost == Spec => []BufferLives
<1>1. IInv => BufferLives  BY DEF IInv, BufferLives, ConfiguredInv, LeakInv
<1> QED  BY <1>1, AlwaysIInv, PTL

\* The core knows of every halt the host can meet and of every request kept for its end.
THEOREM HaltsAreKnown == Spec => []HaltKnown
<1>1. IInv => HaltKnown  BY DEF IInv
<1> QED  BY <1>1, AlwaysIInv, PTL

\* Every control transfer under way has its message queued for usbd.
THEOREM TransfersAnswered == Spec => []ControlAnswered
<1>1. IInv => ControlAnswered  BY DEF IInv
<1> QED  BY <1>1, AlwaysIInv, PTL

-----------------------------------------------------------------------------
(* Bytes received.                                                         *)

\* What the reader has comes first in the trail, then the fifo.
LEMMA TrailFacts ==
    ASSUME got \in Seq(Int), fifo \in Seq(Int)
    PROVE  /\ Len(got) \in Nat /\ Len(fifo) \in Nat
           /\ trail \in Seq(Int) /\ Len(trail) = Len(got) + Len(fifo)
           /\ \A i \in 1..Len(got) : trail[i] = got[i]
           /\ \A i \in 1..Len(fifo) : trail[Len(got) + i] = fifo[i]
<1>1. Len(got) \in Nat /\ Len(fifo) \in Nat  OBVIOUS
<1>2. /\ trail \in Seq(Int) /\ Len(trail) = Len(got) + Len(fifo)
      /\ \A i \in 1..Len(trail) :
            trail[i] = IF i <= Len(got) THEN got[i] ELSE fifo[i - Len(got)]
  BY ConcatProperties DEF trail
<1>3. \A i \in 1..Len(got) : trail[i] = got[i]  BY <1>1, <1>2
<1>4. ASSUME NEW i \in 1..Len(fifo) PROVE trail[Len(got) + i] = fifo[i]
  <2>1. Len(got) + i \in 1..Len(trail) /\ ~(Len(got) + i <= Len(got))
        /\ (Len(got) + i) - Len(got) = i
    BY <1>1, <1>2, SMTT(30)
  <2> QED  BY <1>2, <2>1
<1> QED  BY <1>1, <1>2, <1>3, <1>4

\* Storing bytes in the fifo appends some first part of them and drops some of the oldest;
\* if the fifo has room it appends all and drops none.
LEMMA StoreFacts ==
    ASSUME fifo \in Seq(Int), Len(fifo) < RxSize, NEW bytes \in Seq(Int), StoreBytes(bytes)
    PROVE  \E n \in 0..Len(bytes) : \E d \in 0..(Len(fifo) + n) :
               /\ fifo' \in Seq(Int) /\ Len(fifo') = (Len(fifo) + n) - d /\ Len(fifo') < RxSize
               /\ \A i \in 1..Len(fifo') :
                     fifo'[i] = IF i + d <= Len(fifo) THEN fifo[i + d]
                                ELSE bytes[(i + d) - Len(fifo)]
               /\ Len(fifo) + Len(bytes) <= RxSize - 1 => n = Len(bytes) /\ d = 0
<1> DEFINE n == IF Len(bytes) < RxSize THEN Len(bytes) ELSE RxSize
           part == SubSeq(bytes, 1, n)
           all == fifo \o part
           over == Len(all) - (RxSize - 1)
           d == IF over > 0 THEN over ELSE 0
<1>1. Len(fifo) \in Nat /\ Len(bytes) \in Nat /\ n \in 0..Len(bytes) /\ n \in Nat
      /\ RxSize \in Nat \ {0}
  BY SizesAssumption
<1>2. part \in Seq(Int) /\ Len(part) = n /\ \A i \in 1..n : part[i] = bytes[i]
  <2> HIDE DEF n
  <2>1. \A i \in 1..n : bytes[i] \in Int  BY <1>1, ElementOfSeq
  <2>2. /\ part \in Seq(Int) /\ Len(part) = IF 1 <= n THEN n - 1 + 1 ELSE 0
        /\ \A i \in 1..(n - 1 + 1) : part[i] = bytes[1 + i - 1]
    BY <1>1, <2>1, SubSeqProperties
  <2> HIDE DEF part
  <2> QED  BY <1>1, <2>2
<1> HIDE DEF n, part
<1>3. /\ all \in Seq(Int) /\ Len(all) = Len(fifo) + n
      /\ \A i \in 1..Len(all) : all[i] = IF i <= Len(fifo) THEN fifo[i] ELSE part[i - Len(fifo)]
  <2>1. /\ fifo \o part \in Seq(Int) /\ Len(fifo \o part) = Len(fifo) + n
        /\ \A i \in 1..Len(fifo) + n :
              (fifo \o part)[i] = IF i <= Len(fifo) THEN fifo[i] ELSE part[i - Len(fifo)]
    BY <1>2, ConcatProperties
  <2> QED  BY <2>1
<1>4. fifo' = IF over > 0 THEN SubSeq(all, over + 1, Len(all)) ELSE all
  BY DEF StoreBytes, n, part
<1> HIDE DEF all
<1>5. over \in Int /\ d \in 0..(Len(fifo) + n) /\ d \in Nat  BY <1>1, <1>3
<1>6. /\ fifo' \in Seq(Int) /\ Len(fifo') = Len(all) - d
      /\ \A i \in 1..Len(fifo') : fifo'[i] = all[i + d]
  <2>1. CASE over > 0
    <3>1. fifo' = SubSeq(all, over + 1, Len(all))  BY <2>1, <1>4
    <3>2. over \in 1..Len(all) /\ Len(all) \in Nat  BY <2>1, <1>1, <1>3
    <3> HIDE DEF over
    <3>3. fifo' \in Seq(Int) /\ Len(fifo') = Len(all) - over
      BY <3>1, <3>2, <1>3, SubSeqProperties, ElementOfSeq
    <3>4. \A i \in 1..Len(fifo') : fifo'[i] = all[i + over]
      BY <3>1, <3>2, <3>3, <1>3, SubSeqProperties
    <3> QED  BY <3>3, <3>4, <2>1
  <2>2. CASE ~(over > 0)
    <3>1. fifo' = all /\ d = 0  BY <2>2, <1>4
    <3> QED  BY <3>1, <1>3
  <2> QED  BY <2>1, <2>2
<1>7. Len(fifo') = (Len(fifo) + n) - d /\ Len(fifo') < RxSize
  <2>1. Len(all) \in Nat /\ RxSize \in Nat  BY <1>1, <1>3
  <2>2. Len(all) - d < RxSize  BY <2>1
  <2> HIDE DEF d
  <2>3. Len(all) = Len(fifo) + n /\ d \in Nat /\ Len(fifo') = Len(all) - d  BY <1>3, <1>5, <1>6
  <2> QED  BY <1>1, <2>1, <2>2, <2>3
<1>8. Len(fifo) + Len(bytes) <= RxSize - 1 => n = Len(bytes) /\ d = 0
  BY <1>1, <1>3 DEF n
<1> HIDE DEF d
<1>9. ASSUME NEW i \in 1..Len(fifo')
      PROVE  fifo'[i] = IF i + d <= Len(fifo) THEN fifo[i + d] ELSE bytes[(i + d) - Len(fifo)]
  <2>1. i + d \in 1..Len(all)  BY <1>1, <1>3, <1>5, <1>7
  <2>2. CASE i + d <= Len(fifo)  BY <2>1, <2>2, <1>3, <1>6
  <2>3. CASE ~(i + d <= Len(fifo))
    <3>1. (i + d) - Len(fifo) \in 1..n  BY <2>1, <2>3, <1>1, <1>3, <1>5
    <3>2. all[i + d] = part[(i + d) - Len(fifo)]  BY <2>1, <2>3, <1>3
    <3>3. part[(i + d) - Len(fifo)] = bytes[(i + d) - Len(fifo)]  BY <3>1, <1>2
    <3>4. fifo'[i] = all[i + d]  BY <1>6
    <3> QED  BY <2>3, <3>2, <3>3, <3>4
  <2> QED  BY <2>2, <2>3
<1> HIDE DEF over
<1>10. /\ fifo' \in Seq(Int) /\ Len(fifo') = (Len(fifo) + n) - d /\ Len(fifo') < RxSize
       /\ \A i \in 1..Len(fifo') :
             fifo'[i] = IF i + d <= Len(fifo) THEN fifo[i + d] ELSE bytes[(i + d) - Len(fifo)]
       /\ Len(fifo) + Len(bytes) <= RxSize - 1 => n = Len(bytes) /\ d = 0
  BY <1>6, <1>7, <1>8, <1>9
<1> QED  BY <1>1, <1>5, <1>10

\* Handling any other message than a received packet preserves the receive invariant.
LEMMA RxTakes ==
    ASSUME IInv, RxInv, NEW t, Takes(t), t # "OUT", t = "HALT" => UNCHANGED <<arm, buf>>,
           UNCHANGED <<mem, got, fifo, sent>>, hist \subseteq hist'
    PROVE  RxInv'
<1> USE DEF RxInv, IInv
<1>0. UNCHANGED trail  BY DEF trail
<1>1. RxTyped'  BY DEF RxTyped
<1>2. ASSUME "dropped" \notin hist', NEW k \in 1..Len(mq'), mq'[k].type = "OUT"
      PROVE  /\ UNCHANGED <<arm, buf>> /\ arm = Nak
             /\ k + 1 \in 1..Len(mq) /\ mq[k + 1] = mq'[k]
             /\ \A j \in 1..Len(mq') : j < k => mq'[j].type = "HALT"
  <2>1. /\ k + 1 \in 1..Len(mq) /\ mq[k + 1] = mq'[k] /\ 1 \in 1..Len(mq) /\ 1 < k + 1
        /\ mq[1].type = t
    BY TakesFacts
  <2>2. arm = Nak /\ \A j \in 1..Len(mq) : j < k + 1 => mq[j].type = "HALT"
    BY <1>2, <2>1 DEF OneOut
  <2>3. t = "HALT"  BY <2>1, <2>2
  <2>4. \A j \in 1..Len(mq') : j < k =>
            j + 1 \in 1..Len(mq) /\ mq'[j] = mq[j + 1] /\ j + 1 < k + 1
    BY TakesFacts
  <2> QED  BY <2>1, <2>2, <2>3, <2>4
<1>3. OneOut'  BY <1>2 DEF OneOut
<1>4. OutHeld'  BY <1>0, <1>2 DEF OutHeld, Held, Sound
<1>5. TrailInv'
  <2>1. Queued("OUT") => Queued("OUT")'  BY TakesFacts
  <2> QED  BY <1>0, <2>1 DEF TrailInv, Sound
<1> QED  BY <1>1, <1>3, <1>4, <1>5

\* Signalling any other message than a received packet preserves it.
LEMMA RxSignals ==
    ASSUME IInv, RxInv, NEW m \in Messages, m.type # "OUT",
           Signal(m), hist' = hist \cup Dropped,
           UNCHANGED <<mem, got, fifo, sent, arm, buf>>
    PROVE  RxInv'
<1> USE DEF RxInv, IInv
<1>0. UNCHANGED trail  BY DEF trail
<1>1. RxTyped'  BY DEF RxTyped
<1>2. ASSUME "dropped" \notin hist', NEW k \in 1..Len(mq'), mq'[k].type = "OUT"
      PROVE  /\ k \in 1..Len(mq) /\ mq[k] = mq'[k] /\ "dropped" \notin hist
             /\ \A j \in 1..Len(mq') : j < k => mq'[j].type = "HALT"
  <2>1. k # Len(mq) + 1  BY <1>2, SignalFacts
  <2>2. k \in 1..Len(mq) /\ mq[k] = mq'[k] /\ "dropped" \notin hist
    BY <1>2, <2>1, SignalFacts
  <2>3. \A j \in 1..Len(mq') : j < k => j \in 1..Len(mq) /\ mq'[j] = mq[j]
    BY <1>2, <2>2, SignalFacts
  <2>4. mq[k].type = "OUT"  BY <1>2, <2>2
  <2>5. \A j \in 1..Len(mq) : j < k => mq[j].type = "HALT"  BY <2>2, <2>4 DEF OneOut
  <2> QED  BY <2>2, <2>3, <2>5
<1>3. OneOut'  BY <1>2 DEF OneOut
<1>4. hist \subseteq hist'  OBVIOUS
<1>5. OutHeld'  BY <1>0, <1>2, <1>4 DEF OutHeld, Held, Sound
<1>6. TrailInv'
  <2>1. Queued("OUT") => Queued("OUT")'  BY SignalFacts
  <2> QED  BY <1>0, <1>4, <2>1 DEF TrailInv, Sound
<1> QED  BY <1>1, <1>3, <1>5, <1>6

\* A step that leaves what was received alone preserves it, and so does one that only
\* moves a byte from the fifo to its reader.
LEMMA RxQuiet ==
    ASSUME RxInv, UNCHANGED <<mq, mem, arm, buf, sent, hist>>, UNCHANGED trail,
           got' \in Seq(Int), fifo' \in Seq(Int), Len(fifo') < RxSize
    PROVE  RxInv'
  BY DEF RxInv, RxTyped, OneOut, OutHeld, Held, Sound, TrailInv, Queued

\* Reading a byte takes it from the fifo's front to the end of what was read.
LEMMA ReadByteTrail ==
    ASSUME got \in Seq(Int), fifo \in Seq(Int), ReadByte
    PROVE  /\ UNCHANGED trail
           /\ got' \in Seq(Int) /\ fifo' \in Seq(Int) /\ Len(fifo') = Len(fifo) - 1
<1>1. /\ fifo # <<>> /\ got' = Append(got, Head(fifo)) /\ fifo' = Tail(fifo)
  BY DEF ReadByte
<1>2. got' \in Seq(Int) /\ fifo' \in Seq(Int) /\ Len(fifo') = Len(fifo) - 1  BY <1>1
<1>3. Append(got, Head(fifo)) \o Tail(fifo) = got \o fifo
  <2> DEFINE a == Append(got, Head(fifo))
             t == Tail(fifo)
             n == Len(got) + Len(fifo)
  <2>1. /\ Len(got) \in Nat /\ Len(fifo) \in Nat \ {0} /\ Head(fifo) = fifo[1]
        /\ Head(fifo) \in Int /\ n \in Nat
    BY <1>1
  <2>2. /\ a \in Seq(Int) /\ Len(a) = Len(got) + 1 /\ a[Len(got) + 1] = Head(fifo)
        /\ \A i \in 1..Len(got) : a[i] = got[i]
    BY <2>1, AppendProperties
  <2>3. /\ t \in Seq(Int) /\ Len(t) = Len(fifo) - 1
        /\ \A i \in 1..Len(t) : t[i] = fifo[i + 1]
    BY <1>1, HeadTailProperties
  <2> HIDE DEF a, t
  <2>4. /\ a \o t \in Seq(Int) /\ Len(a \o t) = Len(a) + Len(t)
        /\ \A i \in 1..(Len(a) + Len(t)) :
              (a \o t)[i] = IF i <= Len(a) THEN a[i] ELSE t[i - Len(a)]
    BY <2>2, <2>3, ConcatProperties
  <2>5. /\ got \o fifo \in Seq(Int) /\ Len(got \o fifo) = n
        /\ \A i \in 1..n :
              (got \o fifo)[i] = IF i <= Len(got) THEN got[i] ELSE fifo[i - Len(got)]
    BY ConcatProperties
  <2>6. Len(a) + Len(t) = n  BY <2>1, <2>2, <2>3
  <2>7. ASSUME NEW i \in 1..n PROVE (a \o t)[i] = (got \o fifo)[i]
    <3>1. CASE i <= Len(got)  BY <3>1, <2>1, <2>2, <2>4, <2>5, <2>6
    <3>2. CASE i = Len(got) + 1
      <4>1. ~(i <= Len(got)) /\ i - Len(got) = 1 /\ i <= Len(a)  BY <3>2, <2>1, <2>2
      <4> QED  BY <4>1, <3>2, <2>1, <2>2, <2>4, <2>5, <2>6
    <3>3. CASE i > Len(got) + 1
      <4>1. /\ ~(i <= Len(got)) /\ ~(i <= Len(a)) /\ i - Len(a) \in 1..Len(t)
            /\ (i - Len(a)) + 1 = i - Len(got)
        BY <3>3, <2>1, <2>2, <2>3, SMTT(30)
      <4>2. (a \o t)[i] = t[i - Len(a)] /\ (got \o fifo)[i] = fifo[i - Len(got)]
        BY <4>1, <2>4, <2>5, <2>6
      <4> QED  BY <4>1, <4>2, <2>3
    <3>4. i <= Len(got) \/ i = Len(got) + 1 \/ i > Len(got) + 1  BY <2>1
    <3> QED  BY <3>1, <3>2, <3>3, <3>4
  <2>8. a \o t = got \o fifo  BY <2>4, <2>5, <2>6, <2>7, SeqEqual
  <2> QED  BY <2>8 DEF a, t
<1> QED  BY <1>1, <1>2, <1>3 DEF trail

\* A packet the host sends is in the armed block, which is the endpoint's buffer.
LEMMA RxHostSends ==
    ASSUME IInv, RxInv, NEW n \in 0..MaxPacket, HostSends(n)
    PROVE  RxInv'
<1> USE DEF RxInv, IInv
<1>0. /\ host = "configured" /\ arm # Nak /\ arm' = Nak /\ sent' = sent + n
      /\ ctl \in {"none", "HALT"}
      /\ mem' = IF arm = Null THEN mem
                ELSE [mem EXCEPT ![arm] =
                         [k \in 1..MaxPacket |-> IF k <= n THEN sent + k ELSE @[k]]]
      /\ Signal(Message("OUT", n)) /\ hist' = hist \cup Dropped
      /\ UNCHANGED <<buf, got, fifo>>
  BY DEF HostSends, rxVars
<1>a. n \in Nat /\ sent \in Nat /\ MaxPacket \in Nat  BY SizesAssumption DEF RxTyped
<1>b. UNCHANGED trail /\ trail \in Seq(Int) /\ Len(trail) \in Nat
  BY <1>0, TrailFacts DEF trail, RxTyped
<1>c. Message("OUT", n) \in Messages /\ Message("OUT", n).type = "OUT"
      /\ Message("OUT", n).size = n
  BY DEF Message, Messages
<1>d. /\ Len(mq) \in Nat /\ hist \subseteq hist' /\ hist' \subseteq hist \cup {"dropped"}
      /\ "dropped" \notin hist' =>
            /\ Len(mq') = Len(mq) + 1
            /\ \A k \in 1..Len(mq) : mq'[k] = mq[k]
            /\ mq'[Len(mq) + 1] = Message("OUT", n)
            /\ Queued("OUT")'
  BY <1>0, <1>c, SignalFacts
<1>1. RxTyped'
  <2>1. sent' \in Nat  BY <1>0, <1>a
  <2>2. mem' \in [Blocks \cup {Null} -> [1..MaxPacket -> Int]]
    <3>1. [k \in 1..MaxPacket |-> IF k <= n THEN sent + k ELSE mem[arm][k]]
             \in [1..MaxPacket -> Int] \/ arm \notin Blocks \cup {Null}
      BY <1>a DEF RxTyped
    <3> QED  BY <1>0, <3>1 DEF RxTyped
  <2> QED  BY <1>0, <2>1, <2>2 DEF RxTyped
<1>2. ASSUME "dropped" \notin hist'
      PROVE  /\ \A k \in 1..Len(mq) : mq[k].type = "HALT"
             /\ \A k \in 1..Len(mq') : mq'[k].type = "OUT" => k = Len(mq) + 1
  <2>1. \A k \in 1..Len(mq) : mq[k].type # "OUT"  BY <1>0, <1>2, <1>d DEF OneOut
  <2>2. ~Queued("RESET")  BY <1>0 DEF ResetKnown
  <2>3. \A k \in 1..Len(mq) : mq[k].type \in Setups => mq[k].type = "HALT"
    <3>1. \A k \in 1..Len(mq) : mq[k].type \in Setups => ctl = mq[k].type
      BY <1>2, <1>d, <2>2 DEF OneSetup
    <3> QED  BY <1>0, <3>1 DEF Setups
  <2>4. \A k \in 1..Len(mq) : mq[k].type \in Setups \cup {"OUT", "RESET"}
    <3>1. \A k \in 1..Len(mq) : mq[k] \in Messages  BY ElementOfSeq DEF Typed
    <3> QED  BY <3>1 DEF Messages
  <2>5. \A k \in 1..Len(mq) : mq[k].type = "HALT"  BY <2>1, <2>2, <2>3, <2>4 DEF Queued
  <2>6. \A k \in 1..Len(mq') : k \in 1..Len(mq) \/ k = Len(mq) + 1  BY <1>2, <1>d
  <2> QED  BY <1>2, <1>d, <2>5, <2>6
<1>3. OneOut'
  <2> SUFFICES ASSUME "dropped" \notin hist', NEW k \in 1..Len(mq'), mq'[k].type = "OUT"
               PROVE  \A j \in 1..Len(mq') : j < k => mq'[j].type = "HALT"
    BY <1>0 DEF OneOut
  <2>1. \A j \in 1..Len(mq') : j < k => j \in 1..Len(mq)  BY <1>2, <1>d
  <2> QED  BY <1>2, <1>d, <2>1
<1>4. ASSUME Sound' PROVE Held(n)'
  <2>1. "dropped" \notin hist' /\ Sound  BY <1>4, <1>d DEF Sound
  <2>2. arm = buf /\ buf \in Blocks /\ buf # Null
    BY <1>0, <2>1, NullAssumption DEF ConfiguredInv, Typed
  <2>3. \A i \in 1..n : mem'[buf][i] = sent + i
    <3>1. mem' = [mem EXCEPT ![buf] = [k \in 1..MaxPacket |-> IF k <= n THEN sent + k ELSE @[k]]]
      BY <1>0, <2>2
    <3>2. mem'[buf] = [k \in 1..MaxPacket |-> IF k <= n THEN sent + k ELSE mem[buf][k]]
      BY <3>1, <2>2 DEF RxTyped
    <3>3. \A i \in 1..n : i \in 1..MaxPacket /\ i <= n  BY <1>a
    <3> QED  BY <3>2, <3>3
  <2>4. \A i \in 1..n : mem'[buf'][i] = sent' - n + i
    <3>1. buf' = buf /\ \A i \in 1..n : sent' - n + i = sent + i  BY <1>0, <1>a
    <3> QED  BY <2>3, <3>1
  <2>5. \A i \in 1..Len(trail') : trail'[i] <= sent' - n
    <3>1. sent' - n = sent  BY <1>0, <1>a
    <3> QED  BY <1>b, <2>1, <3>1 DEF TrailInv
  <2>6. hist' = {} => Len(trail') = sent' - n
    <3>1. sent' - n = sent  BY <1>0, <1>a
    <3>2. ~Queued("OUT")  BY <1>2, <2>1 DEF Queued
    <3> QED  BY <1>b, <1>d, <3>1, <3>2 DEF TrailInv
  <2> QED  BY <1>0, <2>2, <2>4, <2>5, <2>6 DEF Held
<1>5. OutHeld'
  <2> SUFFICES ASSUME Sound', NEW k \in 1..Len(mq'), mq'[k].type = "OUT"
               PROVE  Held(n)' /\ mq'[k].size = n
    BY DEF OutHeld
  <2>1. "dropped" \notin hist'  BY DEF Sound
  <2> QED  BY <1>2, <1>4, <1>c, <1>d, <2>1
<1>6. TrailInv'
  <2>1. Sound' => Sound /\ "dropped" \notin hist'  BY <1>d DEF Sound
  <2>2. \A i \in 1..Len(trail) : trail[i] \in Int  BY <1>b, ElementOfSeq
  <2>3. ASSUME Sound' PROVE \A i \in 1..Len(trail') : trail'[i] <= sent'
    BY <1>0, <1>a, <1>b, <2>1, <2>2, <2>3 DEF TrailInv
  <2>4. hist' = {} => hist = {} /\ Queued("OUT")'  BY <1>d
  <2> QED  BY <1>b, <2>1, <2>3, <2>4 DEF TrailInv
<1> QED  BY <1>1, <1>3, <1>5, <1>6

\* A packet that is handled goes to the end of the fifo, whose oldest bytes may give way.
LEMMA RxStores ==
    ASSUME RxTyped, buf \in Blocks \cup {Null}, NEW size \in 0..MaxPacket,
           StoreBytes(SubSeq(mem[buf], 1, size)), UNCHANGED got,
           NEW h, h = {} => Len(fifo) + size <= RxSize - 1
    PROVE  /\ fifo' \in Seq(Int) /\ Len(fifo') < RxSize
           /\ Sound /\ Held(size) /\ TrailInv =>
                 /\ \A i \in 1..Len(trail') : trail'[i] <= sent
                 /\ \A j, k \in 1..Len(trail') : j < k => trail'[j] < trail'[k]
                 /\ hist = {} /\ h = {} => /\ \A i \in 1..Len(trail') : trail'[i] = i
                                         /\ Len(trail') = sent
<1> DEFINE bytes == SubSeq(mem[buf], 1, size)
<1>1. size \in Nat /\ sent \in Nat /\ Len(got) \in Nat /\ Len(fifo) \in Nat
  BY SizesAssumption DEF RxTyped
<1>2. bytes \in Seq(Int) /\ Len(bytes) = size /\ \A i \in 1..size : bytes[i] = mem[buf][i]
  <2>1. \A i \in 1..size : mem[buf][i] \in Int
    <3>1. mem[buf] \in [1..MaxPacket -> Int]  BY DEF RxTyped
    <3>2. \A i \in 1..size : i \in 1..MaxPacket  BY SizesAssumption
    <3> QED  BY <3>1, <3>2
  <2>2. /\ bytes \in Seq(Int) /\ Len(bytes) = IF 1 <= size THEN size - 1 + 1 ELSE 0
        /\ \A i \in 1..(size - 1 + 1) : bytes[i] = mem[buf][1 + i - 1]
    BY <1>1, <2>1, SubSeqProperties
  <2> HIDE DEF bytes
  <2> QED  BY <1>1, <2>2
<1>3. StoreBytes(bytes)  OBVIOUS
<1> HIDE DEF bytes
<1>4. PICK n \in 0..size : \E d \in 0..(Len(fifo) + n) :
         /\ fifo' \in Seq(Int) /\ Len(fifo') = (Len(fifo) + n) - d /\ Len(fifo') < RxSize
         /\ \A i \in 1..Len(fifo') :
               fifo'[i] = IF i + d <= Len(fifo) THEN fifo[i + d]
                          ELSE bytes[(i + d) - Len(fifo)]
         /\ Len(fifo) + size <= RxSize - 1 => n = size /\ d = 0
  BY <1>2, <1>3, StoreFacts DEF RxTyped
<1>5. PICK d \in 0..(Len(fifo) + n) :
         /\ fifo' \in Seq(Int) /\ Len(fifo') = (Len(fifo) + n) - d /\ Len(fifo') < RxSize
         /\ \A i \in 1..Len(fifo') :
               fifo'[i] = IF i + d <= Len(fifo) THEN fifo[i + d]
                          ELSE bytes[(i + d) - Len(fifo)]
         /\ Len(fifo) + size <= RxSize - 1 => n = size /\ d = 0
  BY <1>4
<1>6. SUFFICES ASSUME Sound, Held(size), TrailInv
               PROVE  /\ \A i \in 1..Len(trail') : trail'[i] <= sent
                      /\ \A j, k \in 1..Len(trail') : j < k => trail'[j] < trail'[k]
                      /\ hist = {} /\ h = {} => /\ \A i \in 1..Len(trail') : trail'[i] = i
                                              /\ Len(trail') = sent
  BY <1>5
<1> DEFINE at(i) == IF i <= Len(got) THEN i ELSE i + d
           val(i) == IF i <= Len(trail) THEN trail[i] ELSE bytes[i - Len(trail)]
           top == Len(trail) + n
<1>7. /\ trail \in Seq(Int) /\ Len(trail) = Len(got) + Len(fifo) /\ Len(trail) \in Nat
      /\ \A i \in 1..Len(got) : trail[i] = got[i]
      /\ \A i \in 1..Len(fifo) : trail[Len(got) + i] = fifo[i]
      /\ \A i \in 1..Len(trail) : trail[i] \in Int
  BY <1>1, TrailFacts, ElementOfSeq DEF RxTyped
<1>8. /\ Len(trail') = Len(got) + Len(fifo') /\ Len(trail') = top - d
      /\ \A i \in 1..Len(got) : trail'[i] = got[i]
      /\ \A i \in 1..Len(fifo') : trail'[Len(got) + i] = fifo'[i]
  <2>1. /\ trail' = got \o fifo' /\ Len(got \o fifo') = Len(got) + Len(fifo')
        /\ \A i \in 1..(Len(got) + Len(fifo')) :
              (got \o fifo')[i] = IF i <= Len(got) THEN got[i] ELSE fifo'[i - Len(got)]
    BY <1>5, ConcatProperties DEF trail, RxTyped
  <2>2. \A i \in 1..Len(got) : trail'[i] = got[i]  BY <1>1, <1>5, <2>1
  <2>3. ASSUME NEW i \in 1..Len(fifo') PROVE trail'[Len(got) + i] = fifo'[i]
    <3>1. /\ Len(got) + i \in 1..(Len(got) + Len(fifo')) /\ ~(Len(got) + i <= Len(got))
          /\ (Len(got) + i) - Len(got) = i
      BY <1>1, <1>5
    <3> QED  BY <2>1, <3>1
  <2>4. Len(got) + Len(fifo') = top - d  BY <1>1, <1>5, <1>7
  <2> QED  BY <2>1, <2>2, <2>3, <2>4
<1>9. ASSUME NEW i \in 1..Len(trail')
      PROVE  at(i) \in 1..top /\ trail'[i] = val(at(i))
  <2>1. CASE i <= Len(got)
    <3>1. i \in 1..Len(got) /\ i <= Len(trail) /\ i \in 1..top  BY <2>1, <1>1, <1>7, SMTT(30)
    <3> QED  BY <2>1, <3>1, <1>7, <1>8
  <2>2. CASE ~(i <= Len(got))
    <3> DEFINE m == i - Len(got)
    <3>1. m \in 1..Len(fifo') /\ i = Len(got) + m /\ i + d \in 1..top /\ m + d \in Nat \ {0}
      BY <2>2, <1>1, <1>5, <1>7, <1>8, SMTT(30)
    <3>2. trail'[i] = IF m + d <= Len(fifo) THEN fifo[m + d] ELSE bytes[(m + d) - Len(fifo)]
      <4> HIDE DEF m
      <4> QED  BY <3>1, <1>5, <1>8
    <3>3. CASE m + d <= Len(fifo)
      <4>1. i + d <= Len(trail) /\ i + d = Len(got) + (m + d) /\ m + d \in 1..Len(fifo)
        BY <3>1, <3>3, <1>1, <1>5, <1>7
      <4> HIDE DEF m
      <4>2. trail[i + d] = fifo[m + d]  BY <4>1, <1>7
      <4> QED  BY <2>2, <3>1, <3>2, <3>3, <4>1, <4>2
    <3>4. CASE ~(m + d <= Len(fifo))
      <4>1. ~(i + d <= Len(trail)) /\ (i + d) - Len(trail) = (m + d) - Len(fifo)
        BY <3>1, <3>4, <1>1, <1>5, <1>7
      <4> HIDE DEF m
      <4> QED  BY <2>2, <3>1, <3>2, <3>4, <4>1
    <3> QED  BY <3>3, <3>4
  <2> QED  BY <2>1, <2>2
<1>10. ASSUME NEW i \in 1..top, ~(i <= Len(trail))
       PROVE  val(i) = sent - size + (i - Len(trail)) /\ i - Len(trail) \in 1..size
  <2>1. i - Len(trail) \in 1..size  BY <1>1, <1>4, <1>7, <1>10
  <2>2. bytes[i - Len(trail)] = sent - size + (i - Len(trail))
    BY <2>1, <1>2, <1>6 DEF Held
  <2> QED  BY <1>10, <2>1, <2>2
<1>11. ASSUME NEW i \in 1..top PROVE val(i) \in Int /\ val(i) <= sent
  <2>1. CASE i <= Len(trail)
    <3>1. i \in 1..Len(trail)  BY <2>1, <1>7
    <3> QED  BY <2>1, <3>1, <1>6, <1>7 DEF TrailInv
  <2>2. CASE ~(i <= Len(trail))
    <3> HIDE DEF val
    <3> QED  BY <2>2, <1>10, <1>1, <1>7
  <2> QED  BY <2>1, <2>2
<1>12. ASSUME NEW i \in 1..top, NEW j \in 1..top, i < j PROVE val(i) < val(j)
  <2>1. CASE j <= Len(trail)
    <3>1. i \in 1..Len(trail) /\ j \in 1..Len(trail)  BY <2>1, <1>7, <1>12
    <3> QED  BY <2>1, <3>1, <1>6, <1>12 DEF TrailInv
  <2>2. CASE ~(j <= Len(trail)) /\ i <= Len(trail)
    <3>1. val(i) <= sent - size /\ val(i) \in Int
      <4>1. i \in 1..Len(trail)  BY <2>2, <1>7
      <4> QED  BY <2>2, <4>1, <1>6, <1>7 DEF Held
    <3> HIDE DEF val
    <3> QED  BY <2>2, <3>1, <1>10, <1>1, <1>7, SMTT(30)
  <2>3. CASE ~(j <= Len(trail)) /\ ~(i <= Len(trail))
    <3> HIDE DEF val
    <3> QED  BY <2>3, <1>10, <1>1, <1>7, <1>12
  <2> QED  BY <2>1, <2>2, <2>3
<1>13. \A i \in 1..Len(trail') : trail'[i] <= sent
  BY <1>9, <1>11
<1>14. \A j, k \in 1..Len(trail') : j < k => trail'[j] < trail'[k]
  <2>1. \A j, k \in 1..Len(trail') : j < k => at(j) < at(k)  BY <1>1, <1>5
  <2> HIDE DEF at, val
  <2> QED  BY <2>1, <1>9, <1>12
<1>15. ASSUME hist = {}, h = {}
       PROVE  /\ \A i \in 1..Len(trail') : trail'[i] = i
              /\ Len(trail') = sent
  <2>1. n = size /\ d = 0 /\ Len(trail) = sent - size  BY <1>5, <1>6, <1>15 DEF Held
  <2>2. top = sent /\ Len(trail') = sent  BY <2>1, <1>1, <1>7, <1>8
  <2>3. ASSUME NEW i \in 1..top PROVE val(i) = i
    <3>1. CASE i <= Len(trail)
      <4>1. i \in 1..Len(trail)  BY <3>1, <1>7
      <4> QED  BY <3>1, <4>1, <1>6, <1>15 DEF TrailInv
    <3>2. CASE ~(i <= Len(trail))
      <4>1. val(i) = sent - size + (i - (sent - size))  BY <3>2, <2>1, <1>10
      <4> HIDE DEF val
      <4> QED  BY <4>1, <1>1
    <3> QED  BY <3>1, <3>2
  <2>4. \A i \in 1..Len(trail') : at(i) = i  BY <2>1
  <2> HIDE DEF at, val
  <2> QED  BY <2>2, <2>3, <2>4, <1>9
<1> QED  BY <1>13, <1>14, <1>15

\* Handling a received packet preserves the receive invariant.
LEMMA RxDataNotify == ASSUME IInv, RxInv, DataNotify PROVE RxInv'
<1> USE DEF RxInv, IInv
<1> DEFINE size == Head(mq).size
           h == IF ~open THEN {"ignored"}
                ELSE IF Len(fifo) + size > RxSize - 1 THEN {"overflow"} ELSE {}
<1>0. /\ Takes("OUT") /\ UNCHANGED <<buf, mem, got, sent>>
      /\ \/ hist' = hist \cup {"ignored"} /\ UNCHANGED fifo
         \/ /\ hist' = hist \cup h
            /\ IF open THEN StoreBytes(SubSeq(mem[buf], 1, size)) ELSE UNCHANGED fifo
  BY DEF DataNotify, epVars, hostVars
<1>1. /\ 1 \in 1..Len(mq) /\ mq[1].type = "OUT" /\ mq[1].size = size /\ size \in 0..MaxPacket
  BY <1>0, TakesFacts DEF Messages
<1> HIDE DEF size
<1>2. hist \subseteq hist'  BY <1>0
<1>3. Sound => Held(size)  BY <1>1 DEF OutHeld
<1>4. "dropped" \notin hist' => \A k \in 1..Len(mq') : mq'[k].type # "OUT"
  <2> SUFFICES ASSUME "dropped" \notin hist', NEW k \in 1..Len(mq'), mq'[k].type = "OUT"
               PROVE  FALSE
    OBVIOUS
  <2>1. k + 1 \in 1..Len(mq) /\ mq[k + 1] = mq'[k] /\ 1 < k + 1  BY <1>0, TakesFacts
  <2>2. "dropped" \notin hist  BY <1>2
  <2> QED  BY <2>1, <2>2, <1>1 DEF OneOut
<1>5. OneOut' /\ OutHeld'  BY <1>4 DEF OneOut, OutHeld, Sound
<1>6. CASE UNCHANGED fifo /\ "ignored" \in hist'
  <2>1. UNCHANGED trail  BY <1>0, <1>6 DEF trail
  <2>2. RxTyped'  BY <1>0, <1>6 DEF RxTyped
  <2>3. TrailInv'  BY <1>0, <1>2, <1>6, <2>1 DEF TrailInv, Sound
  <2> QED  BY <1>5, <2>2, <2>3
<1>7. CASE hist' = hist \cup h /\ StoreBytes(SubSeq(mem[buf], 1, size)) /\ open
  <2>1. h = {} => Len(fifo) + size <= RxSize - 1
    <3>1. Len(fifo) + size \in Nat  BY <1>1, SizesAssumption DEF RxTyped
    <3>2. RxSize - 1 \in Int  BY SizesAssumption
    <3>3. h = {} => ~(Len(fifo) + size > RxSize - 1)  BY <1>7
    <3> HIDE DEF h
    <3> QED  BY <3>1, <3>2, <3>3
  <2>2. buf \in Blocks \cup {Null}  BY DEF Typed
  <2> HIDE DEF h
  <2>3. /\ fifo' \in Seq(Int) /\ Len(fifo') < RxSize
        /\ Sound /\ Held(size) /\ TrailInv =>
              /\ \A i \in 1..Len(trail') : trail'[i] <= sent
              /\ \A j, k \in 1..Len(trail') : j < k => trail'[j] < trail'[k]
              /\ hist = {} /\ h = {} => /\ \A i \in 1..Len(trail') : trail'[i] = i
                                      /\ Len(trail') = sent
    BY <1>0, <1>1, <1>7, <2>1, <2>2, RxStores
  <2>4. RxTyped'  BY <1>0, <2>3 DEF RxTyped
  <2>5. Sound' => Sound  BY <1>2 DEF Sound
  <2>6. hist' = {} => hist = {} /\ h = {} /\ Sound /\ Sound'  BY <1>7 DEF Sound
  <2>7. TrailInv'  BY <1>0, <1>3, <2>3, <2>5, <2>6 DEF TrailInv
  <2> QED  BY <1>5, <2>4, <2>7
<1>8. CASE ~open /\ hist' = hist \cup h  BY <1>0, <1>6, <1>8
<1> QED  BY <1>0, <1>6, <1>7, <1>8

\* The receive invariant is inductive, together with the other one.
LEMMA RxInvStep == IInv /\ RxInv /\ [Next]_vars => RxInv'
<1> SUFFICES ASSUME IInv, RxInv, [Next]_vars PROVE RxInv'
  OBVIOUS
<1>1. CASE UNCHANGED vars \/ MainOpens \/ HostGivesUp
  <2>1. UNCHANGED <<mq, mem, arm, buf, sent, hist, got, fifo>>
    BY <1>1 DEF vars, MainOpens, HostGivesUp, epVars, hostVars, rxVars
  <2> QED  BY <2>1, RxQuiet DEF RxInv, RxTyped, trail
<1>2. CASE ReadByte
  <2>1. UNCHANGED <<mq, mem, arm, buf, sent, hist>>
    BY <1>2 DEF ReadByte, epVars, hostVars
  <2>2. /\ UNCHANGED trail /\ got' \in Seq(Int) /\ fifo' \in Seq(Int)
        /\ Len(fifo') = Len(fifo) - 1
    BY <1>2, ReadByteTrail DEF RxInv, RxTyped
  <2>3. Len(fifo') < RxSize  BY <2>2, SizesAssumption DEF RxInv, RxTyped
  <2> QED  BY <2>1, <2>2, <2>3, RxQuiet
<1>3. CASE DataNotify  BY <1>3, RxDataNotify
<1>4. CASE Reset
  BY <1>4, RxTakes DEF Reset, rxVars, hostVars
<1>5. CASE SetAddress
  BY <1>5, RxTakes DEF SetAddress, rxVars, epVars
<1>6. CASE Unconfigure
  BY <1>6, RxTakes DEF Unconfigure, rxVars, epVars
<1>7. CASE SetConfig
  <2>1. hist \subseteq hist'  BY <1>7 DEF SetConfig, FunctionEnable
  <2> QED  BY <1>7, <2>1, RxTakes DEF SetConfig, rxVars
<1>8. CASE SetHalt
  BY <1>8, RxTakes DEF SetHalt, rxVars
<1>9. CASE ClearHalt
  BY <1>9, RxTakes DEF ClearHalt, rxVars, epVars
<1>10. CASE \E n \in 0..MaxPacket : HostSends(n)  BY <1>10, RxHostSends
<1>11. CASE HostResets
  <2>1. Message("RESET", 0) \in Messages /\ Message("RESET", 0).type # "OUT"
    BY SizesAssumption DEF Message, Messages
  <2> QED  BY <1>11, <2>1, RxSignals DEF HostResets, rxVars, epVars
<1>12. CASE \E m \in Setups : HostAsks(m)
  <2>1. PICK m \in Setups : HostAsks(m)  BY <1>12
  <2>2. Message(m, 0) \in Messages /\ Message(m, 0).type # "OUT"
    BY SizesAssumption DEF Message, Messages, Setups
  <2> QED  BY <2>1, <2>2, RxSignals DEF HostAsks, rxVars, epVars
<1> QED
  BY <1>1, <1>2, <1>3, <1>4, <1>5, <1>6, <1>7, <1>8, <1>9, <1>10, <1>11, <1>12 DEF Next, Usbd

\* The receive invariant gives the order of the bytes.
LEMMA RxInvImplies == IInv /\ RxInv => ReceivedInOrder
<1> SUFFICES ASSUME IInv, RxInv PROVE ReceivedInOrder
  OBVIOUS
<1> USE DEF RxInv, IInv
<1>0. trail = got \o fifo  BY DEF trail
<1>1. Len(fifo) < RxSize  BY DEF RxTyped
<1>2. Sound => \A j, k \in 1..Len(trail) : j < k => trail[j] < trail[k]  BY DEF TrailInv
<1>3. ASSUME hist = {} PROVE trail \o InBuffer = [k \in 1..sent |-> k]
  <2>0. trail \in Seq(Int) /\ Len(trail) \in Nat /\ sent \in Nat /\ Sound
    BY <1>3, TrailFacts DEF RxTyped, Sound
  <2>1. PICK size \in 0..MaxPacket :
           /\ InBuffer \in Seq(Int) /\ Len(InBuffer) = size /\ Len(trail) = sent - size
           /\ \A i \in 1..size : InBuffer[i] = (sent - size) + i
    <3>1. CASE Queued("OUT")
      <4> DEFINE c == CHOOSE k \in 1..Len(mq) : mq[k].type = "OUT"
      <4>1. c \in 1..Len(mq) /\ mq[c].type = "OUT"  BY <3>1 DEF Queued
      <4>2. InBuffer = SubSeq(mem[buf], 1, mq[c].size) \/ buf = Null  BY <3>1 DEF InBuffer
      <4> HIDE DEF c
      <4>3. Held(mq[c].size)  BY <2>0, <4>1 DEF OutHeld
      <4>4. mq[c].size \in 0..MaxPacket
        <5>1. mq[c] \in Messages  BY <4>1, ElementOfSeq DEF Typed
        <5> QED  BY <5>1 DEF Messages
      <4> DEFINE size == mq[c].size
      <4>5. size \in 0..MaxPacket /\ Held(size) /\ InBuffer = SubSeq(mem[buf], 1, size)
        BY <4>2, <4>3, <4>4 DEF Held
      <4> HIDE DEF size
      <4>6. size \in Nat /\ \A i \in 1..size : mem[buf][i] \in Int
        <5>1. mem[buf] \in [1..MaxPacket -> Int]  BY DEF RxTyped, Typed
        <5>2. size \in Nat /\ \A i \in 1..size : i \in 1..MaxPacket  BY <4>5, SizesAssumption
        <5> QED  BY <5>1, <5>2
      <4>7. /\ InBuffer \in Seq(Int) /\ Len(InBuffer) = IF 1 <= size THEN size - 1 + 1 ELSE 0
            /\ \A i \in 1..(size - 1 + 1) : InBuffer[i] = mem[buf][1 + i - 1]
        BY <4>5, <4>6, SubSeqProperties
      <4>8. Len(InBuffer) = size /\ \A i \in 1..size : InBuffer[i] = mem[buf][i]
        BY <4>6, <4>7
      <4>9. Len(trail) = sent - size /\ \A i \in 1..size : mem[buf][i] = (sent - size) + i
        BY <1>3, <4>5 DEF Held
      <4> QED  BY <4>5, <4>7, <4>8, <4>9
    <3>2. CASE ~Queued("OUT")
      <4>1. InBuffer = <<>> /\ Len(trail) = sent  BY <1>3, <3>2 DEF InBuffer, TrailInv
      <4>2. 0 \in 0..MaxPacket /\ sent - 0 = sent  BY <2>0, SizesAssumption
      <4> QED  BY <4>1, <4>2
    <3> QED  BY <3>1, <3>2
  <2>2. size \in Nat /\ size = Len(InBuffer) /\ Len(trail) + size = sent
    BY <2>0, <2>1, SizesAssumption
  <2>3. /\ trail \o InBuffer \in Seq(Int) /\ Len(trail \o InBuffer) = sent
        /\ \A i \in 1..sent : (trail \o InBuffer)[i] =
              IF i <= Len(trail) THEN trail[i] ELSE InBuffer[i - Len(trail)]
    <3> DEFINE rest == InBuffer
    <3>1. rest \in Seq(Int) /\ Len(rest) = size  BY <2>1
    <3> HIDE DEF rest
    <3>2. /\ trail \o rest \in Seq(Int) /\ Len(trail \o rest) = Len(trail) + Len(rest)
          /\ \A i \in 1..Len(trail) + Len(rest) : (trail \o rest)[i] =
                IF i <= Len(trail) THEN trail[i] ELSE rest[i - Len(trail)]
      BY <2>0, <3>1, ConcatProperties
    <3>3. Len(trail) + Len(rest) = sent  BY <2>2, <3>1
    <3> QED  BY <3>2, <3>3 DEF rest
  <2>4. \A i \in 1..sent : (trail \o InBuffer)[i] = i
    <3> SUFFICES ASSUME NEW i \in 1..sent PROVE (trail \o InBuffer)[i] = i
      OBVIOUS
    <3>1. CASE i <= Len(trail)
      <4>1. i \in 1..Len(trail)  BY <3>1, <2>0
      <4> QED  BY <3>1, <4>1, <2>3, <1>3 DEF TrailInv
    <3>2. CASE ~(i <= Len(trail))
      <4>1. i - Len(trail) \in 1..size /\ (sent - size) + (i - Len(trail)) = i
        BY <3>2, <2>0, <2>1, <2>2
      <4> QED  BY <3>2, <4>1, <2>1, <2>3
    <3> QED  BY <3>1, <3>2
  <2> DEFINE numbers == [k \in 1..sent |-> k]
  <2>5. numbers \in Seq(Int) /\ Len(numbers) = sent
    <3>1. \A k \in 1..sent : k \in Int  BY <2>0
    <3> QED  BY <2>0, <3>1
  <2>6. \A i \in 1..sent : numbers[i] = i  OBVIOUS
  <2> HIDE DEF numbers
  <2>7. trail \o InBuffer = numbers  BY <2>3, <2>4, <2>5, <2>6, SeqEqual
  <2> QED  BY <2>7 DEF numbers
<1> QED  BY <1>0, <1>1, <1>2, <1>3 DEF ReceivedInOrder

\* Bytes reach the reader of the port in order and once each, and unless something was
\* recorded as lost all of them do.
THEOREM BytesArriveInOrder == Spec => []ReceivedInOrder
<1>1. Init => RxInv
  <2> SUFFICES ASSUME Init PROVE RxInv
    OBVIOUS
  <2>1. /\ got = <<>> /\ fifo = <<>> /\ mq = <<>> /\ sent = 0
        /\ mem = [b \in Blocks \cup {Null} |-> [k \in 1..MaxPacket |-> 0]]
    BY DEF Init
  <2>2. RxTyped  BY <2>1, SizesAssumption DEF RxTyped
  <2>3. Len(trail) = 0  BY <2>1, TrailFacts
  <2> QED  BY <2>1, <2>2, <2>3 DEF RxInv, OneOut, OutHeld, TrailInv
<1> QED  BY <1>1, AlwaysIInv, RxInvStep, RxInvImplies, PTL DEF Spec
=============================================================================
