--------------------------------- MODULE Hmi ---------------------------------
(***************************************************************************)
(* The touch panel's command channel: the panel sends frames over uart3,   *)
(* the receive interrupt stores the bytes in the serial fifo and releases  *)
(* hmi_sem, and hmi_thread collects a frame byte by byte in cmd_buff and   *)
(* executes it: it retunes the AD9954 and answers the panel.               *)
(*                                                                         *)
(* A frame is Start, the bytes of a command, End.  A command is its name   *)
(* (one byte here for the two characters and the separator) and its value  *)
(* (one byte here for its digits).  The interrupt may find more than one   *)
(* byte (rt_hw_serial_isr reads until there is none) and still releases    *)
(* hmi_sem once.                                                           *)
(***************************************************************************)
EXTENDS Integers, Sequences

CONSTANTS
    Commands,       \* the commands the panel sends: sequences of bytes
    CmdLen,         \* HMI_CMD_LEN, the size of cmd_buff
    BufSize,        \* serial->config.bufsz of uart3
    MaxBurst,       \* bytes one receive interrupt may find
    Pauses,         \* may the panel pause for 100 ticks inside a frame?
    MaxFrames       \* bound: frames sent

ASSUME SizesAssumption ==
    /\ CmdLen \in Nat \ {0} /\ BufSize \in Nat \ {0, 1} /\ MaxBurst \in Nat \ {0}
    /\ Pauses \in BOOLEAN /\ MaxFrames \in Nat

Start == 254        \* 0xFE
End == 255          \* 0xFF

\* A command leaves room for its end byte in cmd_buff, and has no end byte in it.
ASSUME CommandsAssumption ==
    \A c \in Commands : /\ c \in Seq(Int) /\ Len(c) \in 1..(CmdLen - 1)
                        /\ \A k \in 1..Len(c) : c[k] # End

Nul == 0
NameF0 == 1         \* "f0"
NameFp == 2         \* "fp"

VARIABLES
    line,       \* bytes of the current frame the panel has not sent yet
    sent,       \* commands of the frames begun so far
    rx,         \* uart3's serial_rx fifo
    sem,        \* value of hmi_sem
    pc,         \* where hmi_thread is
    buf, i,     \* cmd_buff and the index into it
    fsk,        \* fsk_f0_freq and fsk_fp_freq
    ram,        \* the frequencies last written to the AD9954's RAM
    shown,      \* what the panel was last told: [f0, fp], 0 if nothing
    executed,   \* the commands hmi_cmd_analysis was called with
    lost,       \* history: the fifo overwrote a byte nobody had read
    burst       \* history: an interrupt found more than one byte

vars == <<line, sent, rx, sem, pc, buf, i, fsk, ram, shown, executed, lost, burst>>
panelVars == <<line, sent>>
tuneVars == <<fsk, ram, shown, executed>>
histVars == <<lost, burst>>

EmptyBuf == [k \in 0..(CmdLen - 1) |-> Nul]
Tuning(f0, fp) == [f0 |-> f0, fp |-> fp]

\* After hmi_create and write_sine_freq_data_to_ram.
Init ==
    /\ line = <<>> /\ sent = <<>>
    /\ rx = <<>> /\ sem = 0
    /\ pc = "outer" /\ buf = EmptyBuf /\ i = 0
    /\ fsk = Tuning(10650000, 50000)
    /\ ram = Tuning(10650000, 50000)
    /\ shown = Tuning(0, 0)
    /\ executed = <<>>
    /\ lost = FALSE /\ burst = FALSE

-----------------------------------------------------------------------------
(* The panel and the receive interrupt.                                    *)

BeginFrame(c) ==
    /\ line = <<>> /\ Len(sent) < MaxFrames
    /\ line' = <<Start>> \o c \o <<End>>
    /\ sent' = Append(sent, c)
    /\ UNCHANGED <<rx, sem, pc, buf, i, tuneVars, histVars>>

\* A mutant: hmi_sem is released only by the byte that finds the fifo empty.
Receive_first_only(n) ==
    LET all == rx \o SubSeq(line, 1, n)
        over == Len(all) - (BufSize - 1)
    IN /\ n <= Len(line)
       /\ rx' = IF over > 0 THEN SubSeq(all, over + 1, Len(all)) ELSE all
       /\ lost' = (lost \/ over > 0) /\ burst' = (burst \/ n > 1)
       /\ line' = SubSeq(line, n + 1, Len(line))
       /\ sem' = IF rx = <<>> THEN sem + 1 ELSE sem
       /\ UNCHANGED <<sent, pc, buf, i, tuneVars>>

\* rt_hw_serial_isr(RX_IND) with n bytes waiting: the fifo holds BufSize - 1 bytes, a
\* byte too many pushes out the oldest; then uart3_input releases hmi_sem.
Receive(n) ==
    LET all == rx \o SubSeq(line, 1, n)
        over == Len(all) - (BufSize - 1)
    IN /\ n <= Len(line)
       /\ rx' = IF over > 0 THEN SubSeq(all, over + 1, Len(all)) ELSE all
       /\ lost' = (lost \/ over > 0) /\ burst' = (burst \/ n > 1)
       /\ line' = SubSeq(line, n + 1, Len(line))
       /\ sem' = sem + 1
       /\ UNCHANGED <<sent, pc, buf, i, tuneVars>>

-----------------------------------------------------------------------------
(* hmi_thread.                                                             *)

\* rt_device_read(hmi_port, 0, cmd_buff + k, 1): an empty fifo leaves cmd_buff alone.
\* Bytes stored past the end of cmd_buff are not followed.
ReadByte(k) ==
    /\ rx' = IF rx = <<>> THEN rx ELSE Tail(rx)
    /\ buf' = IF rx = <<>> \/ k >= CmdLen THEN buf ELSE [buf EXCEPT ![k] = Head(rx)]

\* The byte cmd_buff[k] as the thread finds it after its read.
Got(k) == IF rx # <<>> THEN Head(rx) ELSE IF k < CmdLen THEN buf[k] ELSE Nul

\* rt_sem_take(hmi_sem, RT_WAITING_FOREVER).
TakeFirst ==
    /\ pc = "outer" /\ sem > 0
    /\ sem' = sem - 1
    /\ pc' = "first"
    /\ UNCHANGED <<panelVars, rx, buf, i, tuneVars, histVars>>

\* Only a start byte begins a frame.
ReadFirst ==
    /\ pc = "first"
    /\ ReadByte(0)
    /\ pc' = IF Got(0) = Start THEN "inner" ELSE "outer"
    /\ UNCHANGED <<panelVars, sem, i, tuneVars, histVars>>

\* rt_sem_take(hmi_sem, 100) with the semaphore available.
TakeNext ==
    /\ pc = "inner" /\ sem > 0
    /\ sem' = sem - 1
    /\ pc' = "next"
    /\ UNCHANGED <<panelVars, rx, buf, i, tuneVars, histVars>>

\* A mutant: the timeout aborts the frame, as its log message says.
TakeTimeout_aborts ==
    /\ pc = "inner" /\ sem = 0
    /\ Pauses \/ line = <<>>
    /\ pc' = "outer" /\ i' = 0 /\ buf' = EmptyBuf
    /\ UNCHANGED <<panelVars, rx, sem, tuneVars, histVars>>

\* The take times out and returns -RT_ETIMEOUT.  The code compares with RT_ETIMEOUT, so
\* that it goes on to read as if it had the semaphore.
TakeTimeout ==
    /\ pc = "inner" /\ sem = 0
    /\ Pauses \/ line = <<>>
    /\ pc' = "next"
    /\ UNCHANGED <<panelVars, rx, sem, buf, i, tuneVars, histVars>>

\* The values f0 and fp may take.
F0Range(v) == v > 10000000 /\ v < 12000000
FpRange(v) == v >= 1000 /\ v <= 10000000

\* A mutant: the AD9954 is given the frequency before the new one is stored.
hmi_cmd_analysis_stale(cmd) ==
    LET f0 == IF cmd[1] = NameF0 /\ Len(cmd) = 2 THEN cmd[2] ELSE 0
        fp == IF cmd[1] = NameFp /\ Len(cmd) = 2 THEN cmd[2] ELSE 0
        set == IF F0Range(f0) THEN [fsk EXCEPT !.f0 = f0]
               ELSE IF FpRange(fp) THEN [fsk EXCEPT !.fp = fp] ELSE fsk
    IN /\ fsk' = set
       /\ ram' = IF F0Range(f0) \/ FpRange(fp) THEN fsk ELSE ram
       /\ shown' = IF F0Range(f0) THEN [shown EXCEPT !.f0 = f0]
                   ELSE IF FpRange(fp) THEN [shown EXCEPT !.fp = fp] ELSE shown

\* hmi_cmd_analysis: atoi of a missing value is 0, which no range admits.
hmi_cmd_analysis(cmd) ==
    LET f0 == IF cmd[1] = NameF0 /\ Len(cmd) = 2 THEN cmd[2] ELSE 0
        fp == IF cmd[1] = NameFp /\ Len(cmd) = 2 THEN cmd[2] ELSE 0
        set == IF F0Range(f0) THEN [fsk EXCEPT !.f0 = f0]
               ELSE IF FpRange(fp) THEN [fsk EXCEPT !.fp = fp] ELSE fsk
    IN /\ fsk' = set
       /\ ram' = IF F0Range(f0) \/ FpRange(fp) THEN set ELSE ram
       /\ shown' = IF F0Range(f0) THEN [shown EXCEPT !.f0 = f0]
                   ELSE IF FpRange(fp) THEN [shown EXCEPT !.fp = fp] ELSE shown

\* Read one more byte.  End ends the frame: a command of at least one byte is executed
\* and cmd_buff is cleared.
ReadNext ==
    /\ pc = "next"
    /\ UNCHANGED <<panelVars, sem, histVars>>
    /\ \/ /\ Got(i) # End
          /\ ReadByte(i)
          /\ i' = i + 1
          /\ pc' = "inner"
          /\ i < CmdLen          \* bound: the overrun is not followed further
          /\ UNCHANGED tuneVars
       \/ /\ Got(i) = End
          /\ rx' = IF rx = <<>> THEN rx ELSE Tail(rx)
          /\ buf' = EmptyBuf /\ i' = 0 /\ pc' = "outer"
          /\ IF i = 0 THEN UNCHANGED tuneVars
             ELSE LET cmd == [k \in 1..i |-> buf[k - 1]] IN
                  /\ executed' = Append(executed, cmd)
                  /\ hmi_cmd_analysis(cmd)

HmiThread == TakeFirst \/ ReadFirst \/ TakeNext \/ ReadNext

Next ==
    \/ \E c \in Commands : BeginFrame(c)
    \/ \E n \in 1..MaxBurst : Receive(n)
    \/ HmiThread
    \/ TakeTimeout

Spec == Init /\ [][Next]_vars

\* A frame begun is sent to its end; the thread is scheduled and its timer expires.
FairSpec ==
    /\ Spec
    /\ WF_vars(\E n \in 1..MaxBurst : Receive(n))
    /\ WF_vars(HmiThread)
    /\ WF_vars(TakeTimeout)

-----------------------------------------------------------------------------
(* Properties.                                                             *)

\* As long as the fifo has not overflowed, the thread executes the commands the panel
\* sent, whole, in order and once each, however the interrupt groups the bytes: the
\* semaphore then counts fewer units than there are bytes, and the thread lives on
\* reads made after a timeout.  So long no byte is stored past the end of cmd_buff.
ExecutesWhatWasSent ==
    ~lost => /\ Len(executed) <= Len(sent) /\ executed = SubSeq(sent, 1, Len(executed))
             /\ pc = "next" => i < CmdLen

\* The frequencies stored, those in the AD9954's RAM and those last shown on the panel
\* agree whenever the thread waits for a frame, and are in range.
TunedAsShown ==
    pc = "outer" => /\ ram = fsk /\ F0Range(fsk.f0) /\ FpRange(fsk.fp)
                    /\ shown.f0 \in {0, fsk.f0} /\ shown.fp \in {0, fsk.fp}

\* As long as every byte has its interrupt, every frame sent is executed in the end, unless
\* the fifo overflows.  (An interrupt that finds two bytes releases hmi_sem once: the
\* last frames may then stay in the fifo until the panel sends again.)
EveryFrameExecuted ==
    \A n \in 1..MaxFrames : Len(sent) >= n ~> (Len(executed) >= n \/ lost \/ burst)
=============================================================================
