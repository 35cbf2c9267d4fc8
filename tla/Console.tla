------------------------------- MODULE Console -------------------------------
(***************************************************************************)
(* Switching the console and the shell between the UART and the USB port.  *)
(*                                                                         *)
(* Two serial devices carry the console: "uart1", the one set at boot, and *)
(* "vcom".  rt_kprintf writes to the console device, the shell reads from  *)
(* its own device, and both move when a key is held down (tBtn) or by the  *)
(* shell command change_print (tshell).  Each owner opens and closes the   *)
(* device through rt_device_open/rt_device_close, whose reference count    *)
(* and open flags are shared and not locked.                               *)
(*                                                                         *)
(* A thread's pending calls are the sequence calls[t].  A call of          *)
(* rt_device_open or rt_device_close is entered in one step and then run   *)
(* statement by statement, a read-modify-write as a load and a store; any  *)
(* other call is one step.  The scheduler is preemptive: a thread runs     *)
(* only while no thread of higher priority has anything to do.             *)
(***************************************************************************)
EXTENDS Integers, Sequences

CONSTANTS
    MaxPresses,     \* bound: long presses and change_print commands
    MaxLogs         \* bound: log records written by the ulog thread

ASSUME BoundsAssumption ==
    MaxPresses \in Nat /\ MaxLogs \in Nat

Devices == {"uart1", "vcom"}
NoDevice == "none"
Threads == {"main", "tshell", "tBtn", "ulog"}

\* A mutant: the threads share the processor as equals.
Priority_equal == [main |-> 20, tshell |-> 20, tBtn |-> 20, ulog |-> 20]

\* A smaller number is a higher priority.
Priority == [main |-> 20, tshell |-> 20, tBtn |-> 25, ulog |-> 30]

VARIABLES
    devices,    \* the devices: ref_count, open_flag, serial_rx, rx_indicate
    console,    \* _console_device
    shell_dev,  \* shell->device
    calls,      \* the calls each thread has still to make
    saved,      \* old_flag (and the log backend's dev) of each thread
    io,         \* the rt_device_open or rt_device_close each thread is in, and its locals
    torn,       \* history: a device was opened, closed or printed to while another
                \* thread was in the middle of an open or a close of it
    overlap,    \* history: change_print was started in the middle of a long press
    misnamed,   \* history: change_print was given another device than "vcom"
    presses, logs

bounds == <<overlap, misnamed, presses, logs>>
consoleVars == <<devices, console, shell_dev, calls, saved, io, torn, bounds>>

\* A thread that is in no rt_device_open and no rt_device_close.  pc is the statement to
\* run, dev and oflag the arguments, stream the local stream_flag, flags and ref what a
\* read-modify-write of open_flag or ref_count has loaded.
Outside == [pc |-> "none", dev |-> NoDevice, oflag |-> {}, stream |-> {}, flags |-> {}, ref |-> 0]

Within(t, d) == io[t].pc # "none" /\ io[t].dev = d

Busy(t) == calls[t] # <<>> \/ io[t].pc # "none"

Call(op, d) == [op |-> op, dev |-> d]

Kprintf == <<Call("kprintf_begin", NoDevice), Call("kprintf_end", NoDevice)>>

FinshSetDevice(d) == <<Call("finsh_open", d)>>

ConsoleSetDevice(d) ==
    <<Call("console_close", d), Call("console_open", d), Call("console_assign", d)>>

\* A mutant: the device is not opened again for interrupt reception.
LongPress_no_reopen(d) ==
    Kprintf \o Kprintf \o FinshSetDevice(d) \o ConsoleSetDevice(d)
        \o <<Call("close", d)>> \o Kprintf

\* key0_long_press_callback and key1_long_press_callback.
LongPress(d) ==
    Kprintf \o Kprintf \o FinshSetDevice(d) \o ConsoleSetDevice(d)
        \o <<Call("close", d), Call("open", d)>> \o Kprintf

\* change_print with argument d: the console goes to "vcom" whatever d is.
ChangePrint(d) ==
    FinshSetDevice("vcom") \o ConsoleSetDevice("vcom")
        \o <<Call("close", d), Call("open", d)>> \o Kprintf

\* After rt_hw_board_init; the main thread opens "vcom", the shell thread takes the
\* console's device for its own.
ConsoleInit ==
    /\ devices = [d \in Devices |->
                 IF d = "uart1"
                   THEN [ref |-> 1, flags |-> {"OPEN", "STREAM"}, rx |-> FALSE, ind |-> FALSE]
                   ELSE [ref |-> 0, flags |-> {}, rx |-> FALSE, ind |-> FALSE]]
    /\ console = "uart1"
    /\ shell_dev = NoDevice
    /\ calls = [t \in Threads |->
                 CASE t = "main"   -> <<Call("main_open", "vcom")>>
                   [] t = "tshell" -> FinshSetDevice("uart1") \o Kprintf
                   [] OTHER        -> <<>>]
    /\ saved = [t \in Threads |-> [dev |-> NoDevice, flags |-> {}]]
    /\ io = [t \in Threads |-> Outside]
    /\ torn = FALSE
    /\ overlap = FALSE /\ misnamed = FALSE
    /\ presses = 0
    /\ logs = 0

-----------------------------------------------------------------------------
(* The scheduler.                                                          *)

Runs(t) == \A u \in Threads : Priority[u] < Priority[t] => ~Busy(u)

\* Thread t makes its next call, op; more are the calls that follow from it.
MakesCall(t, op, more) ==
    /\ Runs(t) /\ io[t].pc = "none" /\ calls[t] # <<>> /\ Head(calls[t]).op = op
    /\ calls' = [calls EXCEPT ![t] = more \o Tail(@)]

Arg(t) == Head(calls[t]).dev

-----------------------------------------------------------------------------
(* rt_device_open and rt_device_close on a serial device.                  *)

\* Thread t uses the open_flag or ref_count of d.
Touches(t, d) == torn' = (torn \/ \E u \in Threads \ {t} : Within(u, d))

Enters(t, d, first, oflag) ==
    /\ io' = [io EXCEPT ![t] = [Outside EXCEPT !.pc = first, !.dev = d, !.oflag = oflag]]
    /\ Touches(t, d)

rt_device_open(t, d, oflag) == Enters(t, d, "keep_stream", oflag)

rt_device_close(t, d) == Enters(t, d, "test", {})

\* Thread t runs the statement at: the device becomes x and the thread's locals r.
Statement(t, at, next, x, r) ==
    /\ Runs(t) /\ io[t].pc = at
    /\ devices' = [devices EXCEPT ![io[t].dev] = x]
    /\ io' = [io EXCEPT ![t] = IF next = "none" THEN Outside ELSE [r EXCEPT !.pc = next]]
    /\ UNCHANGED <<console, shell_dev, calls, saved, torn, bounds>>

Local(t) == io[t]
Device(t) == devices[io[t].dev]

\* rt_serial_open: STREAM is kept, of oflag only what is in 0xff is taken (INT_RX is not) ...
KeepStream(t) ==
    Statement(t, "keep_stream", "set_flags", Device(t),
              [Local(t) EXCEPT !.stream = (Local(t).oflag \cup Device(t).flags) \cap {"STREAM"}])

SetFlags(t) ==
    Statement(t, "set_flags", "alloc",
              [Device(t) EXCEPT !.flags = Local(t).oflag \cap {"STREAM"}], Local(t))

\* ... serial_rx is allocated if it is missing and INT_RX is asked for ...
AllocFifo(t) ==
    LET int == "INT_RX" \in Local(t).oflag IN
    Statement(t, "alloc", IF int THEN "load_int" ELSE "load_stream",
              [Device(t) EXCEPT !.rx = @ \/ int], Local(t))

\* ... and open_flag gets INT_RX, the stream flag and (in rt_device_open) OPEN by |=.
StoreAfter == [load_int |-> "or_int", load_stream |-> "or_stream", load_open |-> "or_open",
               load_mask |-> "mask_int"]

LoadFlags(t) ==
    \E at \in DOMAIN StoreAfter :
        Statement(t, at, StoreAfter[at], Device(t), [Local(t) EXCEPT !.flags = Device(t).flags])

OrInt(t) ==
    Statement(t, "or_int", "load_stream",
              [Device(t) EXCEPT !.flags = Local(t).flags \cup {"INT_RX"}], Local(t))

OrStream(t) ==
    Statement(t, "or_stream", "load_open",
              [Device(t) EXCEPT !.flags = Local(t).flags \cup Local(t).stream], Local(t))

OrOpen(t) ==
    Statement(t, "or_open", "load_up",
              [Device(t) EXCEPT !.flags = Local(t).flags \cup {"OPEN"}], Local(t))

\* ref_count++ and ref_count--, the latter only of a count that was not 0.
LoadRef(t) ==
    \/ Statement(t, "load_up", "up", Device(t), [Local(t) EXCEPT !.ref = Device(t).ref])
    \/ Statement(t, "load_down", "down", Device(t), [Local(t) EXCEPT !.ref = Device(t).ref])

CountUp(t) == Statement(t, "up", "none", [Device(t) EXCEPT !.ref = Local(t).ref + 1], Local(t))

TestRef(t) ==
    Statement(t, "test", IF Device(t).ref = 0 THEN "none" ELSE "load_down", Device(t), Local(t))

CountDown(t) ==
    Statement(t, "down", "left",
              [Device(t) EXCEPT !.ref = IF Local(t).ref = 0 THEN 255 ELSE Local(t).ref - 1],
              Local(t))

\* Only the last close goes on to rt_serial_close, which looks at the count once more ...
TestLeft(t) ==
    Statement(t, "left", IF Device(t).ref # 0 THEN "none" ELSE "more", Device(t), Local(t))

TestMore(t) ==
    Statement(t, "more", IF Device(t).ref > 1 THEN "clear" ELSE "int_rx", Device(t), Local(t))

\* ... and frees serial_rx if the open flags (those of the last open) say INT_RX.
TestInt(t) ==
    Statement(t, "int_rx", IF "INT_RX" \in Device(t).flags THEN "free" ELSE "clear",
              Device(t), Local(t))

FreeFifo(t) == Statement(t, "free", "load_mask", [Device(t) EXCEPT !.rx = FALSE], Local(t))

MaskInt(t) ==
    Statement(t, "mask_int", "clear",
              [Device(t) EXCEPT !.flags = Local(t).flags \ {"INT_RX"}], Local(t))

ClearFlags(t) == Statement(t, "clear", "none", [Device(t) EXCEPT !.flags = {}], Local(t))

OpenOrClose(t) ==
    \/ KeepStream(t) \/ SetFlags(t) \/ AllocFifo(t) \/ LoadFlags(t) \/ OrInt(t) \/ OrStream(t)
    \/ OrOpen(t) \/ LoadRef(t) \/ CountUp(t)
    \/ TestRef(t) \/ CountDown(t) \/ TestLeft(t) \/ TestMore(t) \/ TestInt(t) \/ FreeFifo(t)
    \/ MaskInt(t) \/ ClearFlags(t)

RxStream == {"INT_RX", "STREAM"}

-----------------------------------------------------------------------------
(* The calls.                                                              *)

\* A mutant: the device the shell has already is opened again.
FinshOpen_always(t) ==
    /\ MakesCall(t, "finsh_open",
             <<Call("finsh_assign", Arg(t)), Call("finsh_indicate", Arg(t))>>)
    /\ rt_device_open(t, Arg(t), RxStream)
    /\ UNCHANGED <<devices, console, shell_dev, saved, bounds>>

\* finsh_set_device: nothing if the shell has the device already, else open it ...
FinshOpen(t) ==
    LET d == Arg(t) IN
    /\ MakesCall(t, "finsh_open",
             IF d = shell_dev THEN <<>>
             ELSE <<Call("finsh_close", d), Call("finsh_clear", d),
                    Call("finsh_assign", d), Call("finsh_indicate", d)>>)
    /\ IF d = shell_dev THEN UNCHANGED <<io, torn>> ELSE rt_device_open(t, d, RxStream)
    /\ UNCHANGED <<devices, console, shell_dev, saved, bounds>>

\* ... close the old one and clear its rx_indicate ...
FinshClose(t) ==
    /\ MakesCall(t, "finsh_close", <<>>)
    /\ IF shell_dev = NoDevice THEN UNCHANGED <<io, torn>> ELSE rt_device_close(t, shell_dev)
    /\ UNCHANGED <<devices, console, shell_dev, saved, bounds>>

FinshClear(t) ==
    /\ MakesCall(t, "finsh_clear", <<>>)
    /\ devices' = IF shell_dev = NoDevice THEN devices
                   ELSE [devices EXCEPT ![shell_dev].ind = FALSE]
    /\ UNCHANGED <<console, shell_dev, saved, io, torn, bounds>>

\* ... and take the new one.
FinshAssign(t) ==
    /\ MakesCall(t, "finsh_assign", <<>>)
    /\ shell_dev' = Arg(t)
    /\ UNCHANGED <<devices, console, saved, io, torn, bounds>>

FinshIndicate(t) ==
    /\ MakesCall(t, "finsh_indicate", <<>>)
    /\ devices' = [devices EXCEPT ![Arg(t)].ind = TRUE]
    /\ UNCHANGED <<console, shell_dev, saved, io, torn, bounds>>

\* rt_console_set_device: the old device is closed first, the new one opened without
\* INT_RX.
ConsoleClose(t) ==
    /\ MakesCall(t, "console_close", <<>>)
    /\ rt_device_close(t, console)
    /\ UNCHANGED <<devices, console, shell_dev, saved, bounds>>

ConsoleOpen(t) ==
    /\ MakesCall(t, "console_open", <<>>)
    /\ rt_device_open(t, Arg(t), {"STREAM"})
    /\ UNCHANGED <<devices, console, shell_dev, saved, bounds>>

ConsoleAssign(t) ==
    /\ MakesCall(t, "console_assign", <<>>)
    /\ console' = Arg(t)
    /\ UNCHANGED <<devices, shell_dev, saved, io, torn, bounds>>

\* The callers' own rt_device_close and rt_device_open.
CloseDevice(t) ==
    /\ MakesCall(t, "close", <<>>)
    /\ rt_device_close(t, Arg(t))
    /\ UNCHANGED <<devices, console, shell_dev, saved, bounds>>

OpenDevice(t) ==
    /\ MakesCall(t, "open", <<>>)
    /\ rt_device_open(t, Arg(t), RxStream)
    /\ UNCHANGED <<devices, console, shell_dev, saved, bounds>>

MainOpen(t) ==
    /\ MakesCall(t, "main_open", <<>>)
    /\ rt_device_open(t, Arg(t), {"INT_RX"})
    /\ UNCHANGED <<devices, console, shell_dev, saved, bounds>>

\* rt_kprintf saves the console's open_flag, sets STREAM, writes, and restores the
\* flag, each time on the device that is the console by then.
KprintfBegin(t) ==
    /\ MakesCall(t, "kprintf_begin", <<>>)
    /\ saved' = [saved EXCEPT ![t] = [dev |-> NoDevice, flags |-> devices[console].flags]]
    /\ devices' = [devices EXCEPT ![console].flags = @ \cup {"STREAM"}]
    /\ Touches(t, console)
    /\ UNCHANGED <<console, shell_dev, io, bounds>>

KprintfEnd(t) ==
    /\ MakesCall(t, "kprintf_end", <<>>)
    /\ devices' = [devices EXCEPT ![console].flags = saved[t].flags]
    /\ Touches(t, console)
    /\ UNCHANGED <<console, shell_dev, saved, io, bounds>>

\* ulog_console_backend_output does the same on the device it found first.
LogBegin(t) ==
    /\ MakesCall(t, "log_begin", <<>>)
    /\ saved' = [saved EXCEPT ![t] = [dev |-> console, flags |-> devices[console].flags]]
    /\ devices' = [devices EXCEPT ![console].flags = @ \cup {"STREAM"}]
    /\ Touches(t, console)
    /\ UNCHANGED <<console, shell_dev, io, bounds>>

LogEnd(t) ==
    /\ MakesCall(t, "log_end", <<>>)
    /\ devices' = [devices EXCEPT ![saved[t].dev].flags = saved[t].flags]
    /\ Touches(t, saved[t].dev)
    /\ UNCHANGED <<console, shell_dev, saved, io, bounds>>

-----------------------------------------------------------------------------
(* What the user does.                                                     *)

Idle(t) == Runs(t) /\ ~Busy(t)

\* The shell gets its input from serial_rx, through rx_indicate.
Hears(d) == "INT_RX" \in devices[d].flags /\ devices[d].rx /\ devices[d].ind

\* key0 held down: "vcom"; key1 held down: "uart1".
PressKey(d) ==
    /\ Idle("tBtn") /\ presses < MaxPresses
    /\ presses' = presses + 1
    /\ calls' = [calls EXCEPT !["tBtn"] = LongPress(d)]
    /\ UNCHANGED <<devices, console, shell_dev, saved, io, torn, overlap, misnamed, logs>>

TypeChangePrint(d) ==
    /\ Idle("tshell") /\ Hears(shell_dev) /\ presses < MaxPresses
    /\ presses' = presses + 1
    /\ calls' = [calls EXCEPT !["tshell"] = ChangePrint(d)]
    /\ overlap' = (overlap \/ calls["tBtn"] # <<>>)
    /\ misnamed' = (misnamed \/ d # "vcom")
    /\ UNCHANGED <<devices, console, shell_dev, saved, io, torn, logs>>

LogOutput ==
    /\ Idle("ulog") /\ logs < MaxLogs
    /\ logs' = logs + 1
    /\ calls' = [calls EXCEPT !["ulog"] = <<Call("log_begin", NoDevice), Call("log_end", NoDevice)>>]
    /\ UNCHANGED <<devices, console, shell_dev, saved, io, torn, overlap, misnamed, presses>>

Thread(t) ==
    \/ FinshOpen(t) \/ FinshClose(t) \/ FinshClear(t) \/ FinshAssign(t) \/ FinshIndicate(t)
    \/ ConsoleClose(t) \/ ConsoleOpen(t) \/ ConsoleAssign(t)
    \/ CloseDevice(t) \/ OpenDevice(t) \/ MainOpen(t)
    \/ KprintfBegin(t) \/ KprintfEnd(t) \/ LogBegin(t) \/ LogEnd(t)
    \/ OpenOrClose(t)

ConsoleNext ==
    \/ \E t \in Threads : Thread(t)
    \/ \E d \in Devices : PressKey(d) \/ TypeChangePrint(d)
    \/ LogOutput

ConsoleSpec == ConsoleInit /\ [][ConsoleNext]_consoleVars

-----------------------------------------------------------------------------
(* Properties.                                                             *)

Settled == \A t \in Threads : ~Busy(t)

Holders(d) ==
    (IF console = d THEN 1 ELSE 0) + (IF shell_dev = d THEN 1 ELSE 0)
        + (IF d = "vcom" THEN 1 ELSE 0)

\* Once a switch is over every device is open exactly as often as someone uses it:
\* the console, the shell, and the main thread for "vcom".  (Not when change_print ran
\* in the middle of a long press: both then close the same old device.  Nor when it was
\* given another device than "vcom": it opens that one, and nobody uses it.  Nor when it
\* ran inside an rt_device_open or rt_device_close of a device it uses: ref_count++ and
\* ref_count-- are not locked, and one of two updates is lost.)
RefsMatchHolders ==
    Settled /\ ~torn /\ ~overlap /\ ~misnamed => \A d \in Devices : devices[d].ref = Holders(d)

\* A change_print in the middle of a long press closes no device in use, unless it comes
\* inside an rt_device_open or rt_device_close of a device it uses itself (torn: a lost
\* update of ref_count then brings the count of "vcom" to 0 while the console and the shell
\* have it).  Nor is "vcom" ever closed for the last time once the main thread has opened
\* it, not even inside a switch: the USB core thread, which receives whenever the OPEN flag
\* is set, meets no rt_serial_close of it half done.
\* A device someone can use and whose flags say INT_RX has its receive fifo, as RT_ASSERT(
\* rx_fifo != RT_NULL) of _serial_int_rx, rt_serial_close and (for the open "vcom")
\* rt_hw_serial_isr asks; the assertion is compiled out.
UsedDevicesOpen ==
    ~torn =>
        /\ Settled => \A d \in {console, shell_dev, "vcom"} : devices[d].ref > 0 /\ "OPEN" \in devices[d].flags
        /\ ~Busy("main") => devices["vcom"].ref > 0
        /\ \A d \in Devices : devices[d].ref > 0 /\ "INT_RX" \in devices[d].flags => devices[d].rx
        /\ "OPEN" \in devices["vcom"].flags => devices["vcom"].rx

\* Once a switch is over the shell hears its device: the open without INT_RX by
\* rt_console_set_device, and the flags other threads save and restore around their
\* output, have not left it without reception.  (change_print with another
\* device than "vcom" does: it moves the shell to "vcom" and opens the other for reception.
\* So may one that ran inside an open or a close: open_flag |= is not locked either.)
ShellHears == Settled /\ ~torn /\ ~misnamed => Hears(shell_dev)
=============================================================================
