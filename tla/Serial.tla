-------------------------------- MODULE Serial --------------------------------
(***************************************************************************)
(* Reception on the console's UART (uart1): the receiver's data register,  *)
(* the interrupt that moves its bytes into the software fifo serial_rx,    *)
(* the shell that reads them, and the thread tBtn that opens and closes    *)
(* the device under them when a key moves console and shell to "vcom" and  *)
(* back.                                                                   *)
(*                                                                         *)
(* The interrupt handler is split where the hardware may interfere: a byte *)
(* can arrive at any time.  Threads run only outside the handler, and an   *)
(* enabled interrupt is taken before a thread goes on.  tshell (20) runs   *)
(* before tBtn (25).  Bytes are numbered in the order they arrive.         *)
(***************************************************************************)
EXTENDS Integers, Sequences

CONSTANTS
    BufSz,          \* serial->config.bufsz
    Quiet,          \* is the line quiet while the last close is under way?
    MaxBytes,       \* bound: bytes arriving
    MaxSwitches     \* bound: keys held down

ASSUME SizesAssumption ==
    /\ BufSz \in Nat \ {0, 1} /\ Quiet \in BOOLEAN
    /\ MaxBytes \in Nat /\ MaxSwitches \in Nat

None == 0

VARIABLES
    arrived,    \* number of bytes that arrived
    dr,         \* the data register, None while RXNE is not set
    irq,        \* the receive interrupt is enabled
    isr,        \* where the interrupt handler is, "off" if it does not run
    fifo,       \* the block serial_rx points to, or pointed to last
    rx,         \* serial_rx # RT_NULL
    live,       \* the block is allocated
    dev,        \* ref_count and open_flag of the device, rx_indicate set
    mine,       \* shell->device is this device
    sem,        \* value of shell->rx_sem
    shell,      \* tshell: about to read the device ("read") or to take rx_sem ("take")
    got,        \* the bytes tshell read
    todo,       \* the steps tBtn has still to make
    switches,
    hist        \* history: what may have kept a byte from the shell

vars == <<arrived, dr, irq, isr, fifo, rx, live, dev, mine, sem, shell, got, todo,
          switches, hist>>
lineVars == <<arrived, dr>>
rxVars == <<irq, fifo, rx, live, dev>>
shellVars == <<mine, sem, shell, got>>

EmptyFifo == [buffer |-> [k \in 0..(BufSz - 1) |-> None], put |-> 0, get |-> 0,
              is_full |-> FALSE]

\* The shell has taken uart1, the boot console, for its device.
Init ==
    /\ arrived = 0 /\ dr = None
    /\ irq = TRUE /\ isr = "off"
    /\ fifo = EmptyFifo /\ rx = TRUE /\ live = TRUE
    /\ dev = [ref |-> 2, flags |-> {"OPEN", "INT_RX"}, ind |-> TRUE]
    /\ mine = TRUE /\ sem = 0 /\ shell = "read" /\ got = <<>>
    /\ todo = <<>> /\ switches = 0
    /\ hist = {}

-----------------------------------------------------------------------------
(* The software fifo.                                                      *)

Up(k) == IF k + 1 >= BufSz THEN 0 ELSE k + 1

\* A byte that fills the fifo discards the oldest one.
Store(f, b) ==
    LET put == Up(f.put)
        full == put = f.get
    IN [buffer |-> [f.buffer EXCEPT ![f.put] = b], put |-> put,
        get |-> IF full THEN Up(f.get) ELSE f.get, is_full |-> f.is_full \/ full]

Empty(f) == f.get = f.put /\ ~f.is_full

\* rx_length, as the interrupt handler computes it for rx_indicate.
RxLength(f) == IF f.put >= f.get THEN f.put - f.get ELSE BufSz - (f.get - f.put)

Contents(f) == [k \in 1..RxLength(f) |-> f.buffer[(f.get + k - 1) % BufSz]]

-----------------------------------------------------------------------------
(* The line and the interrupt handler: uart_isr, rt_hw_serial_isr(RX_IND). *)

Pending == irq /\ dr # None

Closing == todo # <<>> /\ Head(todo) \in {"free", "null", "clr_int", "shut"}

\* A byte that finds the data register full is lost (overrun).
Arrive ==
    /\ arrived < MaxBytes
    /\ Quiet => ~Closing
    /\ arrived' = arrived + 1
    /\ dr' = IF dr = None THEN arrived + 1 ELSE dr
    /\ hist' = IF dr = None THEN hist ELSE hist \cup {"overrun"}
    /\ UNCHANGED <<isr, rxVars, shellVars, todo, switches>>

Enter ==
    /\ isr = "off" /\ Pending
    /\ isr' = "getc"
    /\ UNCHANGED <<lineVars, rxVars, shellVars, todo, switches, hist>>

\* while (1): getc, and store what it returns.
Getc ==
    /\ isr = "getc" /\ dr # None
    /\ dr' = None
    /\ fifo' = Store(fifo, dr)
    /\ hist' = IF RxLength(fifo) = BufSz - 1 THEN hist \cup {"overflow"} ELSE hist
    /\ UNCHANGED <<arrived, isr, irq, rx, live, dev, shellVars, todo, switches>>

\* A mutant: rx_length is put_index - get_index.
Indicate_no_wrap ==
    /\ isr = "getc" /\ dr = None
    /\ isr' = "clear"
    /\ sem' = IF dev.ind /\ fifo.put > fifo.get THEN sem + 1 ELSE sem
    /\ hist' = IF dev.ind THEN hist ELSE hist \cup {"unannounced"}
    /\ UNCHANGED <<lineVars, rxVars, mine, shell, got, todo, switches>>

\* getc returned -1: finsh_rx_ind releases rx_sem, if it is set and there are bytes.
Indicate ==
    /\ isr = "getc" /\ dr = None
    /\ isr' = "clear"
    /\ sem' = IF dev.ind /\ RxLength(fifo) # 0 THEN sem + 1 ELSE sem
    /\ hist' = IF dev.ind THEN hist ELSE hist \cup {"unannounced"}
    /\ UNCHANGED <<lineVars, rxVars, mine, shell, got, todo, switches>>

\* uart_isr clears RXNE: a byte that arrived since the last getc is not seen again.
ClearFlag ==
    /\ isr = "clear"
    /\ isr' = "off"
    /\ dr' = None
    /\ hist' = IF dr = None THEN hist ELSE hist \cup {"cleared"}
    /\ UNCHANGED <<arrived, rxVars, shellVars, todo, switches>>

-----------------------------------------------------------------------------
(* tshell: finsh_getchar.                                                  *)

ThreadsRun == isr = "off" /\ ~Pending

\* A mutant: is_full stays set.
IntRx_keeps_full ==
    /\ got' = IF Empty(fifo) THEN got ELSE Append(got, fifo.buffer[fifo.get])
    /\ fifo' = IF Empty(fifo) THEN fifo ELSE [fifo EXCEPT !.get = Up(@)]
    /\ shell' = IF Empty(fifo) THEN "take" ELSE "read"
    /\ UNCHANGED <<dr, hist>>

\* _serial_int_rx for one byte.
IntRx ==
    /\ got' = IF Empty(fifo) THEN got ELSE Append(got, fifo.buffer[fifo.get])
    /\ fifo' = IF Empty(fifo) THEN fifo ELSE [fifo EXCEPT !.get = Up(@), !.is_full = FALSE]
    /\ shell' = IF Empty(fifo) THEN "take" ELSE "read"
    /\ UNCHANGED <<dr, hist>>

\* _serial_poll_rx for one byte: the data register, not the fifo.
PollRx ==
    /\ got' = IF dr = None THEN got ELSE Append(got, dr)
    /\ dr' = None
    /\ shell' = IF dr = None THEN "take" ELSE "read"
    /\ hist' = hist \cup {"polled"}
    /\ UNCHANGED fifo

\* rt_device_read(shell->device, -1, &ch, 1); the other device has nothing to read.
Read ==
    /\ ThreadsRun /\ shell = "read"
    /\ \/ mine /\ "INT_RX" \in dev.flags /\ IntRx
       \/ mine /\ "INT_RX" \notin dev.flags /\ PollRx
       \/ ~mine /\ shell' = "take" /\ UNCHANGED <<got, fifo, dr, hist>>
    /\ UNCHANGED <<arrived, isr, irq, rx, live, dev, mine, sem, todo, switches>>

\* rt_sem_take(&shell->rx_sem, RT_WAITING_FOREVER).
Take ==
    /\ ThreadsRun /\ shell = "take" /\ sem > 0
    /\ sem' = sem - 1
    /\ shell' = "read"
    /\ UNCHANGED <<lineVars, isr, rxVars, mine, got, todo, switches, hist>>

-----------------------------------------------------------------------------
(* tBtn: the parts of a long press that touch this device.                 *)

\* key0 on uart1: finsh_set_device and rt_console_set_device close the device.
Away == <<"close", "clear_ind", "leave", "close">>

\* key1 on "vcom": both open it; key.c closes it and opens it again with INT_RX.
Back == <<"open_int", "enter", "set_ind", "open", "close", "open_int">>

\* key1 on uart1.
Again == <<"close", "open", "close", "open_int">>

BtnRuns == ThreadsRun /\ shell = "take" /\ sem = 0

\* tBtn makes its next step, op; more are the steps it is made of.
Makes(op, more) ==
    /\ BtnRuns /\ todo # <<>> /\ Head(todo) = op
    /\ todo' = more \o Tail(todo)

HoldKey ==
    /\ BtnRuns /\ todo = <<>> /\ switches < MaxSwitches
    /\ switches' = switches + 1
    /\ todo' \in IF mine THEN {Away, Again} ELSE {Back}
    /\ UNCHANGED <<lineVars, isr, rxVars, shellVars, hist>>

\* Two mutants: a new fifo on every open; none when the device is opened again.
Open_always_alloc ==
    \E op \in {"open", "open_int"} :
    /\ Makes(op, IF op = "open_int" THEN <<"alloc", "set_int", "opened">>
                                    ELSE <<"opened">>)
    /\ dev' = [dev EXCEPT !.flags = {}]
    /\ UNCHANGED <<lineVars, isr, irq, fifo, rx, live, shellVars, switches, hist>>

Open_no_alloc ==
    \E op \in {"open", "open_int"} :
    /\ Makes(op, <<"opened">>)
    /\ dev' = [dev EXCEPT !.flags = IF op = "open_int" THEN {"INT_RX"} ELSE {}]
    /\ UNCHANGED <<lineVars, isr, irq, fifo, rx, live, shellVars, switches, hist>>

\* rt_serial_open: the flags come first, without INT_RX, which comes back at once if there is
\* a fifo (it was not among the flags before either, see Back and Again), and else with the new
\* one, before SET_INT.
Open ==
    \E op \in {"open", "open_int"} :
    /\ Makes(op, IF op = "open_int" /\ ~rx THEN <<"alloc", "set_int", "opened">>
                                           ELSE <<"opened">>)
    /\ dev' = [dev EXCEPT !.flags = IF op = "open_int" /\ rx THEN {"INT_RX"} ELSE {}]
    /\ UNCHANGED <<lineVars, isr, irq, fifo, rx, live, shellVars, switches, hist>>

Alloc ==
    /\ Makes("alloc", <<>>)
    /\ fifo' = EmptyFifo /\ rx' = TRUE /\ live' = TRUE
    /\ dev' = [dev EXCEPT !.flags = @ \cup {"INT_RX"}]
    /\ UNCHANGED <<lineVars, isr, irq, shellVars, switches, hist>>

SetInt ==
    /\ Makes("set_int", <<>>)
    /\ irq' = TRUE
    /\ UNCHANGED <<lineVars, isr, fifo, rx, live, dev, shellVars, switches, hist>>

\* rt_device_open counts the reference last.
Opened ==
    /\ Makes("opened", <<>>)
    /\ dev' = [dev EXCEPT !.flags = @ \cup {"OPEN"}, !.ref = @ + 1]
    /\ UNCHANGED <<lineVars, isr, irq, fifo, rx, live, shellVars, switches, hist>>

\* rt_device_close; the last one goes on in rt_serial_close.
Close ==
    /\ Makes("close", CASE dev.ref # 1 -> <<>>
                        [] dev.ref = 1 /\ "INT_RX" \in dev.flags ->
                               <<"free", "null", "clr_int", "shut">>
                        [] OTHER -> <<"shut">>)
    /\ dev' = [dev EXCEPT !.ref = IF @ = 0 THEN 0 ELSE @ - 1]
    /\ UNCHANGED <<lineVars, isr, irq, fifo, rx, live, shellVars, switches, hist>>

Free ==
    /\ Makes("free", <<>>)
    /\ live' = FALSE
    /\ hist' = IF Empty(fifo) THEN hist ELSE hist \cup {"freed"}
    /\ UNCHANGED <<lineVars, isr, irq, fifo, rx, dev, shellVars, switches>>

SetNull ==
    /\ Makes("null", <<>>)
    /\ rx' = FALSE
    /\ dev' = [dev EXCEPT !.flags = @ \ {"INT_RX"}]
    /\ UNCHANGED <<lineVars, isr, irq, fifo, live, shellVars, switches, hist>>

ClrInt ==
    /\ Makes("clr_int", <<>>)
    /\ irq' = FALSE
    /\ UNCHANGED <<lineVars, isr, fifo, rx, live, dev, shellVars, switches, hist>>

Shut ==
    /\ Makes("shut", <<>>)
    /\ dev' = [dev EXCEPT !.flags = {}]
    /\ UNCHANGED <<lineVars, isr, irq, fifo, rx, live, shellVars, switches, hist>>

\* rt_device_set_rx_indicate and the assignment of shell->device.
Indication ==
    \E op \in {"set_ind", "clear_ind"} :
    /\ Makes(op, <<>>)
    /\ dev' = [dev EXCEPT !.ind = (op = "set_ind")]
    /\ UNCHANGED <<lineVars, isr, irq, fifo, rx, live, shellVars, switches, hist>>

ShellDevice ==
    \E op \in {"enter", "leave"} :
    /\ Makes(op, <<>>)
    /\ mine' = (op = "enter")
    /\ UNCHANGED <<lineVars, isr, rxVars, sem, shell, got, switches, hist>>

-----------------------------------------------------------------------------
Isr == Enter \/ Getc \/ Indicate \/ ClearFlag
Shell == Read \/ Take
Btn == \/ Open \/ Alloc \/ SetInt \/ Opened \/ Close \/ Free \/ SetNull \/ ClrInt \/ Shut
       \/ Indication \/ ShellDevice

Next == Arrive \/ Isr \/ Shell \/ Btn \/ HoldKey

Spec == Init /\ [][Next]_vars

-----------------------------------------------------------------------------
(* Properties.                                                             *)

Losses == {"overrun", "overflow", "cleared", "freed"}

\* Bytes on their way to the shell: read, in the fifo, in the data register.
Trail == got \o (IF rx THEN Contents(fifo) ELSE <<>>)
             \o (IF dr = None THEN <<>> ELSE <<dr>>)

\* Unless a byte meets a full data register, a full fifo, the clearing of RXNE at the
\* handler's end or the freeing of the fifo, every byte that arrived is in one place and
\* in order, however the device is opened and closed meanwhile.
NoByteLost == hist \cap Losses = {} => Trail = [k \in 1..arrived |-> k]

\* Whatever is lost, the shell reads no byte twice and none out of order.
ReadInOrder == \A j, k \in 1..Len(Trail) : j < k => Trail[j] < Trail[k]

\* The shell does not sleep over bytes in the fifo of its device: rx_sem is released
\* (or the handler is about to), unless a byte came while rx_indicate was not set or the
\* shell read the device while it was open without INT_RX.
ShellAwake ==
    mine /\ shell = "take" /\ rx /\ Contents(fifo) # <<>>
        => sem > 0 \/ isr = "getc" \/ hist \cap {"unannounced", "polled"} # {}

\* rt_hw_serial_isr works on a fifo that is there, as its RT_ASSERT(rx_fifo != RT_NULL)
\* asks, and that has not been freed.
IsrHasFifo == isr # "off" => rx /\ live

\* Nor is there another that works without it: the flags say INT_RX to a reader only when
\* the fifo is there, and it is there when rt_serial_close frees it, as RT_ASSERT(rx_fifo !=
\* RT_NULL) of _serial_int_rx and of rt_serial_close asks (compiled out: nothing else stands
\* before the null pointer).
UsersHaveFifo ==
    /\ IsrHasFifo
    /\ mine /\ shell = "read" /\ ThreadsRun /\ "INT_RX" \in dev.flags => rx /\ live
    /\ todo # <<>> /\ Head(todo) = "free" => rx

=============================================================================
