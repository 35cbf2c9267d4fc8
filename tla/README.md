# Verification of the USB virtual COM firmware

The firmware in this repository is an RT-Thread 4.0 application for an STM32F407
board: a console that can be moved between a UART and a USB virtual COM port, a touch
panel that retunes a signal generator, and the kernel, drivers and USB device stack
under them. This directory holds TLA+ models of the parts that carry its logic, the
TLC configurations that check them on small instances, and TLAPS proofs of what matters
most for every instance.

Paths below are relative to the repository's root; `core.c` is
`rt-thread/components/drivers/usb/usbdevice/core/core.c`, `cdc_vcom.c` is in
`.../usbdevice/class/`, `serial.c` in `rt-thread/components/drivers/serial/`.

## The system and its parts

| part | code | state | operations |
|---|---|---|---|
| ring buffer | `components/drivers/src/ringbuffer.c` | pool, two indexes, two mirror bits | put, put_force, get, putchar, putchar_force, getchar, reset |
| virtual COM port | `cdc_vcom.c` | tx and rx ring buffers, event, completion, the two endpoint requests, connected | `_vcom_putc`, `vcom_tx_thread_entry`, endpoint handlers, enable, disable |
| USB device core | `core.c`, `drv_usbd.c` | device state, `usb_mq`, endpoint halts and kept requests, control transfer | message loop of the thread usbd, fed by interrupts |
| serial framework | `serial.c`, `drv_usart.c` | `serial_rx` fifo, open flags, data register | interrupt handler, open, close, read |
| console and shell | `applications/key.c`, `main.c`, `kservice.c`, `shell.c`, `device.c` | console device, shell device, reference counts and open flags | long presses, `change_print`, output |
| HMI channel | `applications/hmi.c` | uart3's fifo, `hmi_sem`, `cmd_buff`, the frequencies | receive callback, `hmi_thread`, `hmi_cmd_analysis` |
| kernel IPC | `rt-thread/src/ipc.c`, `thread.c` | suspend lists, timers of waiting threads, semaphores, mutexes, events, mailboxes, message queues | take, release, send, receive, reset, timeout |
| scheduler, timers | `rt-thread/src/scheduler.c`, `thread.c`, `timer.c`, `clock.c` | ready lists and bit group, current thread, scheduler lock, tick, timer list | schedule, sleep, yield, resume, timeout, change of priority, tick |
| heap | `rt-thread/src/mem.c` | block headers, `lfree`, `used_mem` | malloc, calloc, realloc, free |
| ulog | `components/utilities/ulog/ulog.c`, `components/drivers/src/ringblk_buf.c` | blocks of the ring block buffer, `output_locker`, `async_notice` | log from threads and handlers, output thread, flush |
| signal boards | `board/` | registers of AD9954, AD9959, ADS1256 | not modelled yet |

How they interact: `rt_kprintf` and the shell write through the serial framework into
`_vcom_putc`, which puts bytes into `tx_ringbuffer` and sends an event; the transmit
thread (priority 16) takes them and asks the USB core to send them; interrupts post
messages to `usb_mq`; usbd (priority 8) advances the request, completes the wait, or
hands received bytes to the serial framework, whose receive callback wakes the shell
(priority 20). Keys (tBtn, 25) and the shell command `change_print` move console and
shell from one device to the other under all of this. thmi (20) waits for bytes of
uart3 and drives the AD9954. Every thread logs through ulog, whose frames wait in one
buffer for the thread ulog_async (30). All of them run under one scheduler and allocate
from one heap.

What is hard: threads of five priorities and three interrupt sources share requests,
flags and fifos mostly without locks; a wait ends by a completion or by a timeout whose
completion comes late; bus resets and configurations arrive between any two steps;
queues drop what they cannot hold; memory is freed while hardware still has its
address. `PROJECT.json` lists these hazards with the lines where they bite.

`rtconfig.h` leaves `RT_DEBUG` undefined, so `RT_ASSERT` expands to nothing: where the
code asserts a condition the models do not rely on it, they check it.

## Modules

Every module names in its comments the function each action stands for; `PROJECT.json`
("map") has the lines. Operators with a suffix (`..._grows`, `..._no_flip`) just
before a definition are mutants: the same operation with a plausible mistake, used to
confirm that the properties would notice it.

**RingBuffer** (refines **ByteQueue**). The struct as a record; each C function as an
operator on it with the code's own comparisons, and an action that applies it. Callers
hold the interrupt lock, so a call is one step. `ByteQueue` is the promise: a bounded
FIFO queue whose operations return counts and bytes, and a forced put that keeps the
newest bytes or, as the code does from some states, none.

**VcomTx**. Writers in `_vcom_putc`, the transmit thread cut at every point where it can
be preempted (testing the ring, taking bytes, each field of the request, the first
packet, the wait), usbd handling one message per step (it has the highest priority), the
host taking packets, resetting, configuring, changing DTR. Bytes are numbered in the
order they are put. `tx_ringbuffer` is the queue the ring buffer is proved to be; the
one unlocked access, `rt_ringbuffer_data_len` in the loop condition, is split in two
steps for a full ring (`BeginTestFull`, `EndTestFull`), where a concurrent forced put
can make it read as empty. The request's buffer is an offset into the thread's array.
`hist` records what has happened to the stream (overflow, disconnection, timeout,
restart, overrun) so that a property can say what holds as long as it has not.

**UsbDevice**. The device states, `usb_mq`, the halt of the OUT endpoint with the request
kept for its end, the endpoint's heap buffer, and the way of a packet into the serial
fifo. The host does one control transfer at a time and knows of the device what the
answers tell it. `arm` is what the controller was given: a block, `RT_NULL` or nothing;
`mem` is the memory behind it, address 0 included, where a packet is written.
The HAL's effect on the endpoint (closing it clears the STALL bit and disarms it) is
taken from `stm32f4xx_ll_usb.c`.

**Serial**. uart1 under the shell: the data register, the interrupt handler cut where a
byte may arrive (after each getc, before RXNE is cleared), the software fifo with
`put_index`, `get_index`, `is_full`, the shell's read-or-sleep loop, and the opens and
closes of a long press cut into the steps of `rt_serial_open` and `rt_serial_close`. (One
thread opens and closes here; what two do to each other is in Console.)

**Console**. Both devices' reference counts, open flags, fifo and callback (`devices`),
`_console_device` and `shell->device`; each thread's pending calls as a sequence (`calls`),
scheduled by priority. A call of `rt_device_open` or `rt_device_close` is entered in one step
(`Enters`) and then run statement by statement (`io` has the thread's place in it and its
locals), through `rt_serial_open` and `rt_serial_close`: nothing in them is locked, so
`open_flag |=`, `open_flag &=`, `ref_count++` and `ref_count--` are a load and a store
(`LoadFlags`, `OrOpen`, `LoadRef`, `CountUp`, ...), and a thread of higher priority comes
between any two of them. `torn` records that one did and used the same device. Other calls are
one step; so are the two accesses at each end of the save and restore of `open_flag` by
`rt_kprintf` and the log backend. Initialising a device at its first open is left out.

**Hmi**. The panel's bytes, uart3's fifo, `hmi_sem`, and `hmi_thread` cut at its
semaphore takes and reads. A command's name and value are one byte each.

**IpcThreads**, **IpcSync**, **IpcMail**, **Ipc**. The kernel objects every thread of the
firmware waits on (`usb_mq`, `hmi_sem`, the shell's `rx_sem`, the port's event, ulog's
mutex). `IpcThreads` has what they share: `thread->stat`, `thread->error`, the thread
timer, the suspend lists in either order, and resumption by a call (`WakeFirst`,
`WakeAll`) or by `rt_thread_timeout` (`Timeout`). `IpcSync` and `IpcMail` have one action
per call, cut where the code gives up the interrupt lock: behind `rt_schedule()`
(`SemTaken`, `MutexTaken`, `MbRecvResumed`, ...) and round the copies of the message queue
(`MqSend` and `MqLink`, `MqRecv` and `MqFree`). `Ipc` composes them; a behaviour is about
objects of one kind, chosen in the initial state with the flag of its lists, since the
kinds share nothing but the threads. A call that fails at once and changes nothing is a
stuttering step. The error number is RT_EOK or not: `ipc.c` tells no two errors apart. What
a thread does between calls is left open, so any ready thread may go on: that includes
every schedule the priorities allow.

**Sched**. One processor. `sch` is the scheduler's state, a record that the functions
`ScheduleInsert`, `ScheduleRemove`, `Schedule` and `ChangedPriority` transform as the C
functions do; a call that suspends or resumes a thread is one step, its `rt_schedule()`
another (`pc`, `isr`), so that interrupts come in between. The tick handler is one step,
`rt_timer_check` with all its timeouts and their `rt_schedule` calls included: no
interrupt of this firmware has a higher priority than SysTick, as long as the command
`change_clock` is not used, whose HAL_SYSTICK_Config lowers it. `left`, which the code
does not have, counts the ticks to a timeout without wrapping. The calls of `ipc.c` are here only what
they do to the scheduler; what they do to their objects is in Ipc. A thread may call
anything at any time, except that nobody waits with the scheduler locked.

**Heap**. The chain of headers as a function from offsets to [used, next, prev]; sizes
count units of RT_ALIGN_SIZE. A section under `heap_sem` is one step: `rt_realloc` that
has to move has three. Clients ask for sizes in any order and free what they have.

**Ulog**. The block set, the block list and the buffer itself, whose cells hold the number
of the block that was copied there; logging cut between allocation, copy, put, notice and
unlock; the output loop, run by ulog_async and by any thread in `ulog_flush`.

**Kernel**. Puts the three side by side: a behaviour is about one service, chosen in the
initial state, because they share no state.

**RingBufferProofs**, **VcomTxProofs**, **UsbDeviceProofs**, **SerialProofs**, **HmiProofs**,
**KernelProofs** (of Ulog, Sched and Heap), **IpcProofs**: the theorems.
SerialProofs has those of Serial and, behind them, those of Console. **ListLemmas**: what
removing an element, inserting one and joining sequences do to their elements, their length
and their order, used by VcomTxProofs, SerialProofs, KernelProofs and IpcProofs. **MC...**: instances for TLC.

## Runs

| run | checks | result |
|---|---|---|
| ringbuffer | `MirrorInv`, `PutForceOutcome`, `ImplementsQueue` (refinement of ByteQueue) | pass |
| ringbuffer_force | `PutForceKeepsNewest` | **violated**: `put_force` can empty the buffer |
| vcom_tx | `TypeOK`, `NoLostWakeup`, `InOrder`, `DoneMeansDelivered` | pass |
| vcom_tx_stall | `OverrunNeedsTimeout`, `Drains` | pass |
| usb_device | `OutAlive`, `BufferLives`, `ReceivedInOrder`, `HaltKnown`, `ControlAnswered` | pass |
| serial | `NoByteLost`, `ReadInOrder`, `ShellAwake`, `UsersHaveFifo` | pass |
| serial_close | `IsrHasFifo` with bytes arriving during the last close | **violated**: the handler uses a freed fifo |
| console | `RefsMatchHolders`, `UsedDevicesOpen`, `ShellHears` | pass |
| hmi | `ExecutesWhatWasSent`, `TunedAsShown`, `EveryFrameExecuted` | pass |
| ipc | `OnOneList`, `NobodySleepsOverIt`, `UnitsConserved`, `HoldsMatch`, `PriorityRestored`, `Inherited`, `MailsInOrder`, `MessagesKept` | pass |
| kernel | `HighestRuns`, `ReadyListed`, `OnTime`, `FairShare` of Sched; `HeapIntact`, `RefusedOnlyWhenFull` of Heap; `LogsWhole`, `LogsInOrder` of Ulog | pass |
| ulog_notice | `NoLogWaits` | **violated**: the output thread can sleep over a log |

The comment before each property says what it means; the violations are described, with
the line of the repository they contradict, under "findings" in `PROJECT.json`.

### What the runs show beyond pass and fail

* *Transmit path, late completion.* `InOrder` and `DoneMeansDelivered`
  hold for a host that takes its packets in time. With `HostStalls`, a packet taken after
  the wait's 1000 ticks completes, or advances, the next request: then bytes can go out
  of order, and a notification between the assignments of `request.buffer` and
  `request.size` makes the core send through a null buffer. `OverrunNeedsTimeout` says
  that it takes such a timeout, `Drains` that the thread recovers.
* *Transmit path, reset.* Nothing completes the wait when the bus is reset: the thread
  sleeps until its timeout, 10 s, and drops nothing but what was in flight.
* *Receive path, halt.* Configuring the device ends the controller's halt and not
  `ep->stalled`. After halt, reset and configuration the port's request waits in
  `request_list` for a CLEAR_FEATURE the host has no reason to send, while the endpoint
  NAKs. `OutAlive` allows this case (`stalled /\ waiting`); `HaltKnown` says that a
  CLEAR_FEATURE would end it.
* *Receive path, allocation.* Configuring twice leaks the buffer of the first time (a
  comment at `cdc_vcom.c:502` says that a SET_CONFIGURATION stops the port first, `_set_config`
  does not); when the heap is exhausted the endpoint is armed with address 0.
* *Control transfers.* Clearing the halt of an endpoint that is not halted gets no answer.
* *Serial.* Bytes are lost only by overrun of the data register, overflow of the fifo,
  clearing RXNE after the loop in `uart_isr`, or freeing the fifo. A shell may sleep over
  a byte that came while `rx_indicate` was not set or the device was open without INT_RX.
* *Console.* If `change_print` starts in the middle of a long press, both close the same
  old device and the counts stay wrong; no device in use is closed by it, as long as it does
  not come inside an `rt_device_open` or `rt_device_close` of a device it uses itself. If it
  does, an update of `ref_count` or `open_flag` is lost (`device.c:286-288`, `312-328`): tBtn
  loads vcom's count 1, a whole `change_print` makes it 3, tBtn stores 2, and its closes bring
  it to 0 and run `rt_serial_close` with console and shell on vcom. `torn` marks it; nothing is claimed of
  a run after it, and without that condition `UsedDevicesOpen` fails in TLC.
  `change_print` given another device than vcom (`main.c:89`) moves shell and console to
  vcom all the same, opens the other device, leaves vcom without INT_RX, so that the shell
  hears nothing, and prints that the console has been changed to the other device. `misnamed`
  marks it; `UsedDevicesOpen` holds even then (with `torn` as its only exception).
* *HMI.* An interrupt that finds several bytes releases the semaphore once; the thread
  lives on the reads it makes after timeouts it does not recognise: `hmi.c:86` compares
  the result with RT_ETIMEOUT, and a timeout is -RT_ETIMEOUT. Correcting the
  comparison alone would break the channel (the mutant `TakeTimeout_aborts`).
* *Mutex.* A thread has its own priority back after its last release if mutexes are
  released in the reverse order of their takes. Released crosswise, the mutex taken second
  restores the priority inherited through the first, for good: `hist` "crossed" marks it.
  Inheritance itself is complete only for threads that have one mutex at a time and lists
  ordered by priority: with RT_IPC_FLAG_FIFO, which ulog's `output_locker` uses, a hand-over
  gives the new owner nothing from those still waiting. `hold` has 8 bits: as many takes
  as releases come out right even beyond 255, but with one take more than 256 the next
  release frees the mutex under its owner ("overheld").
* *Scheduler.* `rt_mutex_release` that restores a lower priority and finds nobody waiting
  (the waiting thread has timed out) does not call `rt_schedule`: a ready thread of higher
  priority runs only after the next call or tick that does. `HighestRuns` names this as its
  one exception.
* *Time slices.* `rt_tick_increase` yields and then checks the timers; each timeout calls
  `rt_schedule` again, which puts the thread that was just chosen behind the others of its
  priority, without having run. A thread whose turn always comes at a tick on which a timer
  fires never runs: `FairShare` therefore says that no thread keeps the processor, not that
  every thread gets it.
* *Timers.* `rt_timer_start` and `rt_timer_stop` change the timer's flag outside of their
  interrupt lock; harmless here, because all timers are those of threads, and the kernel
  calls these functions for them with interrupts disabled.
* *Heap.* Two kinds of free memory are not found by `rt_malloc`: what `rt_realloc` has cut
  off below `lfree` ("pointer to the lowest free block", `mem.c:131`), until a block next to
  it is freed, and the last block of the heap when the request fits it exactly. A
  `rt_realloc` to a slightly smaller size goes through `rt_malloc` and fails on a full heap.
* *ulog.* A log put between the output loop's last look at the buffer and the reset of
  `async_notice` waits until another one is made. `rt_rbb_destroy` reads the structure it has
  freed, on an error path of `ulog_init` only.
* *Mailbox and message queue.* A thread resumed for a mail may find it taken and waits
  again; `NobodySleepsOverIt` says that for every mail, message or free place some thread
  is on its way to it as long as others sleep.
* *Semaphore.* The 16-bit value wraps unchecked; until then every unit is in the value or
  with one resumed thread, whichever of release, timeout and reset came first.

### Bounds

* Ring buffer: size 3, blocks to 4, two byte values: blocks shorter than, equal to and
  longer than the pool and its tail, from every index and both mirrors.
* VcomTx: two writers, ring 3, request 4, packet 2, queue 2, 5 bytes, 4 control events:
  overflow of the ring, requests of one and two packets with and without a short one, a
  full message queue, a reset with a request under way, reconfiguration and DTR again.
* UsbDevice: packets of 0 to 2 bytes, fifo 3, queue 3, two heap blocks, 7 control events:
  address, configure, halt, data, reset, address, configure is the longest story told,
  and the heap can be exhausted.
* Serial: fifo of 3 (2 bytes), 5 bytes, 3 long presses: overflow, wrapping of both indexes
  and away, back and again in one run.
* Console: 4 key presses or commands, with either device's name, and a log record,
  preempting each other at every statement of their opens and closes. States in which `torn`
  is set are not explored further (`CONSTRAINT NotTorn`): it stays set and every property
  has it as its exception, so that nothing is lost by it. `ref_count` is not wrapped at 256: each
  misnamed `change_print` leaves one count too many, and it would take 255 of them.
* Hmi: 3 frames of 3 and 4 bytes, `cmd_buff` of 3, fifo of 5, bursts up to 3. The index is
  not followed past the end of `cmd_buff`.

* Ipc: three threads, one of a higher priority, and an interrupt handler; lists of up to
  three waiting threads; semaphore values below 3 (so that it wraps), two mutexes whose
  hold count wraps at 3, two event bits, a mailbox of 2 places and a queue of 2 cells with 3 messages, so
  that places and cells are used again.
* Sched: a thread of high priority, two of the same lower one (with slices of 1 and 2
  ticks) and the idle thread; sleeps of 1 and 2 ticks under a counter that wraps at 7, so
  that half of its range, 3, is just above them, as the code requires; the lock taken once.
  Nothing else is bounded.
* Heap: 21 units, headers and smallest blocks of 3, requests of 1 (rounded up), 4 and 9; two
  clients with up to two blocks each, one more during a reallocation: splits, near fits and
  exact fits, merging on both sides, a full heap.
* Ulog: three cells, three blocks, frames of 1 and 2, two threads and a handler: the buffer
  wraps, blocks are freed out of order, logs are dropped for want of cells or of a block.
  Nothing is bounded: threads log for ever.

CHECK_DEADLOCK is off where the bounds stop the environment. Symmetry is used for
writers, threads of one priority, mutexes, event bits and heap blocks in runs without liveness, where no definition tells them apart.

### Fairness

* VcomTx!FairSpec: a writer inside `_vcom_putc` goes on, the transmit thread is scheduled,
  its timer expires. Priorities 16 and 20 and a CPU that is idle most of the time justify
  it. Nothing is assumed of the host or of usbd.
* Hmi!FairSpec: a frame begun is sent to its end, the thread is scheduled, its semaphore
  timeout expires.
* Kernel!Fairness: the tick interrupt keeps coming (SysTick is never stopped), and a thread
  that locks the scheduler leaves the lock. No thread is assumed to do anything else.

UsbDevice needs none: `ControlAnswered` says that the transfer under way has its message
queued, and usbd, the thread of highest priority, handles what is queued.

## Proofs

TLAPS proves, for every value of the constants that satisfies the named assumptions:

* `RingBufferProofs!MirrorsTellLaps`: `Spec => [](TypeOK /\ MirrorInv)`. The invariant is
  inductive as it stands; one lemma per operation shows that the indexes stay in the pool
  and that a wrapping index takes its mirror along. put_force is included: its defect
  loses contents, not consistency.
* `RingBufferProofs!RingBufferIsQueue`: `Spec => ImplementsQueue`. The mapping is
  `Contents`, the bytes from the read index on, round the pool. `PutContents`,
  `GetContents`, `PutCharForceContents` and `PutForceContents` compute the contents after
  each operation; `putchar` and `getchar` are shown to be `put` and `get` of one byte.
* `RingBufferProofs!NewestOrNothing`: `Spec => PutForceOutcome`, which says when put_force
  empties the buffer: its block does not fit and the mirrors agree, so they agree after it
  too. `CopyInBytes` says where each byte of the pool comes from, `DraggedArithmetic` which
  of them lies i places after the dragged read index.
* `VcomTxProofs!TypeCorrect`, `VcomTxProofs!WakeupNeverLost`. `NoLostWakeup` needs two
  facts to be inductive: a thread that sleeps on the event has not left it set
  (`SleepInv`), and a thread whose unlocked read was overtaken by a put has a wake-up due
  (`TornInv`), because the writer sends the event after the put.
* `VcomTxProofs`: `BytesSentInOrder`, `DoneWhenDelivered`, `OverrunOnlyLate`, from the
  invariant `VInv`. `BusInv` says what `usb_mq` tells of the device: no notification is
  queued behind a message that would end the configuration it belongs to. `ConnInv`: until the host restarts the device
  the thread sends only to a host that polls. `RingInv` and `ChInv`: the ring holds the last bytes
  put, and `ch` consecutive ones from before them. `Flows` holds until a wait is given up
  while its answer is due: at most one answer is owed to the thread, and only while it waits
  (`TokenInv`); the request stays within `ch` and its rest begins at a packet
  boundary (`ReqInv`); the packet in the FIFO and the bytes the host has are what was handed
  over (`PacketInv`, `HostInv`); and the packet before the answer was short or the empty one is
  still to come (`TailInv`). The first two theorems assume, as their run does, a host
  that takes its packets in time (`HostStalls = FALSE`), the third does not.
* `UsbDeviceProofs`: `OutNeverForgotten`, `BufferNeverLost`, `HaltsAreKnown`,
  `TransfersAnswered`, `BytesArriveInOrder`, from one invariant `IInv`. What makes it
  inductive is what the host and `usb_mq` know of each other: while a reset is queued the
  host asks for nothing (`ResetKnown`), at most one setup packet is queued, with no reset
  before it, and it is the host's transfer or a reset has cut it off (`OneSetup`); a device the host
  knows to be configured has its buffer and receives into no other (`ConfiguredInv`); and
  nothing is allocated when a configuration that follows a reset is handled (`LeakInv`).
  `BytesArriveInOrder` adds `RxInv`: a queued packet is the only one, the endpoint is not
  armed meanwhile, and its bytes, still in the buffer, come after all those the
  fifo holds and the reader has.
* `SerialProofs`, Serial: `UsersKeepFifo`, `BytesReadInOrder`, `BytesAllThere`, `ShellIsAwake`.
  `StageInv` is a table with a row per step of a long press: the reference count, the open
  flags, the fifo and the interrupt of uart1 at that step. `HandlerInv` says that the handler
  runs only with its interrupt enabled, `QuietInv` that nothing enters it while the fifo is
  being freed. `TrailInv` and `WholeInv` relate the indexes of the fifo to the bytes read,
  stored and waiting in the data register; `AwakeInv` follows the semaphore. The first and the third theorem
  assume a line that is `Quiet` while the device is closed: without that the run
  serial_close shows the first to be false. The other two hold on any line.
* `SerialProofs`, Console: `OpenAsOftenAsUsed`, `UsedStayOpen`, `ShellIsNeverDeaf`, from
  `ConsoleInv`. What a thread still has to call is abstracted to the call it is at and the
  one that may follow (`Chain`, `Follows`), so that every step is one row of `Move`.
  `WhereInv` then says where the threads are: tBtn moves only while tshell has nothing to do
  (`Turn`), and what the shell's device and the console are at each place of a switch
  (`PlaceInv`). `RefInv` is the balance: the reference count of a device is its users plus
  what each switch has opened ahead or closed behind (`Account`, `Share`); with overlapping
  switches it is at least that, but for uart1 at the places `Loose` names, and at none of them
  is it the console's or the shell's device for good. `FifoInv`, `OpenInv`, `IntInv` and
  `IndInv` follow the fifo, the OPEN and INT_RX flags, also those saved by output, and the
  callback of the shell. All of these are about `Completed`, the devices as they will be when
  the opens and closes under way are finished: entering an open or a close has its whole
  effect there, and each statement leaves it alone (`RanKeeps`, `StatementStep`), because
  without `torn` only one thread is inside a device (`SplitInv`). `SoFar`
  says how far each has come, and carries over to the devices themselves that one that
  receives has its fifo and that a close of vcom is never the last. `ConsoleInv` is `torn`,
  which stays (`TornStays`), or all of this.
* `HmiProofs`: `TuningAgrees` (`TuneInv`: the agreement, at every place of the thread) and
  `CommandsExecuted` (`HmiInv`: the bytes in the fifo and on the line are the rest of
  the frame being read and the frames sent after it, cut at places that `StreamInv` says
  exist; `cmd_buff` holds the beginning of that frame's command; the semaphore counts no
  more units than there are bytes to read). The second assumes, as its run does, that the panel does not pause inside a
  frame for as long as the take waits (`Pauses = FALSE`).
* `KernelProofs`, Ulog: `LogsPrintedWhole`, `LogsTakenInOrder`. `UlogInv` says that the
  blocks of `blk_list` do not overlap and, in the order of the list, go around the buffer
  at most once (`LaidInv`), although `rt_rbb_blk_alloc` looks at the first and the last
  block alone; that the block being filled is the lock owner's and that only handlers have
  allocated since (`LoggerInv`); who has each block that was taken (`OutputInv`); and that
  the cells of a block that is put hold its frame (`CellsInv`).
* `KernelProofs`, Sched: `ReadyThreadsListed`, `HighestAlwaysRuns`, and the action property
  `TimersFireOnTime`. `SchedInv` has the ready lists (`Listed`), that a suspended thread that
  still runs is about to call `rt_schedule()` and may (`GoesSoon`), that who has a running timer waits
  (`TimersWait`), and the timer list sorted by the ticks left (`TimerInv`), which
  the code's comparison of wrapped ticks decides rightly because no delay reaches half of the
  counter's range. The lemmas about `Schedule`, `ChangedPriority` and the timeouts of one tick
  are about the functions on `sch`, each proved once.
* `KernelProofs`, Heap: `HeapStaysIntact`, `RefusalsHaveCause`. `HeapInv` has the chain of
  headers from both ends (`Chained`: every header but the first is also its predecessor's
  `next`, which is what merging and splitting rely on), no two free blocks side by side
  (`Merged`), the used blocks as those that threads have, one owner each (`HeldOn`),
  `used_mem` as the number of units in used blocks, `lfree` free or the end with nothing free
  below it but what `rt_realloc` has cut off (`CutOk`), and the old block of a `rt_realloc`
  that is between its steps still its caller's, too small for what it asks (`ReOk`).
  `Split`, `Join` and `PlugHoles`, which every operation is made of, have their lemmas once.
* `IpcProofs`: `ThreadsOnOneList`, `UnitsAreConserved`, `HoldsAreCounted`,
  `PriorityIsRestored`, `OwnersInherit`, `NobodyOversleeps`, `MailsAreInOrder`,
  from `IpcInv`, and `MessagesAreKept`. Its first part, `Core`, is shared by all kinds of objects: the suspended threads are
  on the list of the object their call is about, once (`ListInv`), and the objects of the
  other kinds are as they were. What a call does to the lists is proved once for `Suspend`,
  `WakeFirst`, `WakeAll` and `Timeout`; then each kind has its own part. `SemInv`: units are in the value or
  with a resumed thread, and nobody waits while the value is not 0. `MutexInv`:
  `HoldsStrong` counts the takes of each thread, the one it has been handed
  included; `PriorityRestored` needs that the mutex a thread got first remembers the thread's
  own priority (`Bottoms`); `Inherited` needs the lists sorted by the priorities threads have
  now, while nobody who has a mutex asks for another (`Single`, `InOrderOf`). `EventInv`: `Deliver`, the loop of `rt_event_send`
  over the list, leaves no thread that the remaining bits satisfy. `MbInv`: the ring of mails, read from
  `out_offset` on, and for every mail or place threads wait for, one on its way
  (`MbAwake`). `MqInv`: the same for messages.
  `MessagesAreKept` takes `LinkInv` besides: there are two lists of cells, the queue and the
  free list, that the links run through (`Linked`), and each cell is on one of them or with
  one caller that copies it without the lock (`Apart`); the cells of the queue hold the
  messages in order (`Queued`), and one that is being copied out still holds its message
  (`Intact`). `ChainIs` says that following the links from the first cell gives these lists.

The proofs use no induction theorem: where a fact about a list needs induction, they take the
least counterexample (`LeastNatural`).

Assumptions on the constants: the sizes are positive (`SizeAssumption`,
`SizesAssumption`), the sets of bytes and of heap blocks are not empty, a command leaves
room for its end byte in `cmd_buff` and has none in it (`CommandsAssumption`), the set of
threads is finite and has an idle thread of lowest priority, the tick counter's modulus
exceeds 4 and delays stay below half of it (`SchedAssumption`), which `timer.c` asserts; the
counters of semaphores and mutexes have at least a bit, mailbox and queue a place
(`SyncAssumption`, `MailAssumption`), and RT_NULL is no cell; headers, smallest blocks and requests are not of size 0
and the heap has room for one block (`HeapAssumption`).

Only model-checked: liveness (`Drains`, `EveryFrameExecuted`, `FairShare`), which is out of
the prover's reach with its fairness.

## Not modelled

DMA reception and transmission (not configured); `_vcom_tx` and interrupt transmission
(no caller opens with INT_TX); SOF and plug messages (switched off in `drv_usbd.c`);
detaching and deleting IPC objects (only on error and
deinitialisation paths here); creating and deleting threads; periodic and soft timers (none
are started); `mempool.c` and `memheap.c`; filters, formatting (with the static `log_len` that a handler's log shares with the one it
interrupts, `ulog.c:236`) and the loss warning of ulog;
data queues, work queues and pipes (nothing here uses them); descriptors; `change_clock`; the HAL and generated code; RT-Thread components
that are not built. `PROJECT.json` lists each part with the reason.

## Plan

1. UsbEp0: the data stages of control transfers (descriptors in packets, the zero-length
   packet, line coding), composed with UsbDevice's states.
2. The AD9954 bus shared by thmi and the shell; the shell's line editor and history;
   `dataqueue`.
