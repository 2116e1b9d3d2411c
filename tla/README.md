# Verification of the Helios kernel

Helios is a distributed operating system for multiprocessors without shared
memory (Transputers, ARM, TMS320C40, i860). Each processor runs the nucleus: a
kernel of threads, semaphores, events, memory pools and message ports, which
links connect to the kernels of its neighbours, and above it the libraries, the
loader and the processor manager. Everything else (file servers, the shell,
networking, the compilers) is client-server software over those messages.

This directory holds TLA+ models of the kernel's core and of the pipes of its
system library, written from the C and assembler sources in `src/kernel` and
`src/nucleus/syslib`, their TLC configurations, and TLAPS proofs. The
non-Transputer ("generic") side of every `#ifdef` is the one modelled; where the
two ports with interrupt handlers in the tree differ, a constant chooses.

## The system

### Parts, their state, and how they meet

| Part | Source | State | Operations | Modelled in |
|---|---|---|---|---|
| Thread executive | `gslice.c`, `gexec.c`, `gexec.h`, `C40/c40intr.a`, `ARM/armslice.a`, `ARM/armintr.a` | run queues by priority, timer queue, clock word, `CurrentPri`, `HighestAvailPri`, the `SaveState` of each thread | Suspend, TimedSuspend, Resume, IntrResume, Sleep, Yield, Stop, EnterProcess, System, SetPhysPri, Dispatch, timer interrupt, interrupt exit | `Executive`, `Executive_proofs`, `Queues_proofs` |
| Semaphores | `sem1.c` | count and list of waiters | Wait, TestWait, TimedWait, Signal, SignalStop, HardenedWait, HardenedSignal | `Semaphore`, `CountingSemaphore`, `Semaphore_proofs` |
| Message ports | `port1.c`, `getmsg1.c`, `putmsg1.c`, `kill1.c` | port table with free list, queues of transmitters and receivers | NewPort, FreePort, AbortPort, PutMsg, GetMsg, MultiWait, time-out pass; XchMsg, SendException, GetReady, PutReady | `Ports` (local ports), `Ports_proofs` |
| Links | `link1.c`, `putmsg1.c`, `kill1.c`, `glinkio.c`, `C40/`, `ARM/` drivers | per link: mode, transmitter in charge and queue, receiver, flow control, half-duplex semaphore | WaitLink, JumpLink, SignalLink, sending a message, flow control, Configure, AbortPort, time-outs, link guardian; LinkOut, LinkIn, EnableLink, raw links | `Links`, `LinkLock` (the transmitting side), `Links_proofs` |
| Message forwarding | `linkmsg1.c`, `putmsg1.c` | surrogate and trail ports, transfers from link to link, buffers for messages in transit | LinkMsg, SingleBuffer, DoubleBuffer, DoubleBufferProcess; SimpleBuffer, DeliverMsg, surrogate creation, exceptions back along a trail | `LinkThru`, `Relay` (link to link), `LinkThru_proofs` |
| Task termination | `kill1.c`, `task.c` | the task's threads on every queue of the kernel | KillTask and its evictions, TaskInit, InitProcess | planned (`_AbortPort` is in `Ports`) |
| Queues and lists | `queue1.c` | doubly linked lists | AddHead, AddTail, PreInsert, PostInsert, Remove, RemHead, RemTail | planned |
| Events | `event.c` | handler lists by vector | SetEvent, RemEvent, event dispatcher | planned |
| Memory pools | `memory1.c` | free pools, carrier blocks, stacks | Allocate, Free, InPool, memory clients | not modelled: sequential code at HIGHPRI, see below |
| Link-table, module and boot code | `kstart.c`, `kmodule.a`, `nccsupport.c`, `sml.c`, `gdebug.c` | written once at boot | initialisation | not modelled |
| Pipes | `nucleus/syslib/pipe.c`, `stream.c` | the server's `PipeInfo`: requests held, pending bytes, positions of the last transfers; the streams at both ends | Read, ReadAck, Write, Close; connecting, reopening, select, abort | `Pipe`, `ByteStream`, `Pipe_proofs` (a connected pipe) |
| System, utility, server libraries; loader; processor manager | `nucleus/` | name tables, streams, task tables | Open, Locate, distributed search, task execution | not modelled |
| POSIX library | `posix/` | descriptors, signals, vfork | POSIX calls | not modelled |
| Servers and file systems | `servers/`, `filesys/` | per server | GSP requests | not modelled |
| TCP/IP | `network/`, `tcpip/` | BSD network stack | sockets | not modelled: third-party stack |
| I/O server, commands, compilers, X11 demos, board support | `ioproc/`, `cmds/`, `demos/`, `arielhydra/`, `Embedded/` and the rest | | | not modelled |

A program enters the kernel through `System()`, which raises it to HIGHPRI and
calls a `_`function. Threads at HIGHPRI are never preempted, so such a function
is atomic up to the point where it suspends, yields or lowers its priority; the
interrupt handlers run between the steps and share the run queues, the timer
queue and the clock with it. A semaphore or a port keeps a list of `Id`s that
live on the stacks (or, for `MultiWait()`, in the heap) of suspended callers, and
whoever satisfies or aborts a wait takes the `Id` off and calls `Resume()`, which
queues the thread in the executive. A message is copied directly from one
caller's buffer to the other's, at HIGHPRI + 1, with both callers off the queues.
A port of a remote destination is a surrogate: `PutMsg()` to it takes the link or
queues for it, transmits a protocol byte and then header and body, and hands the
link on. The link's guardian reads what the neighbour sends: messages, which it
delivers or forwards straight into another link, and flow control, reset and
reconfiguration bytes, for some of which it starts worker threads that compete
for the link. A pipe is a server in the reader's task; both ends call it by
messages, and the data itself goes from writer to reader when both are there.

### What is hard

* The executive's `HighestAvailPri` is a hint that the dispatcher trusts; five
  paths update it, two of them in assembler, and only particular nestings of
  interrupts and kernel calls show a wrong value.
* The clock is one machine word and wraps; one tick wakes one sleeper.
* A time-out, a signal and the dispatch of the thread they are for can come in
  any order; what a caller is told must agree with what happened to it.
* `Id`s die with the call that owns them, so every path must unlink them in time.
* A message copy runs below HIGHPRI: time-outs, aborts, the end of a port and
  other calls come in the middle of it.
* `MultiWait()` has an `Id` on several ports and is resumed through one of them.
* Descriptors outlive ports; a cycle count tells the incarnations of a slot apart.
* The threads on a link find each other through pointers (`TxUser`, `TxThread`,
  `Sync`) and a flag that are read before a wait and used after it; an Xon or a
  reconfiguration comes at any time.
* A long message is in the hands of two threads that take turns over one record
  and one rendezvous, and either of their links may fail at any time.
* A pipe's messages may be lost. Requests are repeated, and only positions tell a
  repetition from a new request.
* A task can be killed while its threads are on any of these queues, or copying.

### What makes each part correct

* Executive: a thread is on at most one queue; the dispatcher runs the highest
  priority that is runnable; sleepers wake neither early nor unboundedly late.
* Semaphores: no unit is lost, duplicated or given out of order; a waiter is told
  truly whether it got one; every timed wait ends.
* Ports: a message reported as received is returned to exactly one receiver, and
  one reported as failed to none; no suspended thread becomes unreachable; stale
  descriptors reach nothing; every call with a time-out ends.
* Links: one thread at a time owns a transmitter and passes it on in order; a
  neighbour's Xoff and Xon are obeyed; a sender with a time-out gets an answer.
* Forwarding: what goes out is the message, in order; the two threads of a
  transfer stay in step, and every transfer ends.
* Pipes: bytes are neither lost, repeated nor reordered, the writer is told truly
  how many were taken, nobody waits for what is there, and every write ends.
* Task termination: afterwards no queue of the kernel holds a thread of the task
  and no other task waits for one.

## Modules

### `Executive`

One action per piece of code that runs without an interrupt in between. A
thread's `place` says where it is: in its program (`user`), inside `System()`
before or after its function has acted (`system`, `return`), copying a message
(`copy`), in `EnterProcess()` with `CurrentPri` raised (`create`), between the stores
of `SetPhysPri()` (`setpri`, or `lower` and `raise` around a copy), in `Stop()`, or gone.
`SystemEnter`, then one of `SystemPlain`, `SystemSuspend`, `SystemYield`,
`SystemResume`, `Sleep`, `TimedSuspend`, `CopyBegin`, and finally
`SystemReturn` make up a kernel call.

`SetPhysPri()` stores `CurrentPri`, the hint and the priority in the `SaveState` one
after the other with interrupts on (`gexec.c:351` to `355`), and is two steps.
`SetPri` is the first store: an interrupt that comes now queues the thread by the
new priority while its record has the old one. `SetPriEnd` is the rest, whenever
the thread gets the processor back; between its two stores an interrupt finds
nothing that it could tell from their end. `setting` has the arguments
meanwhile, and `DuePri` in `PriorityRecorded` says which of the two priorities counts.
The comment above the function (`gexec.c:341`) has the dispatcher set the recorded
priority; it does not, so this is where the record is made right.
 `IdleScan` is the dispatcher's idle loop,
`Boot` the boot thread creating threads, `TimerInterrupt` the handler of the
timer (`Tick`, `TimerWake`, `TimerNoWake`, `AfterWakeups`, `Slice`, `Continue`)
and `DeviceInterrupt`, `DeviceResume` the exit of a device interrupt that did or
did not wake a thread. `Handler` selects the C40's or the ARM's timer handler:
they decide differently whether a sleeper is due (`HeadDue`) and how the hint
follows a wake-up (`HintAfterWake`). `Dispatch` is what they all end in.

`Lists` has what is said of linked lists, and the removal of some members, that this
module, `Ports`, `Links` and `LinkLock` share.

Abstracted: saving and restoring registers, CPU-time accounting, the list of
known threads, and turning time slicing off. Time is counted in clock ticks.
`remaining` is a history variable: what is left of the delay a sleeper asked for.

### `Semaphore` and `CountingSemaphore`

`Semaphore` extends `Executive`: each operation is the executive's action that
suspends, resumes or merely runs the caller, conjoined with what happens to the
count and the list. Programs use the semaphores in `Hard` with the hardened pair
only, as `sem1.c` demands; `TimedHard` lets them call `TimedWait()` on those too.
`CountingSemaphore` is the promise: units, a FIFO of waiters, and an outcome for
each caller.

### `Ports`

The port table and the calls on local ports over an abstract executive: `high`,
the FIFO of HIGHPRI threads, whose head runs its continuation (`PutMsgReturns`,
`GetMsgReturns`, `MultiWaitReturns`, `TimeoutHandler`); programs and copies run
while it is empty. A call that suspends, one that copies (`PutMsg` then
`PutCopyEnd`) and the two halves of `NewPort()` are separate steps. A `rc` for
each thread and slot stands for the `Id` there, and `state` for `MultiWait()`'s
shared pointer. `held` and `moved` are history: messages in a buffer whose owner
has not been told, and transmitters whose message has been copied.

`NewPort`, `FreePort`, `AbortPort`, `PutMsg`, `GetMsg`, `MultiWait` and the time-out pass are
actions; calls that only combine them (`XchMsg()`) are not. A step after which C
gives no meaning to what follows sets `astray` and is the last of a behaviour:
`queue` when `MultiWait()`'s cleanup walks off a queue (finding `ports_multiwait`),
`message` when it reports an error although it has copied a message to its
caller. `MultiWaitHolds` says that these two are the only ways it goes wrong, and
from which states.

Abstracted: the contents of messages, deadlines (a time-out is still to come or
past, and the `Id`s of one `MultiWait()` expire together), the order in which a
pass over the table meets expired waiters, the growth of the table, and task
membership (each thread is its own task).

### `Links` and `LinkLock`

One link's transmitter and everybody who uses it: programs in `_PutMsg()` to a
surrogate, the processor manager in `_Configure()` and `_AbortPort()`, the link's
guardian, and the workers it starts (`ReadReply()`, `_SendInfo()`, `HandleXoff()`,
`FlowControl()`). A thread's record `th` has its job, where it suspended (`queue`
for the link, `tx` in `LinkTx()`, `stop` in `HandleXoff()`, `sync` and `clear` in
`_Configure()`, `receive` and `message` for the guardian), the result in its `Id`, and the parts it
has still to send. `txUser`, `txQueue`, `txThread`, `sync` and the flags are the fields of
`LinkInfo`. As in `Ports`, a step lasts until a thread suspends, and `high` is the
run queue of HIGHPRI; the ends of transfers and the arrival of bytes are
interrupts. What the neighbour sends is arbitrary: any of the protocol bytes in
any order, or a message that begins and later ends.

`_Configure()` to dumb calls `ClearPorts()` when it has already given the link up
(`link1.c:1084`). That yields after each block of the port table and sends
exceptions (`port1.c:164` to `220`), so everybody else runs before mode and flags are
written back: `EndDumb` goes into `clear`, `PortsScanned` gives the thread the
processor back at any time, and `PortsCleared` is the end of `_Configure()`. What
`ClearPorts()` does to ports and other links is not in the model.

`LinkLock` is the promise to the users: a lock with a queue that is joined at
either end, handed on to its head, and taken away or thrown away only while the
link is out of service. `Served` says when that is.

Modelled as undefined (`astray`), with the kind of pointer that is wrong: `xon` and
`flow` where `HandleXon()` and `FlowControl()` resume a thread that does not wait
for it, `configure` where `_Configure()` resumes through a `Sync` nobody has set.
`WakersFindIt` says when alone that happens.

Not in the model: the data; raw and half-duplex links, `EnableLink`, `Terminate`,
the C40's short cut past an empty FIFO, the parent's first `SendInfo()`, `GetInfo()`,
`KillTask()` and `EvictLinks()`, `FlowControl()` going round several links, and other
links' guardians that forward straight into this one, which `LinkThru` has.

### `LinkThru` and `Relay`

A message that is not for this processor and finds the next link free goes
straight through, in the ports that have the code: `linkmsg1.c:25` to `44` sets
`DOUBLE_BUFFER`, `DOUBLE_BUFFER_PROCESS` and `SINGLE_BUFFER` to 0 for the C40, which buffers every
message in transit (not modelled), and to 1 for the others. `LinkMsg` takes the destination, sends the protocol byte and the
header, and calls `SingleBuffer()` (at most 256 bytes: `Short`) or `DoubleBuffer()`,
in which the source's guardian and the destination's `DoubleBufferProcess()` read
and send alternate pieces and meet at `DBRendezvous()` twice a turn. `bi` is the
`DBInfo` they share, `cpu` and `high` the HIGHPRI threads, and `pc` the place a thread
goes on at after the rendezvous or transfer in which it is suspended.
`TimeoutTx` and `TimeoutRx` are the passes of `TimeoutHandler()`. `LocalSends` is a
program that uses the destination for its own messages. The pieces are numbered;
`buf`, `got` and `out` record which is where.

`Relay` is the promise: what has gone out is a beginning of the message (protocol
byte, header, pieces) in order, at most two pieces are inside, and all has gone
out when a transfer ends without a failure.

A failure must be seen by both threads before they next meet. Where one of them
already waits at the rendezvous the code offers no way to see it; `fault` is then
`missed` and the behaviour ends there (`InStep`).

Not in the model: delivery to local ports, the buffered path (`SimpleBuffer()`,
`DeliverMsg()`), sunk messages, exceptions along trails, half-duplex links.

### `Pipe` and `ByteStream`

The server (`PipeServer()`, in the reader's task) and its two clients, `Read()` and
`Write()` on streams with `Flags_Extended`. `p` is the `PipeInfo`: `pend` the bytes
between `Pending.read` and `Pending.got`, `readReq` and `writeReq` the requests held,
`ack` and `ackPos` are `Write.ack` and `Write.pos`, and `data` says that the server waits
on `DataPort`. `wpc` and `rpc` are the places where `Write()` and `Read()` wait. Four
sequences hold the messages under way, to the server, to the two reply ports and
to `DataPort`. The handlers (`DoPipeRead`, `DoPipeWrite`, `DoReadAck`, `DoPipeClose`,
`ExchangeData`) are operators from a `PipeInfo` and a request to the possible results
and answers; an action takes a message and applies one of them.

The writer is on another processor, and `LoseRequest`, `LoseReply` and `LoseData` let
the network lose any message of a `Read()` or `Write()` to or from it, but not the
message that closes the pipe, which is not repeated: without it the reader never
learns of the end. Reader and server are in one task
and lose none. Bytes are numbered, so that a lost, repeated or misplaced one
shows. `ByteStream` is the promise: written bytes go into the pipe and out of it in
order, the writer is told of a byte only when it has gone in, and the reader is
told of the end only after all of it.

The protocol does go wrong, in five ways, each of which sets `trouble` and ends
what is modelled (see below); `IsStream` is about everything before that, and
`OnlyByLoss` says which losses it takes.

Abstracted: the client that waits gives up only when no answer can come any
more, as it waits 20 seconds longer than the server holds its request; `MaxTfr` has
any value it may reach. Not in the model: connecting and reopening, select,
abort, changes of the buffer's size, the reader's close, `Write()` with a time-out,
requests for 0 bytes, pipes with both ends open in one task.

## Runs

| Run | Instance | Shows |
|---|---|---|
| `exec` | 2 threads, 3 priorities, 10 clock values, delays of 1 to 3, C40 | the hint hides no thread and whoever is dispatched has the highest priority (`HintSound`, `RunsHighest`); a thread is on one queue, by its priority, and the timer queue is in order across the wrap (`QueuesSound`); nobody wakes early, nor later than one tick per sleeper, and every sleeper runs again (`NeverEarly`, `LatenessBounded`, `SleepersWake`) |
| `exec_arm_hint` | ARM | violation: the ARM handler leaves the hint too low a priority |
| `exec_arm_clock` | ARM | violation: a delay across the sign change of the clock word ends at the next tick |
| `sem_safety` | 2 threads, an ordinary and a hardened semaphore | live `Id`s (`IdLive`), hardened counts and no idle units (`CountTrue`); every behaviour is one of `Executive`; timed waits end |
| `sem_abstract` | 3 threads, one semaphore, delays of 1 or 2 | the code implements `CountingSemaphore`; the executive's queues stay sound with a third thread |
| `sem_timed_hardened` | `TimedHard` | violation: a unit signalled by `HardenedSignal()` stays while a `TimedWait()`er sleeps |
| `ports_safety` | 3 threads, 2 slots allocated up to twice, `MultiWait()` on both, polled or with a time-out | no waiter is lost (`NobodyLost`); results are true of the messages (`ResultsTrue`); descriptors reach their own incarnation only (`SameIncarnation`); double frees are refused (`FreeList`); `MultiWaitHolds` |
| `ports_timed` | 3 threads, 1 slot | every call with a time-out ends, copies included (`TimedCallsEnd`) |
| `ports_multiwait` | 2 threads, 2 slots, `MultiWait()` with a finite time-out | violation: the cleanup of `MultiWait()` runs off a queue |
| `links` | 1 program, manager, guardian, 2 workers | the link is a `LinkLock` (`LockSpec`), its user keeps it (`SeatKept`), nobody's transfer is dropped (`OnlyGuardianDrops`); flow control is obeyed (`FlowObeyed`, `StopIsOwned`) and wakes the right thread (`WakersFindIt`); senders end (`TimedSendsEnd`, `HolderLeaves`) |
| `thru` | 2 source links, 1 destination, a local program, messages of 0, 2, 5 and 6 pieces | the transfer is a `Relay`; one transfer at a time on each side (`OneAtATime`); the pair is in step between messages (`AtHome`); every transfer ends (`TransferEnds`) |
| `pipe` | a stream of 3 bytes, buffers of 0 and 2, 2 losses | the pipe is a `ByteStream` up to the first trouble, which takes a particular loss (`OnlyByLoss`); requests are not held in vain (`Sound`); writes end (`WritesEnd`) |

### Bounds

* Two threads below the highest priority suffice for one to be queued above the
  other while a third priority lies between; the hint needs three priorities.
  Three threads (`sem_abstract`) let a sleeper be inserted between two others.
* `ClockSize` must exceed twice the spread of wake-up times that are compared
  (the longest delay plus the lateness of one tick per sleeper), as 2^32
  microseconds exceed twice any delay: 10 for the two threads and delays of 3 of
  `exec`. The semaphore runs, which say nothing of lateness, use 4 and 8. The clock wraps
  after as many ticks, and nothing bounds their number.
* `MaxCount` only bounds how often a semaphore is signalled ahead of its waits.
* `LastCycle` bounds the allocations of a slot: 2 gives a stale descriptor beside a
  live one, and any number of frees through either. The one-byte wrap after 256
  reuses is not modelled.
* Three threads in `ports_safety` let two of them use a port while a third holds an
  `Id` elsewhere, or copy two messages at once towards one `MultiWait()`. `ports_timed`
  has one slot because liveness is checked on it. A `MultiWait()` for ever is, for safety,
  one whose time-out has not come yet, and has no states of its own in `ports_safety`.
* `Workers`: two workers are a `HandleXoff()` and one that is to wake it, or two
  `HandleXoff()`s. A third only lengthens the queue. Programs start only while no
  HIGHPRI thread can run, which is the scheduling rule and not a bound. A message
  has two parts, so that something comes between them.
* Messages over 256 bytes have at least 5 pieces (64, 128, then 256 bytes), and
  whether the guardian or the process sends the last piece depends on the parity:
  5 and 6. Two sources compete for one destination; more would only wait longer.
* `Total` = 3 with a buffer of 2 lets a write be larger than the buffer, be split,
  and meet a remainder; `IOCDataMax` = 1 makes a byte immediate data and two a
  transfer with sizes; `MaxLost` = 2 loses an answer and then the answer to its
  repetition. `Total` = 4 was tried too, with the same result.

### Fairness

* The timer interrupt comes again and again (hardware), and the idle loop and
  the boot code go on while they have the processor (weak fairness).
* A thread inside `System()` goes on: kernel functions are finite.
* Programs are under no obligation. A thread started at HIGHPRI may keep the
  processor for ever, and `SleepersWake` and `TimedWaitEnds` allow for it.
* In `Ports` the head of the HIGHPRI queue runs (weak fairness of `Returns` and
  `TimeoutHandler`), the handler's `Sleep()` ends (`ClockWakes`), time-outs come due
  (`TimePasses`), and a copy gets its time slices, though HIGHPRI threads and
  other programs run in between (strong fairness of `CopyEnd`).
* In `Links` the head of the HIGHPRI queue runs, the deadlines of the programs and
  the manager pass, and a message that the neighbour has begun ends. The neighbour
  need not take what is sent to it, nor ever send Xon.
* In `LinkThru` whoever may run runs, and the time-out pass reaches the destination
  and each source again and again while they have a deadline that has passed
  (strong fairness, as they may be disarmed in between). The neighbours need neither send nor take.
* In `Pipe` processors run, a message that is not lost arrives, times pass, and the
  reader's program calls `Read()` again and again, among others without a time-out:
  a pipe nobody reads may block its writer. Strong fairness of the
  server's reads and acknowledgements and of `WriteGivesUp` stands for the server
  taking its messages in order of arrival, and for clocks that go on.

## Disagreements between the code and its text

* `exec_arm_hint`: `armslice.a` stores `HighestAvailPri` only where it preempts. A
  sleeper woken during another thread's kernel call can be queued above the hint
  and be passed over, against `gslice.c:116`.
* `exec_arm_clock`: `armslice.a` compares clock words directly where its comment
  and the C40 handler use the sign of the difference.
* `sem_timed_hardened`: `TimedWait()` does not decrement the count that
  `HardenedSignal()` relies on, against `sem1.c:220`.
* `ports_multiwait`: `MultiWait()` resumed through one port while a message is
  copied to it through another searches that port's queue for an `Id` that
  `PutMsg()` has unlinked.

## Weak points the models met

With one exception, which is marked, no text in the repository promises otherwise, so
these are not runs of their own. The models contain them, and the properties are stated so as to say exactly how far
the code is right.

Ports, besides `ports_multiwait`: a `MultiWait()` that copies a message itself
while an earlier port of its list is aborted or times out reports that error,
and the message is gone although its sender was told of success.

Links:

* The flag `Link_Flags_stopped` that `_Configure()` read before waiting is written
  back at its end (`link1.c:1003`, `1097`), after `ClearPorts()`: an Xon in between is undone, and the link
  is stopped with nobody in charge (`StopIsOwned` has the exception). An Xoff in
  between is undone as well: its `HandleXoff()` then holds the link with the flag
  clear, and no Xon finds it (`StoppedByXoff`).
* A guardian that ends a message while `_Configure()` sends its byte aborts that
  transfer without resuming `_Configure()` (`1039`), which waits for ever.
* `AbortLinkTx()` drops a deadline even when there is no transfer to abort
  (`port1.c:462`): one that passes between two parts of a message leaves the rest
  without a time-out (`Disarmed`). The same in `LinkThru`, where one deadline covers
  several transfers (`linkmsg1.c:491`, `953`, `956`).
* An Xon that arrives before the `HandleXoff()` of the preceding Xoff has the link is
  lost (`1734`, `1742`); as senders of Xon and Xoff overtake each other in `JumpLink()`,
  the neighbour may also get them in the wrong order, and `FlowControl()` (`1665`) may
  resume a `HandleXoff()` that does not wait.
* `_Configure()` to intelligent (`1090`) follows a `Sync` that is NULL if the guardian is
  still in a message or in the queue, or is itself reconfiguring the link and in
  `ClearPorts()`, where the mode is dumb already (`WakersFindIt`); and its eviction (`1043`) lets senders retry at once on the
  dumb link; those that join during the `Sync` wait are stranded (`1080`).
* A guardian that is to terminate or reconfigure queues behind `HandleXoff()`, whose
  Xon only that guardian could receive (`635`). A stream of `JumpLink()`s starves the
  programs (`1786`).
* `_AbortPort()` looks at `id->mcb` of every waiter (`kill1.c:105`), which is NULL for
  those in `WaitLink()` and `JumpLink()`. A worker for which there is no memory is
  not started (`668`), and the message it was to answer goes unanswered.

Forwarding: a failure is missed by the partner in four places: it waits for its
turn when the sender fails, it is at the top of the loop when the receiver
fails, it is in the middle of its first turn when the header fails
(`linkmsg1.c:532`), or the receiver fails while the header is being sent, and the
status is cleared (`906`) before the guardian looks. From then on the pair is half
a turn apart, and the next message's first piece may leave before its header.
Also, after a failed transfer the guardian takes the rest of the message for
protocol bytes.

Pipes (the values of `trouble`):

* `already`: a retry of an accepted write is answered with the size that was asked,
  not that accepted (`pipe.c:285`). If the first answer was lost and the
  buffer had taken a part, the rest is lost. Here the comment (`290` to `296`) says
  otherwise: the answer "essentially" repeats "the ACK which was lost". `OnlyByLoss`
  has the case, and there is no run for it alone.
* `stale`: `Write.ack` outlives an exchange the writer has given up; the next ReadAck
  answers a later write and sets `WritePos` back (`217`).
* `garbage`: bytes that never came on `DataPort` are counted as pending (`363`).
* `repeated`: `Read()` returns a part and tells the server that it got nothing, which
  sends it again (`stream.c:242`).
* `wild`: an error in a ReadAck reaches the writer as a number of bytes, to which it
  adds its position (`stream.c:409`).

Outside the model: a broken pipe's answer is built and never sent (`pipe.c:305`), so
the writer retries for ever; a `Read()` or `Write()` of size 0 waits for its time-out.

`XchMsg()` (`putmsg1.c:466`): after `EG_CallBack` the wait ends with `EK_Timeout`, which
makes line 505 return instead of retrying; with time-out 0, `Err_NotReady` makes the
loop spin at HIGHPRI; and with one MCB a retry sends the header of the last reply.

## Proofs

The theorems hold for every value of the constants: any set of threads, number of
priorities, slots, semaphores or reuses. The assumptions on the constants are
those the modules state, and the hypotheses named below.

| Module | Theorem | Hypotheses | States |
|---|---|---|---|
| `Executive_proofs` | `TypeCorrect` | | `Spec => []TypeOK` |
| | `HintCorrect` | C40 | `Spec => []HintSound` |
| | `PriorityAbsolute` | C40 | `Spec => RunsHighest` |
| `Queues_proofs` | `OnePlaceEach` | | `Spec => [](OnePlace /\ PriorityRecorded)` |
| | `QueuesCorrect` | C40, `HalfRange` | `Spec => []QueuesSound` |
| | `LatenessCorrect` | C40, `HalfRange` | `Spec => []LatenessBounded` |
| | `NeverEarlyCorrect` | C40, `HalfRange` | `Spec => NeverEarly` |
| `Semaphore_proofs` | `SemaphoresImplementExecutive` | `~TimedHard` | `SemSpec => ImplementsExecutive` |
| | `SemaphoresImplementCounting` | `~TimedHard` | `SemSpec => ImplementsCounting` |
| | `SemTypesCorrect`, `IdsLive`, `CountsTrue` | `~TimedHard` | `SemTypeOK`, `IdLive`, `CountTrue` |
| `Ports_proofs` | `PortTypesCorrect`, `NobodyIsLost`, `ResultsAreTrue`, `IncarnationsKeptApart`, `FreeListCorrect` | | `TypeOK`, `NobodyLost`, `ResultsTrue`, `SameIncarnation`, `FreeList` |
| | `MultiWaitFaults` | | `Spec => MultiWaitHolds` |
| `Links_proofs` | `LinkTypesCorrect`, `LinkIdsLive`, `FlowIsObeyed`, `WakersAlwaysFindIt` | | `TypeOK`, `IdLive`, `FlowObeyed`, `WakersFindIt` |
| | `SeatIsKept`, `StopsAreOwned`, `GuardianAloneDrops` | | `SeatKept`, `StopIsOwned`, `OnlyGuardianDrops` |
| | `LinksImplementLock` | | `Spec => LockSpec` |
| `LinkThru_proofs` | `ThruTypesCorrect`, `ProcessAtHome` | | `TypeOK`, `AtHome` |
| | `TransfersAreApart` | | `Spec => OneAtATime` |
| | `TransfersImplementRelay` | | `Spec => RelaySpec` |
| `Pipe_proofs` | `PipeInvariant` | | `Spec => []PipeInv` |
| | `PipeIsSound`, `GoesWrongByLoss` | | `Sound`, `OnlyByLoss` |
| | `PipeIsStream` | | `Spec => IsStream` |

`C40` is `Handler = "C40"`. It is needed: `exec_arm_hint` refutes `RunsHighest` and
`exec_arm_clock` `NeverEarly` for the ARM's handlers. `~TimedHard` is `TimedHard = FALSE`:
nobody calls `TimedWait()` on a semaphore used with the hardened pair, as
`sem_timed_hardened` shows what happens then. `HalfRange` says that the longest delay
plus the number of threads is at most half the range of the clock word. Times are
compared by the sign of their difference, and that bound is how far they get
apart. `exec` meets it (2 * (3 + 2) = 10), as does the real clock for delays below
half of 2^32 microseconds. The semaphore runs have smaller clocks (4 and 8, where
it asks for 8 and 10): no theorem about semaphores needs it, and what they check of
time, that timed waits end and in `sem_abstract` that the timer queue is in order,
is found to hold there without.

### Lists

`Lists_proofs` says what happens to the members and the order of a list when one
joins, leaves or is taken out, what `Drop` leaves of it (`DropList`, `DropOrder`), and
that a list without repetitions is no longer than there are things. The queue operators of the models use `CHOOSE` and `SubSeq`
so that no recursive definition is in their way; `LeastNat` gives the least element
those choices need.

### Executive

`TypeOK` is not inductive: the timer handler preempts the current thread by
queueing it, and `current` may also be the idle loop or the boot code. `TInv` adds
`LowIsThread`: when `CurrentPri` is below HIGHPRI, `current` is a thread. Its preservation
rests on one lemma for each way of changing the thread in control (`DispatchSwitches`,
`YieldSwitches`, `SliceSwitches`, ...), one for each operation on the queues
(`EnqueueType`, `WithoutType`, `InsertTimedType`, ...) and one for each group of actions.

Given the types, `HintSound` is inductive: each place that queues a thread either
lowers the hint to the thread's priority in the same step (`LoweredSound`: `Resume()`,
`EnterProcess()`, `SetPhysPri()`, the timer), or has just tested something that says
the hint is high enough (`RequeueSound`: `SystemReturn` tests the hint itself,
`SystemYield` and the end of a slice test that the queue is not empty, which with a
sound hint says the same). `RunsHighest` follows: `DispatchSound` shows that the
dispatcher leaves the hint at the priority it dispatches, and `StaySound` covers the
steps that keep the processor.

`Queues_proofs` has two invariants. `GInv` says for each status on which queue such
a thread is, that the queues hold nobody twice, that the priority recorded is that
of the queue, and what the recorded priority is at each place: inside `System()`
it is HIGHPRI, and a thread in `EnterProcess()` is the current one and keeps its own
although `CurrentPri` is raised; between the stores of `SetPhysPri()` the priority being
set is due (`DuePri`), on whichever queue an interrupt has put the thread
(`SetPriKeeps`, `SetPriEndKeeps`). Without the places `SystemReturn` and an interrupt in
`EnterProcess()` would queue threads by a priority that is not recorded. `OnePlace` and
`PriorityRecorded` follow. As steps compute a queue and status before they enter the
dispatcher, `GInv` is made of predicates on such values (`Good`), and one lemma says
what the dispatcher makes of them (`DispatchPlaces`).

`CInv` is about the clock: each sleeper's wake-up word is the clock plus what is left
of its delay, modulo its size, and the delays left (`Paced`) are in order, at most
`MaxSleep`, and the i-th of them, if overdue, is so by at most i ticks less than there
are threads. The last is what bounds lateness: a tick makes everybody one later
and takes the first away, so who moves up has one to spare. With `HalfRange` the sign test
then compares the true delays, which keeps the queue in order (`PacedWith`) and
makes a tick wake the first exactly when it is due (`PacedTick`, `PacedWake`).

### Semaphores

`SInv` says for each thread what its status, place, `rc` and `waitsOn` have to do with the
lists: on no list unless it is suspended in that wait or, timed out, has the processor
and is about to unlink itself, on one list once, and how many units and waiters each count stands
for. It needs the executive's `TInv` and `GInv` beside it: that a thread on a list is
suspended, hence may be resumed, is what makes every operation a step of
`Executive` (`ObtainStep`, `WaitStep`, `KernelStep`, `HardenedSignalStep`); and that the executive
never resumes by itself a thread that waits (`DispatchSuspends`, `DeviceSpares`, `ResumeSpares`, ...)
is what keeps `SInv` through its steps. In the other refinement each operation is
one of `CountingSemaphore`: taking a unit, joining, handing over, storing or giving up
(`BodyMaps`); everything else stutters. `CSpec` and `Spec` are safety specifications.

### Ports

`PInv` has three parts. `Queues`: no queue repeats anybody, a port has waiters on one
side, and the free list is true. For each thread, `Own` says what its `Id`s, its call,
its `state` pointer and its place on `high` have to do with each other, and `Linked`
where it can be reached: on a queue, through the thread that copies from or to
it, or on `high`. And as long as no call has gone astray, for each copying thread what
it relies on: the other side is off the queue it was found on, in its call, and in
no other copy's hands for that port (`Copier`, `Sole`), and for each receiver how many
messages are in its buffer (`Holds`). These are needed together: a time-out during a
copy may not touch the other side because it is off the queue, and the result it
finds is that of the copy because nobody else has it.

A step concerns a few threads. `Same`, `Less` and `Kept` say that it did nothing to a
thread, at most took it off queues, or left what a copier relies on, and
`StepKeeps` proves the invariant from those for everybody else; `ActorKeeps`,
`TakingKeeps` and `EndingKeeps` are the cases of a caller alone, of a caller that
takes the other side off a queue, and of the end of a copy. Aborts, the end of a port and
time-outs are the same step on different sets of waiters (`EjectingKeeps`). Then
there is one lemma an action (`PutMsgKeeps`, ..., `TimeoutHandlerKeeps`), which
`NextKeeps` collects, and the theorems follow from `PInv`. `MultiWaitFaults` adds the
steps: a call becomes crossed only by the end of a copy to it (`CrossedByCopy`), and
goes astray only then (`LostOnQueue`) or when it loses its own message (`LostMessage`).

The attempt corrected the model in one place: `held` counts, because a `MultiWait()`
on three ports can be crossed by two copies at once and have two messages in
one buffer. The two-port runs never show that.

### Links

`LInv` says of each thread what its record, its place on `high` and on the queue and
the link's pointers to it have to do with each other (`Own`: `Shape` is where it may be
suspended for what it does, `Placed` who points at it there); of the guardian and
the manager, whom `Sync` names and what mode the link then has (`Guarded`); and of the
neighbour's last word, which workers serve it (`Heard`). `FlowObeyed` is not inductive
without the last. After an Xoff there is a `HandleXoff()` that has not been told of an
Xon; if it has not begun yet it must not find the link's flag set when it does,
since it would then leave at once. So `Heard` demands that each `HandleXoff()`
that was told is ahead of it on the run queue (`Ahead`), and as one has to be told
before it stops, the order in which threads become runnable is part of the
invariant: it is kept when somebody joins or leaves (`AheadJoined`, `AheadTail`).

`Correct` is what is shown of each step: it keeps the invariant, satisfies the three
action properties and is a step of `LinkLock` or leaves the lock alone. Most steps are
an instance of a few shapes: a thread takes the link (`TakeStep`), queues for it
(`QueueStep`), leaves it (`DoneStep`), gives up (`QuitStep`), the guardian comes round
(`RoundsStep`), something is resumed by an interrupt (`InterruptStep`), or `_Configure()`
evicts the queue and goes into `ClearPorts()` (`ManagerLeaves`, `GuardianLeaves`, `ManagerGoesOn`)
and comes to its end (`PortsClearedStep`). In each of them the
threads not concerned are covered by `OwnSpared`, and what remains to show is the
record of the one or two that are. Then there is one lemma an action, which
`NextCorrect` collects.

`LinksImplementLock` is for any number of threads what the run shows for five; the lock
is out of service (`Served` is false) from the Reconfigure byte until the guardian is
back, which is where the code may take the link away from its user.

### Forwarding

The theorems are for any number of source links and any sizes of short and long
messages; the run has two links and four sizes. `Inv` has, beside the types, that
while the two threads of a transfer are in step (`InStep`) everybody is where a
phase of a transfer has him (`Deep`), and that whoever sends has the link
(`OwnsLink`) even when they are not: `missed` is the last state of a
behaviour, and `OneAtATime` is claimed of the step into it too.

`InPhase` lists the phases. Nothing is forwarded (`Idle`); a guardian alone carries a
message (`ShortOK`); or the guardian and the process carry one (`LongOK`), and then
they meet at the start (`MeetingOK`), work in turns (`TurnOK`), or have both left the
loop (`EndOK`). In a phase, each place is given with what its thread has in hand, how
much has come in and gone out, and how the two counters of `DBInfo` stand: a
guardian in `LinkTx()` whose piece has gone, say, has an empty buffer and one more
element out than the same guardian while its transfer lasts. A turn is
symmetric: one of the two is `Writing` and the other `Reading`, and which is
which changes at a rendezvous, so both cases are one predicate. `InTurn` relates
them, one piece apart: without it each side's count would be right and the pieces
could still go out twice. A failure appears in it as a status bit and as a side
that has `Ended`; `missed` is the case that the other already waits at a
rendezvous for a turn that will not come.

`AtHome` and `TypeOK` follow from `Inv`. `Correct` is what is shown of each action: it keeps
`Inv`, keeps transfers apart (`Apart`) and is a step of `Relay` or a stutter (`Carries`).
`PhaseKept`, `ReaderKept`, `WriterKept` and `LongCorrect` state what an action leaves as it was for
the thread that does not act. The contents of the relay are the pieces in the
two buffers in ascending order; `AscendingOf` and `ContentsAre` say what that sequence is for no,
one and two pieces, and `AppendsAre` what a piece that comes or goes does to it.

### Pipes

The theorems are for streams, requests, messages and buffers of any size and for any
number of losses; the run has three bytes and two losses. `PipeInv` is `TypeOK`,
`NoWaitInVain` and `OnlyByLoss`, which hold always, and `Deep`, which holds until the
protocol goes wrong (`trouble = "no"`) and is what makes the others inductive. The
step that goes wrong has still to be shown to keep the first three.

That the bytes are in order (`Ordered`) is easily said, and far from inductive: the
same bytes may be asked for again at any time, and what the server answers depends
on `WritePos`, on `Write.ack` and on what of earlier attempts is still under way.
`Deep` rests on the fact that there is one token. The writer's request is in one place: on its way,
in `Write.request`, a delivery awaited on `DataPort`, a reply on its way, or an exchange with
a reader (`Asking`, `OneToken`, `Delivering`, `Exchanging`). Each place has its truth:

* a reply says what has been taken beyond what the writer was told (`Answer`), and
  while the writer does not know of it that reply is on its way or was lost (`Untold`),
  in which case the server knows the repeated request by its position (`Placed`);
* an exchange the writer believes in (`Live`) has taken nothing yet: its position is the writer's, the
  buffer is empty, and either something of it was lost or the reader will confirm it;
* one the writer has given up is there only after a loss of its sizes or its data (`Stale`);
* what is on its way to the reader is one message of the server (`FromServer`) or
  the writer's chunks in the order they were sent (`Chunks`), of which some may be missing:
  `Unbroken` says that none is unless data was lost, and the sequence number,
  which the reader compares, finds those that are;
* a reader about to acknowledge confirms the bytes that come next in the
  stream (`ReaderAck`), from the writer or from the buffer.

`Correct` is what is shown of every action: it keeps `PipeInv` and is a step of `ByteStream`
or a stutter. `StreamTells` and `StreamCarries` give the step of the stream for a writer
that is told of more bytes and for bytes that go in and out; the lemmas `StoreIs` to `RestIs`
give the fields of `PipeInfo` after each thing the server does, so that the big
handlers, `DoPipeWrite` and `DoReadAck`, which end in one another, are treated case by
case (`UnreadIs`, `ExchangeIs`, `ReadAckIs`). The five ways to go wrong are cases of
`WriteDone`, `ServeWrite`, `DataTimesOut` and `ReadAck`, each shown to need its loss.

### Only model-checked

* All liveness (`SleepersWake`, `TimedWaitEnds`, `TimedCallsEnd`, `TimedSendsEnd`, `HolderLeaves`,
  `TransferEnds`, `WritesEnd`): fairness and ENABLED are beyond the prover.

## Plan

1. `Executive`, `Semaphore`, `Ports`, `Links` with `LinkLock`: done, all their safety
   properties proved.
2. `LinkThru` with `Relay`, `Pipe` with `ByteStream`: done.
3. Proofs of `LinkThru` with the refinement of `Relay` and of `Pipe` with that of `ByteStream`: done.
4. `TaskKill`: `_KillTask()` against the queues of executive, ports and links, with
   threads copying, transmitting and sleeping.
5. The rest of `Links` and `LinkThru`: delivery to local ports and the buffered path,
   with `Ports` as the receiver; connecting and reopening a pipe.
6. `Queues` (linked lists against sequences) and `Events` (handlers registered and
   removed while the dispatcher runs).

## Not modelled

* Memory pools: the allocator runs at HIGHPRI without suspending, so its
  behaviour is that of a sequential data structure of unbounded depth.
* Register save and restore, boot, the module tables: no state that changes
  while the system runs.
* Transputer variants: microcoded scheduling and links replace the code modelled.
* `XchMsg()`, `SendException()` and the `GetReady()` family of `Ports`, task termination,
  queues and events: see the plan.
* The other libraries, servers, POSIX, networking, commands and host tools: clients
  of the kernel's messages, each a system of its own; several are third-party
  code. With 18,000 files the tree is mostly these, and the models cover only a
  small share of its lines.
