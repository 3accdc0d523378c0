# Verification of the WYOOS kernel with processes and priorities

The repository is a small x86 operating system after "Write your own operating
system" (WYOOS), extended with a process table, a priority scheduler and the
system calls fork, exit, waitpid, execve, getpid, getppid and setpriority. This
directory holds TLA+ modules of its core, the TLC configurations that check
them, and proofs checked by TLAPS. All paths are relative to the repository's
root, which is `src/` in `PROJECT.json` (so `src/multitasking.cpp` here is
`src/src/multitasking.cpp` there).

## 1. Inventory of the system

| Component | State it keeps | Operations | What makes it correct | Modelled |
|---|---|---|---|---|
| TaskManager (`src/multitasking.cpp`) | `tasks[256]`, `numTasks`, `currentTask`, `pidCounter`, `prioritiesUpdated`; per task its state, priority, `passedQuantums`, parent, waiter and saved frame; the statics `idleTime` and `ticks` | `AddTask`, `RemoveTask`, `ChangePriority`, `Schedule`, `forkTask`, `exitTask`, `waitpid`, `execve`, `SetDynamicPriority` | the table stays sorted and free of duplicates; the cursor is the caller; registers are saved to and restored from the right stack; fork's copied stack is the child's own; waiters are woken once, by the right child; the search ends and is fair | all but statuses |
| Syscalls (`src/syscalls.cpp`) | none of its own | `int 0x80` dispatch, user-side wrappers | the calls that must schedule do so; results reach the caller | the dispatch, the answer of fork |
| InterruptManager (`src/hardwarecommunication/interrupts.cpp`, `interruptstubs.s`) | IDT, handler table, PIC | stubs, `DoHandleInterrupt` | one `Schedule` per tick; the frame pushed is the frame popped | timer and system-call paths, stubs, unhandled vectors |
| MemoryManager (`src/memorymanagement.cpp`) | the chunk list | `malloc`, `free`, `new`, `delete` | blocks disjoint, list well linked, nothing lost | whole |
| kernelMain and programs (`src/kernel.cpp`) | the console's static cursor | boot order; init, init2, init3, taskA..., `printf` | - | boot, kinds of programs, their calls |
| NIC driver (`src/drivers/amd_am79c973.cpp`) | two rings of eight descriptors, `currentSendBuffer`, `currentRecvBuffer` | `Send`, `Receive`, `HandleInterrupt` | driver and card stay in step in both rings; no received frame is forgotten | descriptors, not bytes |
| Ethernet, ARP (`src/net/etherframe.cpp`, `arp.cpp`) | handler table, cache of 128 | `OnRawDataReceived`, `Send`, `Resolve`, `BroadcastMACAddress` | `Resolve` returns; cache entries are found again | whole |
| IPv4, ICMP (`src/net/ipv4.cpp`, `icmp.cpp`) | handler table | `Send`, the handlers, `RequestEchoReply` | packets reach the next hop; pings are answered | all but checksum and lengths |
| UDP (`src/net/udp.cpp`) | sockets, `freePort` | `Listen`, `Connect`, `Send`, `Disconnect`, the handler | a socket hears one remote end, a remote end one socket | whole |
| TCP (`src/net/tcp.cpp`) | sockets with state and sequence numbers, `freePort` | the handler, `Connect`, `Listen`, `Disconnect`, `Send` | streams stay in order and whole, both ends agree, connections close | whole |
| Keyboard, mouse (`src/drivers/`) | mouse packet buffer and offset | `HandleInterrupt` | packets stay in step | no |
| ATA (`src/drivers/ata.cpp`) | none | polled reads and writes | - | no |
| GDT, ports, PCI, VGA, GUI, loader | written once, or output only | - | - | no |

**How the parts interact.** The machine has one CPU. `kernelMain` builds the
memory manager, the task manager with one task (init3), the interrupt manager
and the system-call handler, enables interrupts and spins. From then on control
enters the kernel in two ways: the timer interrupt, on which
`InterruptManager` calls `TaskManager::Schedule` with the interrupted frame and
returns to whatever frame it answers; and `int 0x80`, on which `SyscallHandler`
calls the task manager and, after exit and after a waitpid that blocked, also
`Schedule`. The task manager allocates tasks with `new`, from the memory
manager. The network stack hangs under the card's interrupt by callbacks:
card, Ethernet, ARP or IPv4, then ICMP, UDP or TCP; `kernelMain` includes it but
starts none of it.

**What is hard here.**

* Handlers run with interrupts masked, so they do not interleave with each
  other; but the order in which ticks and system calls of several tasks follow
  each other is arbitrary, and every decision of the scheduler reads fields
  (`currentTask`, `waitedByPid`, `ticks`, the idle task's state) that were
  written by earlier calls of other tasks.
* The search loop of `Schedule` removes elements from the array it walks,
  remembers where it started both as a slot and as a pid, and ends only on a
  READY task or on that pid.
* Between two decisions the idle task gets `IDLE - 1` ticks, and which task's
  frame is saved is decided by the idle task's state.
* malloc and free relink a list from three sites.
* fork copies a stack byte by byte: addresses in it point into the parent's.
* The card writes both rings and its status register while the handler runs, and
  `Send` is called by tasks and by the handler that interrupts them.
* `Resolve` waits in a loop for what only an interrupt brings, and is called
  from interrupts.
* TCP has no retransmission: what is lost, repeated or overtaken is met by
  whatever state the socket is in.

`PROJECT.json` lists each hazard at its line with the properties that watch it.

## 2. The modules

| Module | Role |
|---|---|
| `TaskManager` | the process table, the scheduler, the system calls; programs are arbitrary |
| `Programs` | extends it with four kinds of programs, fairness, the properties that depend on what programs do, and the refinement mapping to `Processes` |
| `Processes` | abstract specification: the life of processes, without a table |
| `MemoryManager` | the heap; its refinement mapping to `Allocator` |
| `Allocator` | abstract specification: disjoint blocks granted and given back |
| `Frames` | the stacks under the tasks: stubs, calls and returns, ticks, fork, execve |
| `Card` | the network card's driver and the card, a process of its own |
| `Network` | Ethernet, ARP, IPv4, ICMP and UDP of one machine, with its link as environment |
| `Tcp` | the TCP provider and applications of several machines over a faulty network |
| `TaskManagerProofs`, `ProcessesProofs`, `MemoryManagerProofs`, `FramesProofs`, `CardProofs`, `NetworkProofs`, `TcpProofs` | the theorems of the module they are named after, and their proofs |
| `ProgramsProofs` | on top of `TaskManagerProofs`: what holds of each kind of programs |

The operators whose comments begin with "Faulty variant" are not part of the
models: each is a plausible mistake in the code, and each property is known to
fail when the definition that follows it is replaced by one
(`PROJECT.json`, "mutants").

### TaskManager

*Atomicity.* A handler runs with interrupts masked and is one action, with all
the calls it makes. The exception is `Schedule`: its search loop need not end,
so each turn of it is an action (`Advance`: the step to the next slot; `Skip`:
one turn of the inner loop over low priorities; `Examine`: the rest of the
body, with the removal of a zombie; `Dispatch`: what follows the loop). `pc`
says where the kernel is. `"deadlock"` is the return of NULL after the message
Deadlock, `"fault"` a division by zero or a jump to a frame that is nobody's; the
system stops there.

*Time.* `Tick` is the timer interrupt, and is enabled whenever user code (a
task, the idle task or `kernelMain`'s own loop) is on the CPU. `EnterSchedule`
is `Schedule` up to its loop: it saves the frame (`Saved`), then one of
`StayIdle`, `RestartSearch` (priorities changed), `ReturnToInterrupted`
(quantum left) and `StartSearch` applies, with conditions that exclude each other
in the order of the code's returns.

*Frames.* A `CPUState*` is the object on whose stack the frame lies: a pid, 0
for the idle task, `Boot` for the loop of `kernelMain`, or `Garbage` for a
pointer into no task's stack. `fork` computes the child's frame by the distance
between the frame and the stack of the kernel's current task: the result is the
child's only if the caller *is* that task and its stack was the one copied. The
contents of stacks are in `Frames`.

*The table.* The swap loops of `AddTask` and `ChangePriority` are stated by
where they stop (`StopsLeft`, `StopsRight`) and what they leave (`Moved`).
`RemoveAt` leaves the old pointer in the slot past the end, as the code does,
because `currentTask` may point there. Priorities are the enum's numbers,
since the code compares them and subtracts them from `ticks`.

*Undefined behaviour.* `passedQuantums` is not initialised by `fork`'s
constructor: any value of `UninitQuantums`. After the task in slot 0 was removed
by the search, `tasks[-1]` is read: it may pass for the task the search started
with (`EndOfTurn`, third disjunct).

*Widths.* `pid_t` is unsigned, so `waitpid(-1)` is a wait for a pid nobody has
(`WaitNobody`) and its branch for "any process" cannot be reached. No other
field comes near its width.

*Left out.* The exit status and the location it is stored through, results of
system calls, `SetDynamicPriority` (its flag is never read), and the printing of
the process table.

### Programs

| Specification | What programs do | Where the repository has them |
|---|---|---|
| `Unix` | wait for or poll their own children, exit, leave zombies; no priorities | `init1` and `init2` with the tests they start, which poll; `testChildOfChild`, which waits |
| `Supervisors` | as Unix, and set their children's priorities | `init3` (in `init` a child sets its own) |
| `ForkJoin` | one child at a time, which is waited for before exit; the first task never exits | `taskA` (a child, `waitpid` with options 0, then a loop) |
| `Daemons` | fork, poll their own children, set any priority, never exit | `init`: two children that go into `taskB`'s loop, one after lowering its own priority, each polled once |

*Fairness.* `WF(Tick)`: user code runs with interrupts enabled (tasks are given
`eflags` 0x202 and nothing in user code masks them), so the timer always fires
again. `WF(Kernel)`: a handler that has not returned goes on. Nothing is
assumed of programs: a task may loop for ever without a system call.

### Processes and Allocator

`Processes` has no table, no cursor and no quantum: fork, exit, wait, reap,
collect and dispatch, with at most one RUNNING process. `ImplementsProcesses`
maps each pid to `unborn` (not handed out), to its task state while listed, and
to `gone` afterwards. The mapping holds, liveness included, for `ForkJoin`
programs, and the violations below say why not for others.

`Allocator` grants disjoint blocks of an address range. `MemoryManager` maps its
`held` (the pointers callers have, with the sizes they asked for) to it.

### MemoryManager

A chunk is the address of its header, and `chunk` is a function on the
addresses where the list has a header; merging removes an address from its
domain. `malloc` walks one chunk per step (`Malloc`, `Pass`, `Take`, `GiveUp`),
so that its termination is a property; `free` is one action (its merges are
`MergedBack`, then `MergedOn`). The test `size > request` of the first fit and the
test `size >= request + sizeof(MemoryChunk) + 1` of the split are those of the
code. `free` is applied to what is held only. Fairness: `malloc` is only called
at boot and in handlers with interrupts masked, so it goes on to its end. The addresses
are unbounded integers: the heap of `kernelMain` lies far below 2^32.

### Frames

A stack is a row of slots. A slot is the frame of a called function (its return
address, its saved frame pointer, the variable `child`) or the context of an
interrupted one (`CPUState`: where it goes on, its frame pointer, the answer
register, and how many words lie below `eip`). An address is a task and a slot,
and is copied as it stands when a stack is copied. The kernel is built without
optimisation, so each function keeps a frame pointer, and `Enter` and `Leave`
are the compiler's prologue and epilogue.

`Interrupted` is what the CPU and a stub push, `Resume` what the shared exit of
`interruptstubs.s` pops; `Tick` may choose any live task, so that no property
here rests on the scheduler (`TaskManager` has its choices). `Fork` copies the
stack, relocates the frame pointer of the context (`Relocated`) and answers 0 in
it; the frame pointers saved further up keep their addresses. `Assigns` is
`child = fork()`: the caller stores the answer through its frame pointer, which
in a child is the parent's. Each handler is one action. Functions that are
interrupted between two actions are: `Tick` and `Unhandled` are always enabled.

The programs are those that never return from a function in which they fork:
`init`, `init3` and `taskA`, which end a child in `exit` and loop in the parent. The tests
started by `init1` and `init2` (not enabled in `kernelMain`) return from such functions: their
children then write into frames that the parent has left and used again. `Execve` is the
kernel's, which looks at nothing; `Replaces` says when programs call it: with no child
in their frames (`Guests`), as the child that `init` has commented out does at once.
Without that condition `ContextIntact` does not hold, because the new program's first
frames are laid over those the children write.

### Card

The rings are functions from slots to `Free` or a frame, which stand for the
ownership bits: in the receive ring `Free` is the card's, in the send ring a frame
is. The handler is not one action, because the card works at the same time:
`HandleInterrupt` reads the causes, `ReceiveTurn` ends one turn of the loop
(before which the protocols may send any number of answers, `ReceiveSends`),
`ReceiveEnds` is its last look, and `HandlerReturns` writes the causes back, which
clears them. A task's `Send` takes its descriptor, advances the index and fills
the descriptor in three actions; an interrupt may come between any two. (The second is a load
and a store; a `Send` between those starts inside this one, and is `disturbed` below.) The card
(`Arrive`, `Miss`, `Transmit`) goes through each ring in order.

The contents of frames are not modelled: `sendBuffers` and `recvBuffers` are
declared `[2*1024+15][8]` and indexed by descriptor, so the eight buffers of a
ring lie 8 or 16 bytes apart, and of two frames in a ring only the later is whole.

Four history variables say what the properties are conditional on. `disturbed`:
a `Send` started inside another between lines 165 and 166 of the driver, or
with all descriptors in use; after that descriptors are filled out of turn, and the
card may wait at an empty one. `slipped`: a frame came between the last look of
`Receive` and the acknowledgement, which clears its RINT as well; it is found at
the next interrupt, but if a burst then fills the ring the card only reports
missed frames, and `Receive` is never called again.

### Network

One machine is modelled in full, the others by what they send: requests,
responses, pings, pongs and datagrams, at any time, truthful about their
addresses. A frame is handled in one action, `Interrupt`, with the packet it may send
in answer; a task's send is one action up to the loop of `Resolve` and
one after it. Where the handler gets into that loop it never leaves it (`handler`
keeps the packet, and nothing is enabled but the outside world): interrupts are masked.

`Route` is the choice between the neighbour and the gateway, `MacOf` the MAC of the
first cache entry that fits (`Oldest`). `StartUp` is `BroadcastMACAddress` of the gateway, which
the model's program calls before it does anything else: no program in the repository uses
the network yet, and nothing else calls it. `HandlerNeverWaits` rests on that. A UDP `Disconnect` is no
action: its loop has the condition `socket == 0` and never runs. What is in a
listening socket's `remoteIP` is memory never written; the model takes it not to be
somebody's address. `totalLength` is compared in the wrong byte order on receipt, which
makes the length the size of the frame for all lengths that occur.

### Tcp

Every host runs the provider; `net[h]` holds the segments on their way to it.
`Receive(h, i)` is the whole of `OnInternetProtocolReceived` for the segment at
position `i`, by a disjunct per case of its switch. `Send` and `Disconnect` are two actions
each: a segment may be handled between the test of `ESTABLISHED` and the send,
and between the assignment of `FIN_WAIT1` and the FIN. `Lose`, `Repeat`, a
`Receive` out of turn, `Refuse` (the application's handler returns false, or there
is none) and a `Disconnect` of a socket that is not `ESTABLISHED` are
*mishaps*, and `MaxMishaps` bounds their number. A `Disconnect` of a listening socket retires it:
its state is `FIN_WAIT1`, it has no remote end, and no segment matches it any more. Sequence numbers are relative to
the constant both ends start from. A payload is its length, and how far its last
nonzero byte reaches: `Advance` is the loop that takes the latter for the length.
`sent`, `received` and `revived` (the sockets disconnected when they were in CLOSE_WAIT or
CLOSED) are history. `MaxConnects` is at most 65535, the size of the provider's table.

A payload's handler is called in the middle of the interrupt, before the acknowledgement goes out,
and may itself send and disconnect, as `PrintfTCPHandler` of `kernel.cpp` does when the payload is an
HTTP request. The sockets of the hosts in `Answerers` are bound to that handler: a payload in order
of at least ten bytes may be a request (`OnRequest`), and then `call[h]` is what is left of the
interrupt, one action for each segment it sends: `AnswerSends`, which waits in `Send` until the socket is
ESTABLISHED, `AnswerDisconnects` and `AnswerReturns`, the acknowledgement. While `call[h]` is not
`Idle` nothing else of host h is enabled, neither `Receive` nor a task: interrupts are masked. So a
handler that is not let past the test of `Send` waits for ever and takes its host with it (`Hangs`).
`Answerers` and `Senders` have no host in common: a handler's `Send` in the middle of a task's `Send` on the
same host is not modelled. The provider adds to the expected number after the handler has
returned; as nobody reads it before, `OnRequest` adds to it at once.

Two things follow from the code that the model shows by what it leaves out.
The acknowledgement number of a segment is never read, so nothing depends on it.
The reset of a segment for no socket cannot happen: `reset` is only set inside
the test `socket != 0`. Nobody sends SYN with FIN, whose cases are left out. The
network under the segments is not `Network`: the two are not composed.

## 3. The runs

Runs that pass:

| Run | Question | Distinct states |
|---|---|---|
| `any_programs` | do the table, its order, the cursor and the idle task survive arbitrary calls? | 870 907 |
| `unix` | are frames never mixed up, blocked parents on record, zombies dead, with polls and zombies left behind? | 87 622 |
| `fork_join` | does the scheduler always find a task, are parents woken by the right death, does every READY task run, does the table implement `Processes`? | 11 227 |
| `daemons` | with polls, low priorities and garbage counters, does the search end, is one task RUNNING, and does everybody get a turn once priorities settle? | 227 896 |
| `memory` | does the heap keep its structure, refuse only when full, and implement `Allocator`? | 49 866 |
| `frames` | is every stack taken off as it was put on, and is no saved context written over, though children write into their parents' frames? | 401 812 |
| `tcp` | are streams prefixes and handshakes agreed under a mishap, when does a handler wait for ever, and in calm is everything delivered and every connection closed at both ends? | 83 325 |
| `card` | do driver and card stay in step in both rings, and is every received frame looked at? | 275 624 |
| `network` | do packets go to the next hop, does `Resolve` return, does the handler stay out of its loop, are sockets not mixed up? | 234 327 |

Runs that TLC must find violated; each is a disagreement of the code with one of
its own comments, quoted under "findings" in `PROJECT.json`:

| Run | Property | What happens |
|---|---|---|
| `two_running` | `OneRunning` | the search removes a zombie from a lower slot; the task that had the CPU is no longer in the slot the search started at and stays RUNNING, never chosen again |
| `stale_frame` | `RunsOwnContext` | a parent gives its child HIGHEST, as `init3` does; with quantum left `Schedule` returns the interrupted frame, which is the idle task's; the task's own frame is then overwritten |
| `fork_copy` | `OwnVariables` | the child returns from `fork` into its parent's frame and stores 0 where the parent keeps the child's pid: the parent then waits for, and sets the priority of, pid 0 |

*Conditions in the properties.* What the code does outside them, each seen as a
counterexample of the same property without the condition:

* `SearchEnds` and `AlwaysSomebody` are checked for programs that leave no zombies
  behind. Under `Unix`, the search of `Schedule` never ends when the task it started
  with is gone and nobody is READY; and it answers NULL, with a READY task in the
  table, when the zombie collected last made its waiter READY in a slot already passed.
* `WokenOnlyByAwaited` is checked for programs with one child at a time. They may poll, but the
  record a poll with `WNOHANG` leaves is then that of the only child they could wait for; under
  `Unix` a parent of two is woken from the wait for one by the death of the other, polled before.
* With a priority below the quantum the kernel takes another task for the caller of a
  system call (the same cause as `stale_frame`).
* `Calm` of `Tcp` excludes a handler that waits for ever. Host a sends a request; b's handler answers and
  disconnects; a acknowledges the answer and, before it handles the FIN, sends a second request;
  the acknowledgement takes b to FIN_WAIT2, where the second request is in order: the handler
  is called again and spins in `Send` (`src/net/tcp.cpp`, line 48) with interrupts masked, and a stays in
  CLOSE_WAIT. Nothing is lost in this, so "a `Disconnect` closes both ends" is false without the
  condition. `HangsOnlyWhenClosing` needs no calm: it says that a handler waits for ever in FIN_WAIT2 only, on
  a connection its own end has disconnected, whatever the network does.
* `Calm` of `Tcp`, otherwise. A second segment that arrives between the two steps of `Disconnect` is
  answered by RST before the FIN goes out, the peer closes, and the
  disconnecting end waits in FIN_WAIT2 for ever. A segment lost or refused leaves a
  stream cut for good; a lost FIN leaves one end half closed. `Disconnect` in CLOSE_WAIT
  or CLOSED waits for a FIN that has already come. A payload that ends in zero
  bytes leaves the receiver behind, and every later one is answered by RST. Data that
  crosses a FIN is dropped in FIN_WAIT1 (`AllDelivered` lets the closing end off).
  `StreamPrefix` needs none of this, but excludes payloads of zeros only, and sockets that were
  disconnected in CLOSE_WAIT or CLOSED (`revived`): such a socket is in FIN_WAIT1 again, an
  acknowledgement takes it to FIN_WAIT2, where it takes payloads, and the FIN it has answered is
  counted as one byte, so that a payload overtaken by a later one may fit.
* `disturbed` and `slipped` of `Card`, described above.
* `Calm` of `Network`. A lost ARP request is never repeated, a full cache drops the answer a
  task waits for, and after the handler got into the loop nothing else runs.
  `HandlerNeverWaits` asks that programs answer only datagrams from beyond the gateway (or from
  it): an answer to any neighbour not in the cache stops the machine. TCP's
  SYN|ACK is sent from the handler, too.
* `frames` has only the exceptions with an error code: the stub of any other pushes no
  dummy, and its return loses a word (`Faults`).

*Bounds.*

* `IDLE` is 2 where the code has 20. One idle tick is enough for the idle
  task to be entered, saved and left; more ticks repeat `StayIdle`.
* `Quantums` is 0..5: `passedQuantums` is compared with `priority / QUANTUM`,
  at most 5, and incremented only below it. `UninitQuantums` picks its garbage
  from it: 0, and 5 for "already passed often enough".
* `UserPriorities`: 6 is MEDIUM (never passed over), 12 and 30 are passed over
  2 and 5 times, 3 and 1 are below the quantum, so that a turn lasts 2 or 6
  decisions. Under a priority below the quantum `RunsOwnContext` fails
  (`stale_frame`), which is why `daemons` has none and `any_programs` has 3.
* `MaxTasks` 2 to 4 and `MaxPid` 2 to 5: parent, child, sibling and grandchild,
  a full table, and (where `MaxPid` exceeds `MaxTasks`) slots used again. The
  code's `pidCounter` never wraps in practice and neither does the model's: when
  pids run out, fork is no longer tried.
* The heap of 14 bytes with headers of 2 holds up to six chunks and requests of 0,
  1 and 3 split chunks, fill chunks where no split fits, and fail.
* `CHECK_DEADLOCK FALSE` in the runs of the process table: the kernel really stops
  in `"deadlock"` and `"fault"`; and in `tcp`, where applications may have nothing left
  to do. The other runs check deadlock.
* `frames`: three tasks, so that a child forks; three slots, a function, a function in
  it, and a context. Two tasks with five slots (380 099 states) show the
  same. Vector 13 has an error code, 33 a dummy.
* `card`: rings of two, so that both wrap and fill at once; two tasks inside `Send`
  and the handler. Rings of three with one task (1 079 136 states), and with
  two (7.6 million), show the same.
* `network`: a gateway, a neighbour, an address beyond; a cache of two, which duplicates
  fill; two sockets, on one port or two, and one frame on its way beside the answers
  to questions. `FirstPort` lies among the ports listened on, so that the two kinds of
  sockets meet on a port.
* `tcp`: a server with two listening sockets, a client with one connection, two payloads of
  which one may be all zeros. The length 23 is one less than the header, so that a payload of zeros turns the
  expected number back to where the segment before is taken again: the case `StreamPrefix`
  excludes. It is long enough for a request, too, and the server answers. One mishap; with two
  (1 173 217 states) and with two connections of one payload each (2.5 million) the
  invariants hold as well.

*Fairness of the network modules.* `Card`: the handler, once entered, goes on, and an
interrupt whose cause is set is taken (`Handler`, in which the protocols come back from
a frame); the card sends what it is given
(`Transmit`). No task has to go on with its `Send`. `Network`: interrupts are taken, a task in the
loop of `Resolve` gets the CPU, and machines answer questions that reach them.
`Tcp`: segments that are not lost arrive, a handler goes on unless it waits in `Send` (interrupts
are masked, so nothing else runs at its host), and a task inside `Send` or `Disconnect`
comes out of it once the handler has returned. Applications need not call anything.

## 4. The proofs

All theorems are for every value of the constants, under the named assumptions of
the modules (`ConstantsAssumption`: at least one slot and one pid, `IDLE` at
least 2, priorities from the enum; `HeapAssumption`: a heap that does not start
at address 0, a header of at least one byte; `FramesAssumption`, `CardAssumption` and
`NetworkAssumption`: types of the bounds, and which sets are disjoint; `TcpAssumption`: also that
the sockets opened fit the provider's table of 65535), all of which
TLC evaluates. One theorem has a hypothesis of its own: those of `Frames` are stated for
`WholeContexts`, see below.

Before each invariant was proved, TLC checked it on instances at least as large as that of
the run:

| Invariant | Instances checked | Distinct states |
|---|---|---|
| `FInv` of `FramesProofs` | `frames`; two tasks with five slots | 401 812; 380 099 |
| `UInv` of `ProgramsProofs` | `unix` | 87 622 |
| `JInv` | `fork_join`; four slots, six pids, `IDLE` 3 | 11 227; 170 134 |
| `DInv` | `daemons` | 227 896 |
| `CInv` of `CardProofs` | `card`; rings of three | 275 624; 1 828 602 |
| `NInv` of `NetworkProofs` | `network`; two frames on their way | 234 327; 2 770 858 |
| `HInv` of `TcpProofs` | `tcp`; two mishaps; two connections | 83 325; 1 173 217; 2 471 419 |
| `SInv` | the same, and both ends sending in calm | 1 656 831 for the last |
| `OInv` | in calm: two connections; three hosts; two payloads of one or two bytes from each end | 57 237; 167 146; 1 656 831 |

**TaskManager.** `IInv` is the conjunction of `TypeOK`, `TableSorted`,
`TableDistinct`, `IdleDiscipline` and `CursorOnTask`. None of the last four is
inductive alone: sorting needs the table filled and distinct (a swap must not
lose a task), the removal of a zombie needs the cursor to be on a task, and the
cursor needs `IdleDiscipline` (a system call can only come from a task when
`currentTask` is set). Lemmas `MoveLeft`, `MoveRight` and `MovePermutes` say what
a swap loop leaves, `RemoveKeeps` what a removal leaves, `EnterScheduleKeeps`
what `Schedule` up to its loop leaves whichever handler calls it; then there is
one lemma per action. `OnlyZombiesLeave` is the action property from the same
invariant.

**Programs.** Three invariants, one for each kind of programs the properties are about.

*Unix.* `UInv` adds to `IInv` that a live task resumes from its own frame (`OwnFrames`),
who is on the CPU between handlers (`AtUser`), and where a search may be (`InSearch`).
What makes these inductive is the order of the table: without priorities `AddTask`
appends, so pids grow from slot to slot (`InPidOrder`), a parent is listed before its
child, and the reaping of a child, by a `waitpid` or by the search, never moves the slot
of the parent that does it. Hence the cursor stays on the caller, and the frame saved at
the next decision is the caller's own: `RunsOwnContext`. `WaiterIsRecorded` is part of
the invariant (with `WaitedByParent`: nobody but a parent is ever recorded).

*Fork-join.* `JInv` adds to `UInv` that the table is one line of descent (`Chain`), in
which only the last task can be a zombie (`OnlyLastDies`), and says what a search has
learnt so far (`Searched`): before it comes round, every slot behind the one it started
from held nobody to run; after that, every slot from the front. When it is back at its
start without having found anyone, all others are blocked, so the one it started from
cannot be (its awaited child would have to be there and be blocked too), and is
RUNNING. `AlwaysSomebody` follows: the return of NULL is unreachable. The invariant
also gives `WokenOnlyByAwaited`, that one task has the turn (`NoTwoTurns`),
and `TableLivesProcesses`, the safety half of `ImplementsProcesses`: every step of the table is a step of
`Processes` or leaves `procs` alone. Its other half, fairness, is left to the run.

*Daemons.* Forks and changes of priority move tasks under the cursor; a poll moves nothing, for
nobody has terminated. `DInv` says that the
cursor moves with the caller (`CallersStayCurrent` states it as an action property), that
it never runs past the table because nobody leaves, and that during a search the task
still RUNNING is the one in the slot the search started from (`TurnIsCurrents`), which gives
up the CPU when the search ends. `OneRunning` follows, and fails without the
condition on exits (`two_running`).

**Processes.** `NobodyBlockedForNothing`: at most one process has the turn, and
every blocked process has an awaited child still in the table. Together with
`ImplementsProcesses` this is the contract for fork-join programs.

**MemoryManager.** `MInv` adds to the structure (`MTypeOK`, `Linked`,
`Coalesced`, `HeldIsAllocated`) three facts that it needs to be inductive:
`HeldFits` (a block is no larger than its chunk), `Rooted` (no list, no
chunks) and `WalkSoFar` (every chunk below the cursor of a walk has been found
unfit). `AbsorbKeeps` shows that merging two neighbours keeps the tiling,
`MergedBackKeeps` and `MergedOnKeeps` lift it to the two merges of `free`,
`SplitKeeps` is the split of `malloc`. From `MInv` follow `BlocksApart` (a
chunk's payload lies before the next header), `WholeAgain` (a tiled list with
no two free neighbours and nothing allocated is one chunk) and
`RefusesOnlyWhenFull` (from `WalkSoFar` at the end of the list).
`HeapImplementsAllocator` proves the refinement: `Take` maps to `AGrant`, `Free`
to `AFree`, everything else stutters.

**Frames.** `StackIsOwn` and `ContextIntact` are not inductive, since a child's frame
pointer leads into its ancestors' stacks and it writes there. `FInv` says where: a slot is
*standing* (`Standing`) when it is a frame of a function that is never left, on the stack of a
task that was forked; a frame pointer and a link lead to the task's own top frame
while its function will return, else to a standing slot (`PointerFits`, `FramesLinked`). No
context is ever pushed over a standing slot and no standing slot is a context, so
what a child writes hits no one's registers. `Guests` in `Replaces` is what keeps it true
there. `WholeContexts` says that each vector that comes pushes an error code
or has a stub that pushes a word in its place; the run's vectors do. For the others the
stub loses a word, and the theorem is false.

**Card.** `CInv` relates the two rings to their four indices: the card is as many
descriptors ahead of the driver as frames wait (`Received`), and `Send` as many ahead of
the card as descriptors are taken, whether filled or not (`Sends`). `Handling` is
what `InterruptStaysPending` needs in the middle of the handler: what it has read stays
set until the acknowledgement, and then no frame waits but one that slipped in.

**Network.** `HandlerNeverWaits` rests on the gateway's answer being in the cache before
the program does anything (`GatewayFirst`), the cache only growing and its entries being
truthful (`CacheTruthful`), and what comes through the gateway going back through it.
`OneSocketPerRemote` rests on `HeardFirst`: a datagram goes to the first socket that
takes it, and what a socket has heard no earlier one would take now, because a
listening socket that takes somebody stops listening and a new socket goes to the
end.

**Tcp.** `HInv` relates each segment on its way to the socket that sent it (`Genuine`: that
socket still has the addresses in it, and a segment tells something about its sender's state: an
ACK, that it has left SYN_SENT and SYN_RECEIVED), and each server's socket that no longer
listens to the client's at its other end (`AtServer`). That a host never has two sockets for one peer
(`OwnPeers`, `PortsInTurn`, `TablesFit`) rests on the search of the table from its front, with
the listening sockets last in it (`ListenersLast`), and on the table holding fewer sockets than there are
ports, so that a port comes round only after the table is full. `Onward` and `OnwardKeeps` say once what every
step keeps that leaves the ends of sockets alone; the answer to a SYN (`BindingKeeps`) and a new socket
(`OpenedKeeps`) are the two that do not. `HandshakesAgree` follows, whatever is lost, repeated
or overtaken. `InHandler` says what the socket of a handler's call is meanwhile (`During`): nothing
reaches it, so it is ESTABLISHED or FIN_WAIT2 when the handler is called, since those are the states in
which a payload in order is handed over, and ESTABLISHED once its `Send` is past the test. From that
follows `HandlersHangOnlyWhenClosing`. A payload sent by a handler is one of the socket's like
those a task sends, so the lemmas about `Send` and `Disconnect` are shared by both.

`StreamsArePrefixes` needs `SInv`, which adds to `HInv`, for each sending socket, that there is an `f`, the
number at which each of its payloads begins (`Flows`): it grows by at least the length of what
it passes over (`Begins`, said of every earlier payload at once, since the induction from one
to the next is out of the prover's reach), its end is the socket's sequence
number while the socket may still send, so before any FIN is counted (`Ahead`), a segment on its way carries the payload of
its number (`Placed`), and the peer expects a number after the beginning of the last payload it took
and not after that of the next (`Taken`). So the payload that has the expected number is the next
(`NextIs`), and taking it leaves the expected number in the next interval, because a payload
advances it by at least one and by no more than its length. That is why payloads of zero
bytes only are excepted, and why the `ack` a socket keeps after its peer's FIN, which that FIN counted up,
must not be used again (`revived`). `Fresh` covers the time before the handshake is over, and the
numbers of a SYN|ACK; `SteadyKeeps` says once what every step keeps that neither sends nor
takes a payload nor answers a SYN nor opens a socket, and those four have a lemma each
(`SendingKeeps`, `TakingKeeps`, `BindingSteadily`, `OpenedSteadily`).

`SInv` says where the payloads on their way belong, not that they are all there and in order: a lost
one is never sent again. `EndsSynchronised` needs that, and only as long as there is no mishap:
`OInv` is `SInv` with `mishaps = 0 => Ordered`. Between two sockets that are each other's peers, the
segments that carry payloads form a `Line` (`OnLine`): they carry exactly the payloads sent and not
taken, in the order of the queue, the first has the number the receiver expects, each has the number
the one before it ends at, and the last ends at the number the sender will use next, or, with
nothing on its way, the receiver expects just that. The line is claimed only while the receiver takes payloads or is about to
(`Active`; one that disconnects refuses them) and no payload ended in zero bytes (`Full`; the
receiver counts those short). Two more facts make it inductive. A payload that reaches a server in
SYN_RECEIVED is taken for the ACK of the handshake and lost, so the true ACK has to be ahead of
every payload (`Acked`). And a listening socket that took a second SYN of the same socket would
begin to expect numbers that have gone by, so there is one SYN on its way only, of a
socket without a peer (`Syns`). `PairStays` says what keeps one pair in order, `OrderStays` what
keeps all; a payload sent (`PayloadInOrder`), one taken (`TakenInOrder`), the answer to a SYN
(`BindingInOrder`) and a new socket (`OpenedInOrder`) move the line or begin one.

With nothing on its way the line is empty, so everything sent has been taken, and `StreamPrefix`'s
`Taken` says it was taken unchanged: `NothingLeftBehind`, in calm the safety side of
`DeliveredInCalm`. It leaves out an end that
has begun to close: in FIN_WAIT1 it takes a payload for the ACK of its FIN and drops it, and TLC
shows that. `RInv` is the last fact the proof needs: with no mishap no socket is `revived`, because
a `Disconnect` that revives one is called in CLOSE_WAIT or CLOSED, and in calm it is called in
ESTABLISHED only. TLC checked `DeliveredWhenQuiet` on the instances of `OInv`'s line.

**Model-checked only.** Every liveness property (`SearchEnds`,
`EveryReadyTaskRuns`, `WokenByChild`, `FairWhenSettled`, `MallocReturns`,
`DeliveredInCalm`, `ClosesBothEnds`, `FramesHandled`, `ResolveReturns`) and
the fairness in `ImplementsProcesses`, since neither fairness nor ENABLED is in
the prover's reach. Every safety property of a passing run is proved. `WholeAgain`, `HeldIsAllocated`, `NoTwoTurns`,
`CallersStayCurrent` and `DeliveredWhenQuiet` are the other way round: they are proved, and no run checks them.

## 5. Plan

Written so far: every part of the kernel that changes state while it runs, and the
network stack; proofs of every safety property of it. What is left is widening, in this order:

1. `DeliveredWhenQuiet` for a receiver in CLOSE_WAIT. It needs a conjunct in `Pair`: a FIN on its
   way is behind every payload of its socket, and was numbered after the last of them.
2. `WaiterIsRecorded` and `RunsOwnContext` without `Unix`'s condition on programs, as far as they
   hold: the first for tasks that wait for children of their own, the second up to the first
   change of a priority with quantum left (`stale_frame`).
3. What remains of `OneRunning` once tasks that have children exit (`two_running`): to be found
   with TLC first; a candidate is that a task passed over in RUNNING never has the CPU again.

## 6. Not modelled

* *Results and statuses of system calls*, other than fork's. `getppid` issues GETPID,
  `waitpid` with `WNOHANG` on a living child returns its pid where the comment says 0, and a status is
  written through the location the last blocking wait left: each is a line to read, and no
  program uses the result.
* *The heap under the process table and under the network stack.* The task manager never deletes a
  task and loses one on a failed fork; calls of `new` from a task and from the handler
  that interrupts it would relink the list under each other, which `kernelMain`, without a network, never does.
* *The console.* `printf` and `printfHex` keep static state and are called by tasks and handlers
  alike: what it decides is the order of characters on the screen.
* *`Network` under `Tcp`.* `Tcp` has a network that may do worse than `Network`, except for the
  loop of `Resolve` in a handler.
* *Keyboard, mouse, ATA, PCI, VGA and the GUI*: not started by `kernelMain`; decoders of
  single bytes, polled port accesses, one scan of a bus, and drawing.
* *The GDT, the port wrappers, the loader and the build*: constants and single instructions.
