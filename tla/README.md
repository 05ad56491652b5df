# klsxx.io in TLA+

This directory specifies klsxx.io, the coroutine I/O library of Kaleidoscope
C++: files and TCP sockets whose operations are `co_await`ed, over io_uring on
Linux (`Linux5`) and over I/O completion ports on Windows (`NTOS`). The modules
are translated from the sources under `src/`; TLC checks them on small
instances and TLAPS proves every safety property of every module for every
instance, what no step may do, and that both targets implement one abstract
specification each of awaiting, of files and of TCP calls. `PROJECT.json` maps every definition to
the lines it models.

## 1. Inventory

| component | sources | state it keeps | operations |
|---|---|---|---|
| Linux5 ring | `Linux5/Module/Uring.{h,cpp}` | `m_ring` (SQ and CQ shared with the kernel), `m_lock`, one detached thread | `io_plain`, `io_message`, `get_sqe`, `wait_one`, `Uring::get` |
| ring life | `Linux5/Module/Uring.{h,cpp}`, holders in `TCP.cpp`, `Block.cpp` | `gIoRing` in raw storage, the static `instance`, reference counts | `Uring::get`, `IoRing`, `~IoRing`, copies and drops of `SafeHandle<Uring>`, `while (wait_one())` |
| Linux5 await objects | `Linux5/Published/kls/io/Await.h` | `m_result`, trigger, `VecAwait::m_message` | `await_suspend`, `release`, `await_resume` |
| NTOS await objects | `NTOS/Published/kls/io/Await.h`, `NTOS/Module/IOCP.h` | `m_overlap`, `m_result`, `m_transferred`, `m_immediate_completion`, trigger | constructor, `await_*`, `await_release` |
| Linux5 TCP | `Linux5/Module/TCP.cpp` | descriptors, `errno` | `acceptor_tcp`, `connect`, `once`, `read`, `write`, `readv`, `writev`, `close` |
| NTOS TCP | `NTOS/Module/TCP.cpp` | sockets, RAII guards | the same |
| files | `*/Module/Block.cpp` | descriptors or handles | `open`, `read`, `write`, `sync`, `close` |
| errors | `*/Module/Error.cpp`, `Common/.../Status.{h,cpp}` | none | `map_error`, `map_result`, `IOResult` |
| full transfers | `Common/Module/TCPUtil.cpp` | the remaining span | `read_fully`, `write_fully` |
| addresses | `Common/Module/IP.cpp`, `*/Module/IP.h` | none | factories, `to_os_ip*`, `from_os_ip` |

**How they interact.** A TCP or file call builds an await object whose
constructor submits the operation. On Linux it takes the one ring lock, fills a
submission entry (SQE) with the object's address as user data and calls
`io_uring_submit`; a detached thread takes completion entries (CQEs) off the
ring, stores the result in the object and pulls its trigger. On NTOS the
constructor issues an overlapped call on the `OVERLAPPED` the object starts
with, and a thread of the system's pool runs `await_release`. In both cases the
trigger either resumes the parked coroutine or lets a coroutine that has not
parked yet go on. `await_resume` turns the raw result into a `Status` or an
`IOResult`, and the object dies with the co_await expression. `read_fully` and
`write_fully` loop over such operations.

**What is hard in it**, and what correctness means there:

* *Submission*: every thread shares one ring. No half-filled SQE may be handed
  to the kernel, the spinning `get_sqe` must find room because it holds the lock
  that a submission needs, and since the result of `io_uring_submit` is dropped,
  SQEs stay behind whose arguments must survive their caller.
* *Completion*: the completion races with the constructor, with
  `await_suspend` and with the destruction of the object. No wake-up lost, no
  result read before it is written or in halves, no use after destruction.
* *Life of the ring*: it is made on first use by whichever thread comes first and
  destroyed by whoever drops the last reference, perhaps after `main`, while a
  detached thread waits on it. No operation outlives its ring.
* *Ownership*: each call may fail at any of half a dozen steps, before or after
  a suspension. Nothing leaks, nothing is closed twice, and no operation reaches
  a descriptor that was closed and reused meanwhile.
* *Errors*: codes travel through `errno`, negated ring results, last-error codes
  and completion codes; the caller must get its own failure.
* *Files*: one set of flags is translated to two systems, by tables in which
  every combination counts; offsets are cut in two on one of them, and opening
  takes several steps that other callers' opens interleave with.
* *Addresses*: ports are `int`s above, 16 bits in network order below; the peer of
  an accept is written to a coroutine frame while the coroutine is suspended.
* *Lengths*: sizes are `size_t`, lengths 32 bits and results `int32_t`.

`PROJECT.json` lists these hazards at their lines with the properties aimed at
them.

## 2. Modules

```
AsyncIO                            what awaiting an operation promises, on any target
  ^ implemented by
IoRing         IoRingProofs        Linux5: Uring.h, Uring.cpp, Await.h
Overlapped     OverlappedProofs    NTOS: Await.h, IOCP.h, and how its calls answer
RingLife       RingLifeProofs      Linux5: Uring::get, IoRing(), ~IoRing, references
FileData                           Block.h: flags, requests, what a path names
BlockFile                          what Block promises, on any target
  ^ implemented by
LinuxBlock     LinuxBlockProofs    Linux5 Block.cpp
NtBlock        NtBlockProofs       NTOS Block.cpp
TCPCalls                           what the TCP calls promise, on any target
  ^ implemented by
LinuxTCP       LinuxTCPProofs      Linux5 TCP.cpp, over Addresses and LinuxErrors
NtTCP          NtTCPProofs         NTOS TCP.cpp, over Addresses and NtErrors
Addresses                          IP.h, IP.cpp: addresses, ports, byte order
FullTransfer   FullTransferProofs  TCPUtil.cpp
Status                             Status.h: codes and IOResult
  LinuxErrors, NtErrors            map_error, map_result
MC*.tla, MC*.cfg                   the instances TLC checks
```

### AsyncIO

An operation is idle, pending, completed with an outcome, or delivered; `Start`,
`Finish` and `Deliver` are its only steps. A started operation gets one outcome
and the coroutine reads exactly that, once. `Deliver` is fair, `Finish` is not:
a peer may never answer. `OutcomeStands` is what no step may do: change an answer
that was given, or deliver another one or twice.

### IoRing

One await object per operation in `Ops`; `phase[o]` is the place in the code
that owns it. Each operation runs its own submission, so several operations in
those phases are several threads in `io_plain` or `io_message`.

| action | code |
|---|---|
| `Acquire`, `Unlock` | `std::lock_guard` on `IoRing::m_lock` |
| `GetSqe` | `IoRing::get_sqe`; not enabled while the ring is full, which is the spin |
| `PackArgs` | `io_pack_args` / `io_vec_pack_args`, `io_uring_sqe_set_data` |
| `Submit` | `io_uring_submit`: the kernel takes a prefix of the queued SQEs |
| `Await`, `Resume` | `await_suspend` (with the trigger's `trap`), `await_resume` and destruction |
| `StoreResult`, `Pull`, `Seen` | the three effects of `wait_one`, in their order |
| `Complete` | the kernel posts a CQE (external) |

`arg[o]` says where the memory an SQE points to lives: the coroutine frame, the
await object, or the stack of the call. `Submit` may be short, because the code
drops its result; a partial submission and one that failed outright are the same
step with a smaller prefix. `Results` contains negated errno values and
non-negative counts. A failed `io_uring_wait_cqe` changes nothing and is a
stuttering step. The ring is assumed to exist: its creation and destruction are
RingLife's matter.

### Overlapped

The NTOS object, written at the grain at which its callback can interleave with
it: `Construct` (members initialised), `CallAccepted` or `CallRejected` (the
function the constructor was given), `Return`, `Await`, `Resume`, and on the
pool `Enter`, `SetTransferred`, `SetResult`, `Pull`. Calls that succeed at once
answer "pending" (`WSAO`, and `Block::read`), so an accepted call always posts a
completion.

### RingLife

A user is a call of `connect` or `Block::open`, then the handle it hands out, or
an acceptor. `refs` is the set of holders of a `SafeHandle<Uring>`, with `Static`
for the function-local `instance`.

| action | code |
|---|---|
| `Make`, `QueueInit`, `Made` | the first `Uring::get`: the guard of the static, `io_uring_queue_init` (its result dropped), the detached thread |
| `Get` | the others, which wait while the static is being constructed |
| `Submit`, `ResumeOpened`, `ResumeFailed`, `ResumeOperation` | what is held over a `co_await`, and by whom afterwards |
| `Acceptor`, `Drop`, `Exit`, `Release` | `m_core`; handles, acceptors and the static going away; the last one destroys the ring |
| `Got`, `Pull`, `Seen`, `WaitFails`, `Break` | `wait_one` and its exit condition |

How submissions and completions move is IoRing's matter; here an operation is in
the kernel, in the CQ or answered.

### FileData, BlockFile, LinuxBlock, NtBlock

`FileData` has the flags and requests of `Block.h` and a file as a sequence of
units. `BlockFile` is the promise of the interface on any target: an open does
to the file what its flags say or fails without effect, and transfers reach
their offset with the rights the handle was opened with. `StepAsked` says of its
steps that the file and a handle's rights change only as somebody asked.

`LinuxBlock` passes each request to the ring (`sqe`), opens with `flag_conv`, and
interprets the ring's answer with `map_result`. `NtBlock` opens in steps,
`CreateFile` (disposition, share mode, the reasons `CreateFileW` refuses, and
the special case of `ERROR_FILE_EXISTS`), then `Bind`, which may fail and close
the handle again (`Unwind`); its transfers put the offset in two DWORDs of
`Word` values each (`setOverlapped`). The kernel's side is external in both.
`asked` is history: the request in the caller's terms, against which the
refinement mapping compares what happens.

On Linux5 reading at the end is a success of 0 units. On NTOS it is
`ERROR_HANDLE_EOF`, for which `map_error` has no case: a failure without effect,
which `BlockFile` allows because it allows any call to fail. An open whose `bind`
fails leaves the file created or truncated: in `BlockFile` it opened, and was
closed by the library.

### Addresses

Octets as they travel, the factories, and both directions of the conversion with
the byte order and width of the port. `Denotes` is the kernel's reading of a
socket address. Used by LinuxTCP and NtTCP: `addr` is the socket address in a
call's frame, `far` what its socket is really connected to, `peer` what `once`
returned.

### Status, LinuxErrors, NtErrors

An `IOResult` is its one integer, as in the code. A `Status` is represented by
the errno value it is named after, which keeps the Linux table a set (`Mapped`,
the values with a case) and the NTOS one a function (`Cases`). `map_result`
passes its argument on unchanged, sign included, as the code does, and `EOF` is
a case with the value -1.

### TCPCalls

The promise of `acceptor_tcp`, `connect`, `once` and of the handles they hand out.
A call is idle, pending, open (its handle was handed out), closing, closed, or it
threw. While it is pending its socket is bound or connected once (`Establish`), to
the place the caller named or, for a `once`, to one of the visitors; only then may
it succeed, and a `once` that does names the visitor its socket is connected to. A
call that throws tells a failure and hands out nothing. A handle has one transfer
at a time, which may end after the close that interrupts it. `AnswersStand` says
that no step changes what a caller was told or handed out, except by its close.

The module has no descriptors, guards, errno or ring. LinuxTCP and NtTCP map their
program counters to the stages (`StageOf`) and say what a place is after both
conversions of its address (`Places`, `Visitors`). What the two targets do
differently is left open: which of the failures is told, and what a close returns.

### LinuxTCP

Calls of `acceptor_tcp`, `connect` and `once`, and the handles they hand out,
over a descriptor table in which the lowest free number is reused. Each code
section between two suspensions is an action, and within `acceptor4/6` each
system call is. `errno` belongs to the thread: after a suspension it is any
value. `cause` and `shown` are history: the real failure and what the caller
got. A ring operation holds the *socket* it was issued on, as in the kernel, so
closing a descriptor does not redirect it. The IPv4 and IPv6 variants differ in
address types only and are one action: the family is that of the address.

### NtTCP

The same calls on NTOS, with the RAII guard (`armed`), the binding to the
completion callback (`bound`), and unwinding as a step of its own after the
status to throw was computed. A socket is named by the call that created it, and
its number is not reused: nothing that is in use is ever closed here, which
`SocketsAreOwned` shows. Several `once` may pend on one acceptor, each with the
buffer in its own frame.

### FullTransfer

`write_fully` on one end and `read_fully` on the other of a connection that
moves any part of what it is given, may break, and ends when an end is closed.
`Check` is the loop's body after the co_await. `IntMax` is the largest
`int32_t` and lengths wrap at `2 * (IntMax + 1)`; the narrowing of
`buffer.size()` to `int32_t` is `ToInt32`.

## 3. What the runs check

| run | instance | shows |
|---|---|---|
| `ring_safety` | 3 operations (one vectored), ring of 2, 1 short submission in a row | `NoTornSubmit`, `SqeAvailable`, `ArgsOutliveQueue`, `ResultIsKernels`, `NoUseAfterFree`, `SuspendedIsPending`, `OnlyShortLeavesSqes`, and `ImplementsAsyncIO`, liveness included |
| `ring_progress` | ring of 1, CQ of 2, complete submissions | `EverySubmissionReachesKernel` |
| `ring_life` | 3 users, initialisation may fail, waits may be interrupted | `OperationHasRing`, `NobodySeesHalfRing`, `RingEndsWithLastReference`, `PostedIsDelivered`, `IInv` |
| `ring_shutdown` | 2 users | a disagreement of code and comment, below |
| `overlapped_safety` | 2 operations | `OverlappedOutlivesCall`, `ResultIsWhole`, `SuspendedIsPending`, `IInv`, and `ImplementsAsyncIO`, liveness included |
| `linux_block` | 2 coroutines, every set of flags, path absent, empty, filled or a directory, 2 offsets | `NoFdLeak`, `ImplementsBlockFile` |
| `nt_block` | the same, DWORDs of 2 values, offsets on both sides of a DWORD, calls that fail with `ERROR_INVALID_FUNCTION` | `NoHandleLeak`, `ExlockExcludes`, `LocksDecide`, `ImplementsBlockFile` |
| `tcp_safety` | listener, connect, accept, 2 descriptors, 2 errno values, 2 peers | `NoFdLeak`, `OwnSocket`, `FailureIsReported`, `PeersAreTrue`, `CloseEndsPending`, `ImplementsTCPCalls` |
| `tcp_refused`, `tcp_accept_failure` | the same | disagreements of code and documentation, below |
| `nt_tcp_safety` | listener, connect, 2 accepts that pend together, 2 peers, a failure at any step | `SocketsAreOwned`, `CompletionsAreDelivered`, `CauseIsShown`, `PeersAreTrue`, `ImplementsTCPCalls` |
| `full_transfer` | buffer sizes 0, 1, 3, 4, 8, 9 with `IntMax` 3, connection buffer of 2 | `SuccessIsExact`, `InOrder`, `FailureIsReal`, `BothReturn` |

Each property has a mutant, a change of one action as a plausible mistake in the
code would make it, under which TLC finds the property violated. They stand
before the definitions they change.

**Bounds, and why they are enough.** `Ops` is finite. Three operations on a ring
of two let one thread hold the lock while another waits for it and a third's SQE
was left behind. `MaxShort` bounds consecutive short submissions; without a
bound SQEs pile up until the ring is full, the holder of the lock spins, and
nobody can submit: `SqeAvailable` holds exactly because fewer submissions in a
row fall short than the ring has entries (`MaxShort < QueueDepth`, with a
`QueueDepth` of 8192 in the code). In `ring_progress` no submission is short: an
SQE that was left behind waits for somebody else's submission, and the code
never makes one for it. The completion ring has `2 * QueueDepth` entries, as
the kernel allocates it, and does fill up in `ring_progress`. Three users let one
construct the ring while another waits for it and a third is handed a handle by
an accept. Two coroutines on one path are enough for one to create, lock or
truncate the file between two steps of the other's open. Two descriptors for
three owners make `LinuxTCP` reuse numbers and run out of them. The connect asks
for a port beyond 16 bits, and the peers' ports differ from their byte-swapped
form (258 is 0x0102, 1 is 0x0001). One failure code is enough in
`nt_tcp_safety`, since success is the other answer a stale last error could be
confused with; the proofs cover any set of codes. In `FullTransfer` sizes lie below, at and beyond what the model's `int32_t` and
length can express; the connection's buffer is smaller than most buffers, so
transfers are partial. Symmetry is declared in safety runs only, over operations
or calls of the same kind.

**Fairness.** Threads that run code of the library go on running: submitters,
executors that resume coroutines, the completion thread or pool. This is what
the operating system and `kls.coroutine` give. Weak fairness of the ring lock is
enough because each submitter passes once; a spin lock under unbounded
contention would promise less. The kernel is fair only where the library's
promises rest on it: a close is carried out and an operation on a socket that
was shut down ends (`KernelEnds` in LinuxTCP), and a connection moves bytes when
it can (FullTransfer). In RingLife the detached thread alone is fair
(`WF_vars(Worker)`): it is scheduled, and a wait returns when it can. No ring operation or overlapped call need be answered.

**Assumptions on callers**: a handle is closed once, no operation is started on it
after that, one transfer at a time is in progress on it, and handles outlive
their operations. The echo tests use the library this way. Nobody calls
`Uring::get` once static destruction has begun (RingLife): it would copy a
destroyed handle.

**Assumptions on the systems**: a wait on a ring that was destroyed is granted to
fail with `ENXIO`, the most the code can hope for; a ring whose initialisation
failed gives no SQE; `O_EXCL` without `O_CREAT` has no effect; a `close` that
succeeds leaves `errno` alone (`CloseOnError`). `CreateFileW` refuses for the reasons
`Refusals` lists, those that share modes decide being of the path's own callers, and
besides may fail with any code (`CodesAssumption` asks of `Codes` only that they are
failures).

**Deadlock** is not checked where all calls simply end; the liveness properties
(`EverySubmissionReachesKernel`, `PostedIsDelivered`, `CloseEndsPending`,
`BothReturn`, the fair half of `ImplementsAsyncIO`) show that nothing stops before
that.

## 4. Disagreements found

1. `connect4` and `connect6` throw `map_error(errno)` after the ring reported
   the failure as a result (`Linux5/Module/TCP.cpp:95`, `:107`). `errno` is
   whatever the resuming thread was left with, so a refused connect is not
   reported as `IO_ECONNREFUSED` (`tcp_refused`). `FailureIsReported` shows that
   at least it never throws `IO_OK`.
2. `map_result` passes a negated errno to `map_error`, whose cases are positive
   (`Linux5/Module/Error.cpp:98`): every failed operation becomes `IO_UNKNOWN`,
   and `-EPERM`, which is `EOF`, becomes `IO_EOF` (`tcp_accept_failure`).
   Whatever the errors are, no `once` that fails tells which one it met
   (`CodesAreLost`).
3. `wait_one` compares `io_uring_wait_cqe`'s result with `ENXIO`
   (`Linux5/Module/Uring.cpp:48`, "break if instance shutdown"), but liburing
   returns `-ENXIO`: the detached thread never ends and goes on waiting on the
   destroyed ring (`ring_shutdown`; for every instance `WorkerNeverStops` and
   `ShutdownIsNeverSeen`).

Seen while modelling, without a run of their own:

* `IOAwait<Status>` on Linux5 calls `map_error` on a result of 0, which has no
  case: a successful `close` or `sync` returns `IO_UNKNOWN`. This is proved
  (`CloseNeverReportsOk`, and of every close of an execution in `CodesAreLost`). The NTOS `map_error` answers `IO_OK` there, and
  `CauseIsShown` holds for NtTCP.
* `IO_EISDIR` of an NTOS open does not prove that the path names a directory: it is
  what `ERROR_FILE_EXISTS` becomes with `F_CREAT` and no `F_EXCL`
  (`NTOS/Module/Block.cpp:99`), and also what `map_error` makes of
  `ERROR_INVALID_FUNCTION` (`NTOS/Module/Error.cpp:130`), whatever call met it. No
  property rests on it.
* `read_fully` and `write_fully` report a failure for buffers an `int32_t` cannot
  count, although every byte was moved. From 2^31 to 2^32 - 1 bytes the last step
  returns `int32_t(buffer.size())`, a negative result (`Common/Module/TCPUtil.cpp:33`,
  `:46`), which an `IOResult` takes for an error code; from 2^32 bytes on the length
  of an operation, 32 bits wide, becomes zero when `size` modulo 2^32 bytes were
  moved, and the zero bytes it moves are `IO_EOF`. `OversizeNeverSucceeds` proves that
  no such transfer succeeds, and `FailureIsReal` is about the sizes below.
* The NTOS `map_error` has no case for `ERROR_HANDLE_EOF`, so that a read at the
  end of a file is `IO_UNKNOWN`, where Linux5 returns a count of 0.
* `F_EXLOCK` is a lock on NTOS (`ExlockExcludes`) and ignored on Linux5.
* Ports beyond 16 bits are accepted and narrowed, on both targets; `PeersAreTrue`
  says so explicitly.
* `io_uring_cqe_seen` may touch the ring after the coroutine it woke destroyed it
  (`Seen` of RingLife in a state where the ring exited).
* Two leaks on NTOS are stated as what they are in `SocketsAreOwned`: no
  `closesocket` ever follows the `DisconnectEx` of a handle's close, and an
  acceptor whose `initialize` throws loses its listening socket.
* The length `MultiByteToWideChar` returns is used unchecked in
  `NTOS/Module/Block.cpp`.

## 5. What is proved

For every value of the constants that satisfies their named assumptions, with
all arguments checked by TLAPS. In each of the eight modules `Invariance` is
`Spec => []IInv` for the inductive invariant `IInv` of the component, `TypeCorrect`
follows from it, and so does every safety property the runs check:

| module | proved besides |
|---|---|
| `IoRingProofs` | the seven safety invariants of `ring_safety` (`RingHasRoom` needs `MaxShort < QueueDepth`); `RefinesAsyncIO`: the safety half of AsyncIO; `AnswersStand` |
| `OverlappedProofs` | its three safety invariants; `RefinesAsyncIO`; `AnswersStand` |
| `RingLifeProofs` | `OperationHasRing`, `NobodySeesHalfRing`, `RingEndsWithLastReference`; `RingMadeAndEndedOnce`; `WorkerNeverStops`, `ShutdownIsNeverSeen` |
| `LinuxTCPProofs` | `NoFdLeak`, `OwnSocket`, `FailureIsReported`, `PeersAreTrue`; `Implements`: the refinement of TCPCalls; `AnswersStand`; `CodesAreLost`; the round trip of addresses; `CloseNeverReportsOk` |
| `NtTCPProofs` | `SocketsAreOwned`, `CompletionsAreDelivered`, `CauseIsShown`, `PeersAreTrue`; `Implements`: the refinement of TCPCalls; `AnswersStand` |
| `LinuxBlockProofs` | `NoFdLeak`; `Implements`: the refinement of BlockFile, in full; `ChangesAsAsked` |
| `NtBlockProofs` | `NoHandleLeak`, `ExlockExcludes`, `LocksDecide`; `Implements`; `ChangesAsAsked` |
| `FullTransferProofs` | `SuccessIsExact`, `InOrder`, `FailureIsReal` (sizes up to `IntMax`); `OversizeNeverSucceeds`; `NothingIsUndone`, `LoopsAdvance` |

**Action properties** say what no step may do. Those of an abstract specification
(`AsyncIO!DeliveredOnce`, `TCPCalls!AnswersAreFinal`, `BlockFile!OnlyAsAsked`) are
proved of each target under its refinement mapping: a step of the code is a step of
the abstract specification, and no step of that one breaks the property. So an
answer to an operation is given and delivered once; what a TCP call told its caller
and the socket and peer it handed out never change; a file changes only for a
writer or an open asked to make or empty it, handles keep the rights they were
opened with, and of all opens with `F_CREAT` and `F_EXCL` one at most makes the
file. The others are of one component: the ring is never made again
(`RingIsNeverRemade`), no byte received is overwritten (`NothingUndone`), and each
turn of a transfer loop leaves less to move (`TurnsAdvance`), which is the safety
half of `BothReturn`.

**IoRing.** None of the safety invariants is inductive. `LockInv` makes at most
one operation in the locked section, which bounds the SQ: `ShortInv` says that it
holds no more SQEs than submissions fell short in a row, plus the holder's own
(`OnlyShortLeavesSqes`, `SqeAvailable`).
`SqInv`, `InflightInv` and `CqInv` follow an operation from the SQ through the
kernel to a CQE, at each place with the phases its owner can be in meanwhile; an
operation is at one place at a time and its trigger is not pulled before its CQE
is released. `TrigInv` ties trigger, coroutine and result together, and
`PendingInv` says that a submitted operation whose trigger is not pulled is at
one of these places: from it follow `SuspendedIsPending` and, with `CqInv`,
`NoUseAfterFree`. The refinement maps a phase and the recorded answer to a stage;
every action is a `Start`, `Finish` or `Deliver` of its operation, or stutters.

**RingLife.** `HolderInv` reads who holds a reference off where everybody is,
`RingInv` and `MakerInv` tie the static's guard to the ring's construction, and
`OperationInv` says that operations belong to holders.

**LinuxTCP.** `FdInv` is an equivalence: a descriptor stands for a call's socket
just if the call holds that number, or the kernel accepted it for a `once` that
has not resumed. That survives the reuse of numbers, because the lowest free one
stands for nobody. `OneOfAKind` and `Belongs` bound what is in the ring: a call
has one operation of a kind, which its stage issued. `AddrInv` follows an address
from the frame to the kernel and back, and `ErrnoInv` the listener's errno over
its `close`.

The refinement of TCPCalls needs one more invariant, inductive under `IInv`.
`ReachInv`: no socket is bound or connected before its call's operation is carried
out, so that it is established once and by that operation, and the kernel writes
the peer of a pending `once` as an address of the acceptor's family. `StageStep` says
which stages a change of one call's place may map to, and there is a lemma for
each action; an action on the kernel's side establishes, and everything else
stutters. `NoPeerAssumption` (the value for "nobody" is no endpoint) is the one
assumption added for it. `CodesAreLost` is inductive with `CloseAnswers`: the ring
answers a close with 0.

**NtTCP.** `SocketInv` says who is responsible for a socket at every stage,
`BoundInv` that everything past `IOCP::bind` delivers completions, `WaitInv` that
an overlapped call is the only one of the coroutine that waits for it, so that
the answer it takes is of the address it reads. `ReachInv` does for the
refinement what it does on Linux5, `TransferInv` says that a handle has one transfer
at a time, in flight or answered; an unwinding call has thrown for TCPCalls
only when its guard has run (`ToldOf`), although the Status was computed before.

**Files.** `StageInv` ties a call's place, its request and its handle in the
system together, `RingInv` and `CallInv` the request and its translation;
`ShareInv` says that a handle shares everything or, locked, nothing, and that rights
and share modes of any two handles are compatible. So a lock excludes handles opened
before and after it (`ExlockExcludes`), and nothing but a lock makes two opens refuse
each other (`LocksDecide`). The refinement
needs that the translated request means what the flags say, for each
combination of them, and that an offset is the sum of its halves.

**FullTransfer.** `MovedInv`: what was received and what is in the connection
are together what the writer's span has passed. `SpanInv` has the arithmetic of
the widths: a span of `2^32` bytes or more never gets shorter than that, since
each operation is for its size modulo `2^32`, and so never ends in success.
`AccountInv` compares the two sides for the whole execution, also after one of them
returned: what the writer moved is what the reader has moved and what the stream
holds, or less after a reset. It is what makes a writer's success mean that its
bytes are received or under way (`SuccessIsExact`) and no byte is there that was
not written (`InOrder`).

**Assumptions.** The constants' ASSUMEs: calls, operations and special values are
distinct, results are integers, error codes lie where the tables put them, depths
and widths are natural numbers. TLC evaluates them in every run.

**Only model-checked**: liveness and fairness (`EverySubmissionReachesKernel`,
`PostedIsDelivered`, `CloseEndsPending`, `BothReturn`, the liveness half of
`ImplementsAsyncIO`): fairness and ENABLED are out of the prover's reach. Of the
disagreements of section 4 the first is only model-checked: that some execution
throws another code than `IO_ECONNREFUSED` is no invariant. The inductive
invariants of the TCP, file and transfer modules and the action properties are
proved, and so is that of the ring; TLC checked them on the instances above before,
and the runs do not list them again.

## 6. Not modelled, and the plan

Left out for good: the table of texts of `exception_errc::what`, which is
constant; the parsing of address texts, which is `inet_pton`; `WSAStartup` and
`WSACleanup`, which keep no state that calls depend on; the conversion of paths
(`ntos_get_path`, `filesystem::absolute`), since all calls of the file modules
open one path; build files and tests; and the internals of `kls.coroutine`,
`kls.essential`, liburing and the Win32 API, which are external and modelled by
how this code uses them.

Five hazards have no property. For four of them no text of the repository says what
should happen: a pending `AcceptEx` on an acceptor that is closed on NTOS;
`io_uring_cqe_seen` on a ring that was destroyed; the Status of a read at the end of
a file on NTOS, where `BlockFile` allows a failure and a count of zero alike; and
what `F_EXLOCK` means, which Linux5 ignores. The fifth, the unchecked length of
`MultiByteToWideChar`, is in the conversion of paths.

Next:

1. Composition: LinuxTCP and LinuxBlock over AsyncIO, so that each suspended call
   is an operation of the protocol IoRing implements, and a short submission can
   delay a close; FullTransfer over `IOResult`s as LinuxErrors and NtErrors make
   them.
2. Proofs: that `RingLife` keeps an operation's ring across the composition.
