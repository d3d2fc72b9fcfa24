# A TLA+ model of hipFile

hipFile moves data between files and GPU memory. This directory holds TLA+
modules for the AMD implementation (`src/amd_detail`) and for the NVIDIA one
(`src/nvidia_detail`), configurations that check them with TLC, and TLAPS proofs.
Paths below are relative to `src/amd_detail` unless they start with `include/`,
`docs/`, `test/`, `tools/`, `examples/` or `nvidia_detail/`.

## 1. The system

| Component | State it keeps | Operations | Talks to |
|---|---|---|---|
| Public API (`hipfile.cpp`) | none of its own | open, close, register, deregister, read, write, async, batch | everything below, through `Context<DriverState>` |
| `DriverState` (`state.cpp`) | `ref_count`; the file, buffer, stream and batch maps; one `state_mutex` | `incrRefCount`, `decrRefCount`, `ensureInitialized`, the register / deregister / get methods | the maps |
| `FileMap`, `File` (`file.cpp`, `file-descriptor.cpp`) | `from_fd`, `from_fh`, a second descriptor per file | register, deregister, lookup, clear | shared_ptrs taken by I/O |
| `BufferMap`, `Buffer` (`buffer.cpp`) | `from_ptr` | register, deregister, lookup (temporary Buffer for an unknown pointer), clear | as above |
| `StreamMap`, `Stream` (`stream.cpp`) | `from_ptr`, a lock and three "fixed" flags per stream | register, deregister, lookup (temporary Stream) | async submission |
| Backends (`backend.cpp`, `backend/fastpath.cpp`, `backend/fallback.cpp`, `io.cpp`) | locals of a call | `score`, `io`, `_io_impl`, retry in the fallback | kernel, HIP, statistics |
| Async operations (`async.cpp`, `backend/fallback.cpp`, `backend/asyncop-fallback.cpp`, `backend/memcpy-kernel.hip`) | `submitted_ops`, `completed_ops`, `is_finished`, the AsyncOp and its bounce buffer | submit, the host functions and the kernel in the stream, the completion thread, the destructor | HIP streams, `DriverState` through the references an operation holds |
| Batch (`batch/batch.cpp`) | contexts with `capacity` and `outstanding_ops` | create, submit | `DriverState` lookups |
| Statistics (`stats.cpp`, `tools/ais-stats`) | counters in shared memory, a server thread | add, serve, connect | a client process, by a Unix socket |
| Configuration and environment (`configuration.cpp`, `environment.cpp`) | values read once and kept | `fastpath`, `fallback`, `statsLevel`, `unsupportedFileSystems` | the scores of the backends, the statistics |
| Mount information (`mountinfo.cpp`) | none | `getMountInfo` | libmount; `File` keeps the outcome |
| HIP and system call wrappers (`hip.cpp`, `sys.cpp`) | none | one per call, an error becomes an exception | everything above |
| NVIDIA back end (`nvidia_detail/hipfile.cpp`, `hipfile-cufile.cpp`) | none | the whole API, by conversion | cuFile, which keeps the state |

What is hard here:

* **Steps under different locks.** `hipFileDriverClose` and `hipFileIOAsync` read
  the count, release the lock and act on it later.
* **Use counts as a protocol.** Deregistration compares `use_count()` with a
  constant (2 for a file, 1 for a buffer) while other threads and stream
  callbacks take and drop references.
* **Lifetime across threads and the device.** An AsyncOp is shared by its
  submitter, the monitor's map and tasks in a HIP stream. The cleanup host
  function still reads it after handing it over for destruction.
* **A condition variable, a mutex and a device synchronization** on one path:
  candidates for a lost wakeup or for everyone waiting on everyone.
* **Partial failure.** Every enqueue, allocation and system call may fail, after
  earlier ones took effect.
* **Late binding.** The application may change size and offsets after the bounce
  buffer was sized for the old values.
* **Arithmetic at limits.** Sizes over the per-call maximum, chunks, short
  transfers, an unsigned difference in the batch capacity check, an address plus a
  length, a number of events that cuFile overwrites.
* **Two doors to one backend.** The choice by score and the retry after a failure
  both lead to the fallback, and the user may have forbidden it.
* **Conversion on both sides of an effect.** On NVIDIA an argument that cannot be
  converted must stop a call before cuFile acts, and an answer that cannot be
  converted is met after it has.

`PROJECT.json` lists each hazard with its line and the properties aimed at it.

## 2. Modules

| Module | Models | Checked by | Proved in |
|---|---|---|---|
| `DriverState` | the count, the maps, the references threads and operations hold | `DriverState.cfg`, `DriverFailedRegister.cfg` | `DriverState_proofs` |
| `AsyncLifecycle` | abstract: the life of an asynchronous operation as the caller sees it | implemented by `AsyncMonitor` | `AsyncMonitor_proofs` |
| `AsyncMonitor` | submission, stream order, completion thread, lifetime | `AsyncMonitor.cfg`, `AsyncMonitorLive.cfg` | `AsyncMonitor_proofs` |
| `AsyncOp` | the data path of one asynchronous operation | `AsyncOp.cfg`, `AsyncOpMaxSize.cfg` | `AsyncOp_proofs` |
| `Eligibility` | operators: what environment, file, mount and HIP allocation allow | extended by `SyncIO` | with `SyncIO` |
| `SyncIO` | one synchronous call, both backends, retry, statistics | `SyncIO.cfg`, `SyncIOReturns.cfg` | `SyncIO_proofs` |
| `Batch` | batch contexts and submissions | `Batch.cfg` | `Batch_proofs` |
| `FileLifecycle` | the descriptors behind a registered file and who closes them | `FileLifecycle.cfg` | `FileLifecycle_proofs` |
| `StatsServer` | the statistics server thread, its socket and the ais-stats clients | `StatsServer.cfg` | `StatsServer_proofs` |
| `CuFileTypes` | operators: the types of `include/hipfile.h` and their conversions to and from cuFile's | extended by `NvidiaApi` | with `NvidiaApi` |
| `NvidiaApi` | the API on NVIDIA, cuFile with one batch | `NvidiaApi.cfg` | `NvidiaApi_proofs` |

`MC*` modules extend these with symmetry sets and sets of values for TLC
(`MCNvidiaApi`: driver properties that differ in one field each). In each module,
operators whose name ends in `_Something` beside the operator they resemble are
wrong variants, kept to show that the properties notice the difference; no
specification uses them.

### DriverState

One `DriverState` method is one step, because it holds `state_mutex` throughout.
Public calls that make several are several steps, told apart by `pc`: the two
halves of `hipFileDriverClose`, lookup and release of `hipFileIo`, and the check,
lookup, submission and release of `hipFileIOAsync`. `from_fd`, `from_fh`,
`from_ptr` and `from_stream` are the maps; `file_of` and `buffer_of` are the
shared_ptrs on a thread's stack or inside an AsyncOp, from which the use counts
are computed. Handles are the addresses of File objects, as in the code, so a
freed address can return as a new handle. `opens` and `excess` are history
variables. `opens` counts, for each thread, the opens it has not closed: nested ones,
and the implicit open of a call on a closed driver, which `docs/driver.rst` tells
the application to close as well. `excess` counts the closes of threads that had
nothing to close; the library does not stop them, and `MaxExcess` bounds them.
`OpenersCounted` compares the count with both, so that legitimate closes are never
excused and the race between the two halves of a close is inside the property: it may
cost one open for each excess close, never more.

### AsyncMonitor

Each operation has a submitting thread that walks through `Fallback::async_io`:
construction, `addOp`, `devPtr`, the stream's lock, one step per enqueue, the
handler, return. A HIP stream (external) is a FIFO whose head is running.
`async_io_cleanup` is three steps: `completeOp` under the monitor's mutex, the
notification after it, and the final read of the operation. `hipHostFree`
(external) waits for the device work that was enqueued when it was called; this
is what the code relies on between `completeOp` and the final read, and the
variable `draining` holds it. The completion thread and the destructor of
`AsyncMonitor` follow the code step by step; a `mutex` held by a host function
or by the submitter is one atomic step, and the completion thread's hold is
explicit because its loop has branches inside. The process is assumed to exit
only with no submission in progress and the streams synchronized.

`AsyncLifecycle` says what this machinery is for, without threads, locks, queues
and device: an operation is refused, or it is submitted, completes, publishes its
byte count and is freed, each once, while its call answers at any time after the
submission. It is freed only after it was published and its call has answered; an
operation the library gives up answers with an error and never completes.
`AsyncMonitor` instantiates it with `Phase` (memory live with file and buffer
still referenced is *submitted*, without them *complete*) and `Answered` (what the
submitter returns, once it has dropped its reference), and `ImplementsLifecycle`
checks that each of its steps is a step of the abstract specification or none.

### AsyncOp and SyncIO

Sizes and offsets are small integers and a byte is named by where it was before
the call, so "the right bytes arrived" is an equation between arrays. Arrays
extend beyond the ends of buffers: a copy that overruns is visible. `AsyncOp`
binds parameters at submission or in the stream, with whatever values the
application's variables have by then, and runs the two copies in the order of the
I/O type. `SyncIO` first sets the scene: the environment is read, a file and a
buffer are registered, or the buffer is temporary. `Eligibility` computes what
follows from that: which texts of a variable count, which file systems and mount
options are accepted, whether there is an unbuffered descriptor and with which
alignments, and whether a region lies inside the HIP allocation, with addresses
that wrap at `AddrMod`. Then comes one call. It covers the scores, the fast path, the errors for which
`BackendWithFallback` retries, the fallback's loop with short reads and writes,
`EINTR` between `pwrite` and `fdatasync`, and the value `hipFileIo` returns. A fast
path error for which the library retries is assumed to be raised before data moves
(external). The maximum transfer is assumed to be a multiple of every direct I/O
alignment (`SizesAssumption`): `fastpath.cpp:187` caps a size that was tested for
alignment before, and the cap is a multiple of the page size and of nothing larger.

### Batch

A submission holds its context's mutex from the capacity check to the insertion
(`HoldsContext`) and looks up one request at a time, while files are registered,
deregistered and cleared. `Room` is the unsigned difference of the code, modulo
`SizeMod`. Status, cancel and destroy are "Not Implemented" in the library, so an
accepted operation never leaves.

### FileLifecycle

The process's descriptor table is a function from numbers to the file they refer
to, with or without `O_DIRECT`, opened by the client or by the library; a number
is reused as soon as it is closed. A registration is four steps, because another
thread may act between them: the initializers, the second `open`,
`FileMap::registerFile` under the lock, and the destruction of the
`UnregisteredFile` when the call returns. A FileDescriptor is a number and the duty
to close it; moving it leaves an empty one behind. Deregistration, the last
close and the end of an I/O destroy the Files that lost their last reference. The
model keeps its own small registry: that `use_count` is a correct test for "in
use" is what `DriverState_proofs` proves. The application is assumed not to close
a descriptor the library uses.

### StatsServer

The process (start, up, joining its server thread, stopped, dead), the server
thread (listen, poll, accept, send, close, look at the eventfd) and the clients
(create, poll the process and connect in a loop, receive, wait for the exit, read
the counters one at a time, write the report). `revents` is what the last `poll`
reported: the thread looks at the eventfd as it was then. Sockets are external: a
connection waits in `backlog`, and closing the listening socket ends the
connections in it. `exhausted` says that the process has no descriptor left, which
makes `accept` fail. The process may be killed in any state, and is when it sends
to a client that is gone and leaves `SIGPIPE` at its default.

### CuFileTypes and NvidiaApi

A value of an enumeration is its name in the header. Each switch of
`nvidia_detail/hipfile-cufile.cpp` is a record of its own, case by case, and each
conversion of a structure copies field by field, so that a wrong pairing in one
direction meets the right one in the other: the source writes most pairings twice, and the
properties convert back with the other one. A swap made consistently in both directions
of opcodes, types, modes or statuses would not show. The configuration parameters are converted in one
direction only; there the property compares numbers, those of `include/hipfile.h`
with cuFile's, which are external and taken to be aligned, as
`test/nvidia_detail/cufile-api-compat.cpp:19` asks for. The same holds of the error codes,
whose numbers `hipFileRead` and `hipFileWrite` pass on as they are. A value the
header does not name is one value more of each argument.

`NvidiaApi` keeps of the last call what the application passed, what reached cuFile,
what it answered, and what the application got, so that a property can compare the two
sides. cuFile is external: it answers any code, also one the library does not know, and its
batch finishes operations in any order and hands out as many events as it likes, but
none together with an error. `hipFileBatchIOGetStatus` stores the events up to the
first it cannot convert, and their number before that; `out` holds both, and `lost`
holds all events handed to a call that failed, also those in the array, since an
application that gets an error has no reason to look there. Calls are one step each,
since the library has no state of its own.

## 3. Runs

| Run | Instance | What it shows |
|---|---|---|
| `driver_state` | 2 threads, 1 async operation, 2 descriptors, 3 file and 3 buffer addresses, 1 pointer, count up to 3, 1 excess close | `RegistryConsistent`, `ClosedMeansEmpty`, `OpenersCounted`, `PinnedStaysRegistered`, `InUseLeavesOnlyByClose` |
| `driver_failed_register` | 2 threads | violation, finding 1 |
| `async_monitor` | 2 operations, 2 HIP streams, 1 Stream object | `NoUseAfterFree`, `DestroyedOnce`, `PublishedReleases`, `StreamSerial`, the refinement `ImplementsLifecycle` |
| `async_monitor_live` | 2 operations, 1 HIP stream | `EventuallyFreed`, `EventuallyJoined` |
| `async_op` | sizes 0..4, limit 3, buffer and file of 4 bytes | `CopiesStayInside`, `BoundBeforeUse`, `ReportedWasMoved` |
| `async_op_max_size` | the same | violation, finding 2 |
| `sync_io` | all environments, file types, mounts; allocation of 6 bytes among 16 addresses, buffers of length 3, 12 or temporary; sizes 0..6, limit 4, chunk 2, alignments 0, 1, 2; file of 4 bytes; arrays of 12 cells beyond all of them (`Extent`) | `ReturnedWasMoved`, `FallbackWriteIsDurable`, `StaysInBuffer`, `CompatModeRespected`, `StatsMatchReturns` |
| `sync_io_returns` | sizes 0..4 | violation, finding 3 |
| `batch` | 2 threads, 2 contexts, capacity up to 2, submissions of up to 3 requests, 3 operation objects | `WithinCapacity`, `AcceptedAreValid`, `AllOrNone` |
| `file_lifecycle` | 2 threads, 2 files, 4 descriptor numbers, 4 File addresses | `OwnedExactlyOnce`, `BothReachTheFile` |
| `stats_server` | 2 clients, 2 counters up to 1, backlog 1 | `WaitingReportIsFinal`, `NobodyForgotten`, `EventuallyStopped`, `ClientFinishes` |
| `nvidia_api` | every enumerator and one the header does not name, every error code and one beyond, each driver property in turn at the largest value, batch of 2 operations | `AnswersAgree`, `MeaningKept`, `EventsDeliveredOnce` |

Every passing run but the liveness one also checks its module's type invariant.

**Why the bounds are enough.** Every race named above needs two actors: a thread
against a thread, a thread against a stream callback, a submitter against the
completion thread. `driver_state` has one file address more than descriptors and
one buffer address for each of the three holders, so that an address can be
reused while an old object of another address is still held; a count of three
lets a thread open the driver twice beside the other's open; one excess close is enough
to race with a legitimate one. Two operations suffice
for the monitor because operations meet only through the mutex, the containers and
a shared stream; the second HIP stream gives real concurrency between host
functions. In the data-path modules the request exceeds the limit, the limit
exceeds the chunk, and the file ends before the buffer does, so that capping,
several turns of the loop, short transfers and end of file all occur. In `sync_io`
a buffer length of 12 makes address plus length wrap, and the two alignments differ
in both directions. Two batch operations are the fewest of which one can convert
and the other not, and of which fewer can be handed out than there is room for. The batch
instance submits at, below and over capacity to a context already partly filled.
Four descriptor numbers hold a client's descriptor, both threads' second ones for
it, and one more that is reused; there are as many File addresses as numbers, so
that a registration never waits for one. A backlog of one makes the second client
wait in `connect`, and two counters are the fewest that can be read at different
times. Negative offsets, size zero and one past the end are among the inputs everywhere.

**Deadlock** is checked for `DriverState`, `Batch`, `FileLifecycle` and `NvidiaApi`, whose calls
never block for good. The other modules describe calls or a process that end.

**Fairness.** In `AsyncMonitor`: weak fairness of each submitter once its
call has started, of each HIP stream, of the completion thread and of the
destructor's notification. This is the operating system running ready threads and
the device making progress; every one of these steps stays enabled until taken,
except those that wait for the mutex or for the device, which are released
infinitely often. Nothing is assumed of the application: it may submit nothing and
never exit.

In `StatsServer`: weak fairness of the server thread, of the end of a join whose
thread has returned, of the exit that follows it, and of each client once it was
started. Whether the process exits or is killed, and whether a client runs at all,
is left open; no interruption and no failure of `poll` is relied on.
`EventuallyStopped` assumes that the process does not run out of descriptors for
good, because `threadFn` goes back to `poll` without looking at the eventfd when
`accept` fails (`stats.cpp:170`).

`EventuallyFreed` excepts the operations the code gives up on: `devPtr` throws
outside the `try` block, or the handler's own attempt to enqueue the cleanup fails.

## 4. Findings

1. `docs/driver.rst:41` says registrations "will only increment the driver count if
   they succeed". A refused `hipFileBufRegister` leaves a driver that was closed
   open (`OnlySuccessfulRegisterOpens`).
2. The maximum I/O size is not applied to an asynchronous operation on a stream
   that fixes all three parameters: the cap is in `async_io_bind_params`, which is
   not enqueued then, while the bounce buffer is sized by the capped value
   (`MaxIoSizeRespected`). `CopiesStayInside` holds in all other cases and excepts
   exactly this one, by the name `UncheckedSize`.
3. `include/hipfile.h:520` documents negative results as -1 with errno, or a
   negated `hipFileOpError_t`. A HIP error is returned as the negated `hipError_t`
   (`ReturnIsDocumented`).

Met while reading, stated by no run: the last close keeps the stream map and the
batch contexts (`state.cpp:245`), where `include/hipfile.h:574` says the library's
state will be destroyed; and only `ENODEV` and `EREMOTEIO` lead to a retry in the fallback
(`backend/fastpath.cpp:221`), where `CHANGELOG.md:15` says the fast path falls back "if a failure occurs".
`file.h:121` says a file has no unbuffered descriptor "if there was an error
obtaining" it, where only `EINVAL` has that effect and every other error refuses
the registration (`file.cpp:57`). `connectServer` reports success when it received
no descriptor (`stats.cpp:216`), so a client that meets a server on its way out
fails later, at the report; and a blocking wait for the process that a signal
interrupts is taken for a process that cannot be accessed (`stats.cpp:193`).
`hipFileDriverClose` tests and decrements the count under two locks
(`hipfile.cpp:264`), so of two closes that race on a count of one both succeed and
one decrements nothing, where `include/hipfile.h:572` says each call decrements; it
takes a thread that closes more often than it opened, and `OpenersCounted` bounds what that
costs the others. `HIPFILE_ALLOW_COMPAT_MODE=false` does not bind asynchronous I/O, which
always uses the fallback (`hipfile.cpp:427`), where `environment.h:24` says that I/O
the AIS path cannot complete will be rejected; `CompatModeRespected` is therefore
stated of synchronous calls. The comment at `backend/fastpath.cpp:31` asks for a
file opened with `O_DIRECT` and for a `buffer_offset` that is a multiple of the
alignment, where the code accepts any file with an unbuffered descriptor and tests
address plus offset. On NVIDIA, a status or an error code newer than the library
turns into `hipFileInternalError` after cuFile has acted: the events of that call
are not handed out again, although only some of them were stored
(`EventsDeliveredOnce` names the case), while a read or write returns the
unknown code itself. `examples/aiscp` copies an empty source by leaving the
destination as it is, and reports success when its `ftruncate` failed.

## 5. Proofs

**`DriverState_proofs`**, for any sets of threads, operations, descriptors,
addresses, pointers and streams. Assumed: threads, operations and pointers are
finite sets (cardinalities are taken), threads and operations are disjoint, the
null values are none of the objects, the bound on the count is positive and the
bound on excess closes a natural number. The
inductive invariant `IInv` is `TypeOK` with `RegistryConsistent`,
`ClosedMeansEmpty`, `Ledger`, `PinnedStaysRegistered` and
`IdleHoldsNothing`: a thread outside an I/O call references no file. `Ledger` is
`OpenersCounted` and that the opens outstanding are a finite set, whose
members are pairs of a thread and a number; `OpenOne` and `CloseOne` say that a step adds
or removes one of them, and `OpensWithin` that a thread has no more opens than there
are outstanding: with more opens than excess closes, the count is above zero and the
maps are not cleared, which `PinnedStaysRegistered` needs at each close.
`IdleHoldsNothing` is what makes that property inductive, since a thread that opens the
driver while idle would otherwise acquire the obligation for a file it already
holds. `RegistryConsistent` is what gives `use_count` its meaning: the lemmas
`DeregisterFileExact` and `DeregisterBufferExact` show that the tests
`2 < use_count` and `1 < use_count` pass exactly when no I/O holds the object, and
all theorems about deregistration rest on them.

**`Batch_proofs`**, for any finite set of operation objects and any threads,
contexts and files, and any size_t modulus above the maximum capacity: types,
`WithinCapacity` and `AllOrNone`. The capacity check happens steps before the
insertion, so `WithinCapacity` is inductive only with `ContextExclusive` (one
submission at a time per context), `StillFits` (what that submission was granted
still fits) and `PendingPrivate` (its operations are in no other set).
`RoomExact` shows the unsigned difference to be the true one. `AcceptedAreValid`
needs `Validated` on top: also the operations of submissions in progress were made
for valid requests. An address that a failed submission gives back may be taken by
another one, and it is `PendingPrivate` that keeps the two apart.

**`AsyncMonitor_proofs`**, for any number of operations, HIP streams and Stream
objects, with or without fixed parameters. Assumed: Stream objects are no
operations, and the null values are none of the objects. Proved: types, `NoUseAfterFree`,
`DestroyedOnce`, `PublishedReleases`, `StreamSerial`, and the refinement
`ImplementsLifecycle`. None of them is inductive. `IInv` says who owns an operation at every
moment: its submitter until it returns (`Born`), the containers of the monitor or
the completion thread (`Owned`), the tasks in a stream (`TasksOfLive`), of which
one at most is its cleanup (`Cleanups`). The cleanup still reads the operation
after `completeOp` has handed it over; that this is safe rests on `Drained`: whoever
is in `hipHostFree` for an operation waits for each of its tasks still in a stream.
`Told` says where an operation stands between completion and publication, which
is the middle of the refinement mapping. `SerialInv` (one owner of a Stream's lock,
whose tasks are the last in the HIP stream, and whose tasks are contiguous there)
is proved separately, on top. The refinement takes one lemma per group of steps and
shows each to be a named step of `AsyncLifecycle` or none.

**`AsyncOp_proofs`**, for every length of file and buffer, largest size and limit
of a transfer, and every value the application writes into its variables before they are
bound. Proved: types, `BoundBeforeUse`, `CopiesStayInside`, `ReportedWasMoved`.
`IInv` says of the file, the bounce buffer and the GPU buffer exactly which bytes
they hold as a function of the two counters (`Reading`, `Writing`), which of the
possible rests of the task list is left (`Queue`), that nothing moved before binding or
after a refusal (`Fresh`), and that what is bound was checked, save
`UncheckedSize` (`Checked`). The counters alone do not suffice: a copy that fails
stops the later ones only through the value it leaves in
`bytes_transferred_internal`, so the invariant says which values that variable can
have before each task.

**`SyncIO_proofs`**, for every allocation, address width, file length, chunk, limit,
alignment, size and offset that satisfies `AllocationAssumption` and
`SizesAssumption`: the allocation does not wrap, the limit is a multiple of the
alignments (section 2), and `Extent`, the number of cells modelled, bounds
the end of every request. Proved: types and all five properties. `Moved(n)`, the heart
of the invariant, says that the first n bytes of the request are in place and, for
a read, no others. `Progress` ties it to the loop of the fallback, with the chunk
that was written and not yet synchronized; `Memory` says
that whatever moved lies inside a request `paramsValid` accepted, which
is what `StaysInBuffer` follows from; `Chosen` says that only configured
backends were handed the call, the retry included.

**`FileLifecycle_proofs`**, for any threads, files, descriptor numbers and
addresses; threads and addresses are assumed disjoint, because the proof treats an
`UnregisteredFile` on a stack and a `File` at an address alike, as carriers of
descriptors. Proved: types, `OwnedExactlyOnce`, `BothReachTheFile`. `Owned` says that
each carrier has one of four shapes, that no two manage the same number and that the
library's open descriptors are all managed; `Progress` says how far each
construction is, and `Referenced` that the Files in memory are those somebody
references. The last one is needed because a File is destroyed by whoever drops
the last reference, which may be a map or an I/O.

**`StatsServer_proofs`**, for any clients, counters, backlog and level: types,
`WaitingReportIsFinal` and `NobodyForgotten`. `ThreadHasWork` says that between
`poll` and `accept` the queue does not run empty, and `ReadsAreFinal` that a client
without `-i` reads only after the exit, and that what it has read is still there.

**`NvidiaApi_proofs`**, for batches of any size, any statuses cuFile may report, any
unknown error code, any properties and any width of unsigned int. Assumed (`ApiAssumption`,
`UIntAssumption`): the unknown code is one the library does not list, the names
in `SomeErrors` are errors, the properties reported have the fields and widths of
cuFile's structure, `UIntMax` is a natural number. Proved: types and all
three properties. The tables come first: `HipErrors` and `CuErrors` say that each
switch over error codes lists every code, that its result has the same number on the other side, and
that the other switch takes it back; `SameText` follows for numbers that nothing
converts. `DescriptorBack`, `ParameterSwitches`, `PropertiesBack`, `ConvertedRequest` and
`EventBack` say the same of the other conversions, and that exactly the values without a name are
refused. `IInv` has two parts. `LastInv` is about the last call; types, `AnswersAgree`
and `MeaningKept` are inductive once each call is shown to establish them.
`BatchInv` is about the batch: `Numbering` (the cookies of accepted
operations are 1 to their number), `Everywhere` and `Counted` (the two halves of
`EventsDeliveredOnce`) and `Separate`: the cookies in the queue, among the events
waiting and among the lost ones are all different. Without `Separate` the count
is not inductive, since lost events are a set, in which two equal events would
be one.

Three conventions serve the proofs. A set of those for which something holds is a
variable of type set (`pins`, `published`), since the provers handle it better than
a function to BOOLEAN. A type is stated as membership in a function set wherever the
domain is fixed. A switch is a record from names to names, which the provers
expand case by case; the base of the error numbers stays folded.

**Only model-checked.** Liveness (`EventuallyFreed`, `EventuallyJoined`,
`EventuallyStopped`, `ClientFinishes`) rests on fairness, which is outside the
prover's reach; every other property of a passing run is a theorem. The violations
of section 4 are counterexamples and need no proof.

## 6. Not modelled

The characters of environment variables and mount options (only the cases the
parsers tell apart); a target of ais-stats that forks with the listening socket
inherited; statistics added while the process destroys its static objects; memory
that is not device memory and the validation of flags (the models let any
registration be refused); calls that are "Not Implemented"; on NVIDIA the
conversions that no code calls (driver flags, RDMA descriptors, `toCUfileFileHandleType`) and the two calls
that pass on one value (`hipFileHandleDeregister`, `hipFileUseCount`);
`hipFileGetVersion`, which stores constants; the example program, a client of the
library; logging and message texts; the tests for a disabled backend at the start of
both `_io_impl` (`backend/fallback.cpp:75`, `backend/fastpath.cpp:169`), which the
scores and the retry's own test leave nothing to do, so that `CompatModeRespected` holds without them; the order of unsynchronized memory accesses
between host and device.

## 7. Plan

What is left is a composition of `DriverState` and `AsyncMonitor`: that
deregistration after a stream synchronization succeeds, and what a close does to
operations in flight.
