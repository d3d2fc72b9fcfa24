----------------------------- MODULE DriverState -----------------------------
(***************************************************************************)
(* The library state behind the public hipFile calls (state.cpp), with the *)
(* file, buffer and stream registries it owns (file.cpp, buffer.cpp,       *)
(* stream.cpp), driven by application threads through hipfile.cpp.         *)
(*                                                                         *)
(* Every DriverState method runs under state_mutex, so one method is one   *)
(* step.  A public call that makes several of them, or that keeps a        *)
(* shared_ptr while it does I/O, is several steps of its thread:           *)
(*                                                                         *)
(*   hipFileDriverClose        getRefCount, then decrRefCount              *)
(*   hipFileRead / Write       getFileAndBuffer, I/O, release              *)
(*   hipFileReadAsync / Write  getRefCount, then ensureInitialized, or     *)
(*                             getFileBufferAndStream, submission, release *)
(*                                                                         *)
(* A submitted async operation keeps its own references to the file and    *)
(* the buffer until AsyncMonitor::completeOp resets them; how it gets      *)
(* there is the subject of AsyncMonitor.                                   *)
(*                                                                         *)
(* File and Buffer objects are named by their addresses.  The handle given *)
(* to the application IS the address of the File (IFile::handle), so an    *)
(* address freed by the last shared_ptr can come back as a new handle.     *)
(***************************************************************************)
EXTENDS Integers, FiniteSets

CONSTANTS
    Threads,   \* application threads
    Ops,       \* async operations that can be outstanding
    Fds,       \* client file descriptors
    Handles,   \* addresses a File object can have
    Bufs,      \* device pointers
    BufObjs,   \* addresses a Buffer object can have
    Streams,   \* hipStream_t values
    MaxRef,    \* bound on ref_count (an int64_t in the code)
    MaxExcess, \* bound on the closes of threads that have nothing to close
    NoFile,    \* "no File object"
    NoFd,      \* "no descriptor"
    NoBuf      \* "no Buffer object"

ASSUME FiniteAssumption ==
    /\ IsFiniteSet(Threads) /\ IsFiniteSet(Ops) /\ IsFiniteSet(Bufs)
    /\ Threads \cap Ops = {}
ASSUME NullAssumption ==
    NoFile \notin Handles /\ NoFd \notin Fds /\ NoBuf \notin BufObjs
ASSUME MaxRefAssumption == MaxRef \in Nat \ {0} /\ MaxExcess \in Nat

VARIABLES
    ref_count,    \* DriverState::ref_count
    from_fd,      \* FileMap::from_fd: client fd -> File, NoFile when absent
    from_fh,      \* FileMap::from_fh: handle -> clientFd() of the File at that
                  \* address, NoFd when absent
    from_ptr,     \* BufferMap::from_ptr: device pointer -> Buffer
    from_stream,  \* StreamMap::from_ptr: its keys
    file_of,      \* the File that a thread's stack or an async op references
    buffer_of,    \* the Buffer that it references
    pc,           \* where each thread is in its public call
    last,         \* the driver or registry call that returned last, and its result
    opens,        \* history: how often each thread's calls have opened the
                  \* driver, explicitly or implicitly, without its closing it
    excess        \* history: closes by threads with no open left to close

registry == <<from_fd, from_fh, from_ptr, from_stream>>
ledger   == <<opens, excess>>
vars     == <<ref_count, registry, file_of, buffer_of, pc, last, ledger>>

Holders == Threads \cup Ops

RegisteredHandles == {h \in Handles : from_fh[h] # NoFd}

Calls   == {"none", "DriverOpen", "DriverClose", "HandleRegister", "HandleDeregister",
            "BufRegister", "BufDeregister", "StreamRegister", "StreamDeregister"}
Results == {"Success", "NotInitialized", "AlreadyRegistered", "NotRegistered",
            "Outstanding", "Failed"}
PCs     == {"idle", "closing", "io", "async_init", "async_lookup", "async_io"}

(* The public call c of a thread returned r. *)
Returns(c, r) == last' = [call |-> c, result |-> r]

-----------------------------------------------------------------------------
(* shared_ptr use counts.  A File is referenced by both maps of FileMap    *)
(* and by every holder; a Buffer by from_ptr and by every holder.          *)

FileHolders(h)   == {x \in Holders : file_of[x] = h}
BufferHolders(b) == {x \in Holders : buffer_of[x] = b}

FileUseCount(h) ==
    Cardinality({fd \in Fds : from_fd[fd] = h})
        + Cardinality({h} \cap RegisteredHandles) + Cardinality(FileHolders(h))

BufferUseCount(b) ==
    Cardinality({p \in Bufs : from_ptr[p] = b}) + Cardinality(BufferHolders(b))

(* The opens that nobody has closed: the n-th of thread t is <<t, n>>. *)
OutstandingOf(o) == UNION {{t} \X (1..o[t]) : t \in Threads}
Outstanding      == OutstandingOf(opens)

(* Threads in the middle of a close with no open left to close. *)
OverClosing == {t \in Threads : pc[t] = "closing" /\ opens[t] = 0}

(* An address operator new may return: one no shared_ptr keeps alive. *)
FreeFile(h) ==
    from_fh[h] = NoFd /\ FileHolders(h) = {} /\ \A fd \in Fds : from_fd[fd] # h
FreeBuffer(b) ==
    BufferHolders(b) = {} /\ \A p \in Bufs : from_ptr[p] # b

-----------------------------------------------------------------------------
Init ==
    /\ ref_count = 0
    /\ from_fd = [fd \in Fds |-> NoFile]
    /\ from_fh = [h \in Handles |-> NoFd]
    /\ from_ptr = [p \in Bufs |-> NoBuf]
    /\ from_stream = {}
    /\ file_of = [x \in Holders |-> NoFile]
    /\ buffer_of = [x \in Holders |-> NoBuf]
    /\ pc = [t \in Threads |-> "idle"]
    /\ last = [call |-> "none", result |-> "Success"]
    /\ opens = [t \in Threads |-> 0]
    /\ excess = 0

-----------------------------------------------------------------------------
(* Opening and closing the driver *)

incrRefCount == ref_count' = ref_count + 1

(* hipFileDriverOpen. *)
DriverOpen(t) ==
    /\ pc[t] = "idle"
    /\ ref_count < MaxRef
    /\ incrRefCount
    /\ opens' = [opens EXCEPT ![t] = @ + 1]
    /\ Returns("DriverOpen", "Success")
    /\ UNCHANGED <<registry, file_of, buffer_of, pc, excess>>

(* hipFileDriverClose, first half: getRefCount() > 0 decides.  Nothing     *)
(* stops a thread that has not opened the driver; MaxExcess bounds it.     *)
DriverCloseCheck(t) ==
    /\ pc[t] = "idle"
    /\ \/ /\ ref_count > 0
          /\ opens[t] = 0 => excess + Cardinality(OverClosing) < MaxExcess
          /\ pc' = [pc EXCEPT ![t] = "closing"]
          /\ UNCHANGED last
       \/ /\ ref_count = 0
          /\ Returns("DriverClose", "NotInitialized")
          /\ UNCHANGED pc
    /\ UNCHANGED <<ref_count, registry, file_of, buffer_of, ledger>>

(* decrRefCount that trusts its caller and has no floor at zero. *)
decrRefCount_NoFloor ==
    /\ ref_count' = ref_count - 1
    /\ UNCHANGED registry

(* decrRefCount that clears one of FileMap's two maps only. *)
decrRefCount_KeepsHandles ==
    /\ ref_count' = IF ref_count > 0 THEN ref_count - 1 ELSE 0
    /\ IF ref_count' = 0
       THEN /\ from_fd' = [fd \in Fds |-> NoFile]
            /\ from_ptr' = [p \in Bufs |-> NoBuf]
       ELSE UNCHANGED <<from_fd, from_ptr>>
    /\ UNCHANGED <<from_fh, from_stream>>

(* FileMap::clear and BufferMap::clear *)
ClearFiles   == from_fd' = [fd \in Fds |-> NoFile] /\ from_fh' = [h \in Handles |-> NoFd]
ClearBuffers == from_ptr' = [p \in Bufs |-> NoBuf]

(* DriverState::decrRefCount: the count stays at zero when another close   *)
(* got there first, and at zero the file and buffer maps are cleared.  The *)
(* stream map is not.                                                      *)
decrRefCount ==
    /\ ref_count' = IF ref_count > 0 THEN ref_count - 1 ELSE 0
    /\ IF ref_count' = 0
       THEN ClearFiles /\ ClearBuffers
       ELSE UNCHANGED <<from_fd, from_fh, from_ptr>>
    /\ UNCHANGED from_stream

(* hipFileDriverClose, second half. *)
DriverCloseDecr(t) ==
    /\ pc[t] = "closing"
    /\ decrRefCount
    /\ pc' = [pc EXCEPT ![t] = "idle"]
    /\ opens' = [opens EXCEPT ![t] = IF @ > 0 THEN @ - 1 ELSE 0]
    /\ excess' = IF opens[t] > 0 THEN excess ELSE excess + 1
    /\ Returns("DriverClose", "Success")
    /\ UNCHANGED <<file_of, buffer_of>>

(* ensureInitialized that forgets to count, and one that resets the count. *)
ensureInitialized_Skipped == UNCHANGED ref_count
ensureInitialized_Resets == ref_count' = 1

(* ensureInitialized, and the first lines of registerFile / registerBuffer *)
ensureInitialized == ref_count' = IF ref_count = 0 THEN 1 ELSE ref_count

(* The implicit open of a call of t's on a closed driver is t's to close    *)
(* (driver.rst).                                                            *)
ImplicitOpen(t) ==
    /\ opens' = IF ref_count = 0 THEN [opens EXCEPT ![t] = @ + 1] ELSE opens
    /\ UNCHANGED excess

-----------------------------------------------------------------------------
(* Registration *)

(* hipFileHandleRegister: the UnregisteredFile is built (statx, fcntl, the *)
(* second open) before the lock is taken; when that fails the driver state *)
(* is never reached.                                                       *)
HandleRegisterFails(t) ==
    /\ pc[t] = "idle"
    /\ Returns("HandleRegister", "Failed")
    /\ UNCHANGED <<ref_count, registry, file_of, buffer_of, pc, ledger>>

(* FileMap::registerFile. *)
registerFile(fd) ==
    \/ /\ from_fd[fd] # NoFile
       /\ Returns("HandleRegister", "AlreadyRegistered")
       /\ UNCHANGED <<from_fd, from_fh>>
    \/ /\ from_fd[fd] = NoFile
       /\ \E h \in Handles :
             /\ FreeFile(h)
             /\ from_fd' = [from_fd EXCEPT ![fd] = h]
             /\ from_fh' = [from_fh EXCEPT ![h] = fd]
       /\ Returns("HandleRegister", "Success")

(* hipFileHandleRegister, once it has its UnregisteredFile. *)
HandleRegister(t, fd) ==
    /\ pc[t] = "idle"
    /\ ensureInitialized
    /\ ImplicitOpen(t)
    /\ registerFile(fd)
    /\ UNCHANGED <<from_ptr, from_stream, file_of, buffer_of, pc>>

FileOperationsOutstanding_OffByOne(h) == 3 < FileUseCount(h)

(* FileMap::deregisterFile finds operations outstanding: more than the two *)
(* references of its own maps.                                             *)
FileOperationsOutstanding(h) == 2 < FileUseCount(h)

(* hipFileHandleDeregister: deregisterFile.  It returns nothing; "result"  *)
(* is the exception it swallows.                                           *)
HandleDeregister(t, h) ==
    /\ pc[t] = "idle"
    /\ \/ /\ ref_count = 0
          /\ Returns("HandleDeregister", "NotInitialized")
          /\ UNCHANGED <<from_fd, from_fh>>
       \/ /\ ref_count # 0
          /\ from_fh[h] = NoFd
          /\ Returns("HandleDeregister", "NotRegistered")
          /\ UNCHANGED <<from_fd, from_fh>>
       \/ /\ ref_count # 0
          /\ from_fh[h] # NoFd
          /\ FileOperationsOutstanding(h)
          /\ Returns("HandleDeregister", "Outstanding")
          /\ UNCHANGED <<from_fd, from_fh>>
       \/ /\ ref_count # 0
          /\ from_fh[h] # NoFd
          /\ ~FileOperationsOutstanding(h)
          /\ from_fd' = [from_fd EXCEPT ![from_fh[h]] = NoFile]
          /\ from_fh' = [from_fh EXCEPT ![h] = NoFd]
          /\ Returns("HandleDeregister", "Success")
    /\ UNCHANGED <<ref_count, from_ptr, from_stream, file_of, buffer_of, pc, ledger>>

(* BufferMap::registerBuffer: the Buffer constructor may refuse the pointer *)
(* (null, not device memory, bad range).                                    *)
registerBuffer(p) ==
    \/ /\ from_ptr[p] # NoBuf
       /\ Returns("BufRegister", "AlreadyRegistered")
       /\ UNCHANGED from_ptr
    \/ /\ from_ptr[p] = NoBuf
       /\ Returns("BufRegister", "Failed")
       /\ UNCHANGED from_ptr
    \/ /\ from_ptr[p] = NoBuf
       /\ \E b \in BufObjs :
             /\ FreeBuffer(b)
             /\ from_ptr' = [from_ptr EXCEPT ![p] = b]
       /\ Returns("BufRegister", "Success")

(* hipFileBufRegister: the driver is initialized before the map looks at   *)
(* the request.                                                            *)
BufRegister(t, p) ==
    /\ pc[t] = "idle"
    /\ ensureInitialized
    /\ ImplicitOpen(t)
    /\ registerBuffer(p)
    /\ UNCHANGED <<from_fd, from_fh, from_stream, file_of, buffer_of, pc>>

BufferOperationsOutstanding_OffByOne(p) == 2 < BufferUseCount(from_ptr[p])

(* BufferMap::deregisterBuffer: more than the map's own reference. *)
BufferOperationsOutstanding(p) == 1 < BufferUseCount(from_ptr[p])

(* DriverState::deregisterBuffer. *)
deregisterBuffer(p) ==
    \/ /\ ref_count = 0
       /\ Returns("BufDeregister", "NotInitialized")
       /\ UNCHANGED from_ptr
    \/ /\ ref_count # 0
       /\ from_ptr[p] = NoBuf
       /\ Returns("BufDeregister", "NotRegistered")
       /\ UNCHANGED from_ptr
    \/ /\ ref_count # 0
       /\ from_ptr[p] # NoBuf
       /\ BufferOperationsOutstanding(p)
       /\ Returns("BufDeregister", "Outstanding")
       /\ UNCHANGED from_ptr
    \/ /\ ref_count # 0
       /\ from_ptr[p] # NoBuf
       /\ ~BufferOperationsOutstanding(p)
       /\ from_ptr' = [from_ptr EXCEPT ![p] = NoBuf]
       /\ Returns("BufDeregister", "Success")

(* hipFileBufDeregister. *)
BufDeregister(t, p) ==
    /\ pc[t] = "idle"
    /\ deregisterBuffer(p)
    /\ UNCHANGED <<ref_count, from_fd, from_fh, from_stream,
                   file_of, buffer_of, pc, ledger>>

(* DriverState::registerStream neither needs nor starts an initialized     *)
(* driver.  Bad flags and HIP errors fail.                                 *)
registerStream(s) ==
    \/ /\ s \notin from_stream
       /\ from_stream' = from_stream \cup {s}
       /\ Returns("StreamRegister", "Success")
    \/ /\ Returns("StreamRegister", "Failed")
       /\ UNCHANGED from_stream

(* hipFileStreamRegister. *)
StreamRegister(t, s) ==
    /\ pc[t] = "idle"
    /\ registerStream(s)
    /\ UNCHANGED <<ref_count, from_fd, from_fh, from_ptr,
                   file_of, buffer_of, pc, ledger>>

(* hipFileStreamDeregister: deregisterStream. *)
StreamDeregister(t, s) ==
    /\ pc[t] = "idle"
    /\ from_stream' = from_stream \ {s}
    /\ Returns("StreamDeregister", IF s \in from_stream THEN "Success" ELSE "Failed")
    /\ UNCHANGED <<ref_count, from_fd, from_fh, from_ptr,
                   file_of, buffer_of, pc, ledger>>

-----------------------------------------------------------------------------
(* I/O: the references it takes and drops *)

(* BufferMap::getBuffer: the registered Buffer, or a temporary one. *)
getBuffer(p) ==
    IF from_ptr[p] # NoBuf THEN {from_ptr[p]} ELSE {b \in BufObjs : FreeBuffer(b)}

(* getFileAndBuffer finds both; t now references them. *)
Lookup(t, h, p, next) ==
    /\ ref_count # 0
    /\ from_fh[h] # NoFd
    /\ \E b \in getBuffer(p) : buffer_of' = [buffer_of EXCEPT ![t] = b]
    /\ file_of' = [file_of EXCEPT ![t] = h]
    /\ pc' = [pc EXCEPT ![t] = next]

(* It throws instead: DriverNotInitialized, FileNotRegistered, or what the  *)
(* constructor of a temporary object throws.  The call returns an error.    *)
LookupThrows(t, h, temporary) ==
    /\ ref_count = 0 \/ from_fh[h] = NoFd \/ temporary
    /\ pc' = [pc EXCEPT ![t] = "idle"]
    /\ UNCHANGED <<file_of, buffer_of>>

(* hipFileIo: getFileAndBuffer, then the backend runs with both. *)
IoBegin(t, h, p) ==
    /\ pc[t] = "idle"
    /\ \/ Lookup(t, h, p, "io")
       \/ LookupThrows(t, h, from_ptr[p] = NoBuf)
    /\ UNCHANGED <<ref_count, registry, last, ledger>>

(* hipFileIo returns, or the hipFileIOAsync that submitted an operation    *)
(* does: the shared_ptrs on the thread's stack go away.                    *)
IoEnd(t) ==
    /\ pc[t] = "io"
    /\ file_of' = [file_of EXCEPT ![t] = NoFile]
    /\ buffer_of' = [buffer_of EXCEPT ![t] = NoBuf]
    /\ pc' = [pc EXCEPT ![t] = "idle"]
    /\ UNCHANGED <<ref_count, registry, last, ledger>>

(* hipFileIOAsync, first step: getRefCount() == 0? *)
IOAsyncCheck(t) ==
    /\ pc[t] = "idle"
    /\ pc' = [pc EXCEPT ![t] = IF ref_count = 0 THEN "async_init" ELSE "async_lookup"]
    /\ UNCHANGED <<ref_count, registry, file_of, buffer_of, last, ledger>>

(* hipFileIOAsync on a closed driver: it is opened and the call refused. *)
IOAsyncInit(t) ==
    /\ pc[t] = "async_init"
    /\ ensureInitialized
    /\ ImplicitOpen(t)
    /\ pc' = [pc EXCEPT ![t] = "idle"]
    /\ UNCHANGED <<registry, file_of, buffer_of, last>>

(* hipFileIOAsync: checkNull, then getFileBufferAndStream.  The driver may *)
(* have been closed since the check.                                       *)
IOAsyncLookup(t, h, p, s) ==
    /\ pc[t] = "async_lookup"
    /\ \/ Lookup(t, h, p, "async_io")
       \/ LookupThrows(t, h, from_ptr[p] = NoBuf \/ s \notin from_stream)
    /\ UNCHANGED <<ref_count, registry, last, ledger>>

(* Fallback::async_io: the AsyncOp copies the thread's references, or the  *)
(* request is refused (region, GPU, allocation) or empty.                  *)
IOAsyncSubmit(t) ==
    /\ pc[t] = "async_io"
    /\ \/ \E o \in Ops :
            /\ file_of[o] = NoFile
            /\ file_of' = [file_of EXCEPT ![o] = file_of[t]]
            /\ buffer_of' = [buffer_of EXCEPT ![o] = buffer_of[t]]
       \/ UNCHANGED <<file_of, buffer_of>>
    /\ pc' = [pc EXCEPT ![t] = "io"]
    /\ UNCHANGED <<ref_count, registry, last, ledger>>

(* AsyncMonitor::completeOp resets the operation's references. *)
completeOp(o) ==
    /\ file_of[o] # NoFile
    /\ file_of' = [file_of EXCEPT ![o] = NoFile]
    /\ buffer_of' = [buffer_of EXCEPT ![o] = NoBuf]
    /\ UNCHANGED <<ref_count, registry, pc, last, ledger>>

-----------------------------------------------------------------------------
Next ==
    \/ \E t \in Threads :
         \/ DriverOpen(t)
         \/ DriverCloseCheck(t)
         \/ DriverCloseDecr(t)
         \/ HandleRegisterFails(t)
         \/ \E fd \in Fds : HandleRegister(t, fd)
         \/ \E h \in Handles : HandleDeregister(t, h)
         \/ \E p \in Bufs : BufRegister(t, p) \/ BufDeregister(t, p)
         \/ \E s \in Streams : StreamRegister(t, s) \/ StreamDeregister(t, s)
         \/ \E h \in Handles, p \in Bufs : IoBegin(t, h, p)
         \/ \E h \in Handles, p \in Bufs, s \in Streams : IOAsyncLookup(t, h, p, s)
         \/ IoEnd(t)
         \/ IOAsyncCheck(t)
         \/ IOAsyncInit(t)
         \/ IOAsyncSubmit(t)
    \/ \E o \in Ops : completeOp(o)

Spec == Init /\ [][Next]_vars

-----------------------------------------------------------------------------
(* Properties *)

TypeOK ==
    /\ ref_count \in Nat
    /\ from_fd \in [Fds -> Handles \cup {NoFile}]
    /\ from_fh \in [Handles -> Fds \cup {NoFd}]
    /\ from_ptr \in [Bufs -> BufObjs \cup {NoBuf}]
    /\ from_stream \in SUBSET Streams
    /\ file_of \in [Holders -> Handles \cup {NoFile}]
    /\ buffer_of \in [Holders -> BufObjs \cup {NoBuf}]
    /\ pc \in [Threads -> PCs]
    /\ last \in [call : Calls, result : Results]
    /\ opens \in [Threads -> Nat]
    /\ excess \in Nat

(* FileMap's two maps describe the same files: an fd's File is found under *)
(* its handle, has that client fd, and every handle's File is the one its  *)
(* client fd leads to.  deregisterFile's test 2 < use_count depends on it. *)
RegistryConsistent ==
    /\ \A fd \in Fds : from_fd[fd] # NoFile => from_fh[from_fd[fd]] = fd
    /\ \A h \in RegisteredHandles : from_fd[from_fh[h]] = h

(* A driver with reference count zero has no file and no buffer registered: *)
(* every path that registers first initializes, and decrRefCount clears.    *)
ClosedMeansEmpty ==
    ref_count = 0 => /\ RegisteredHandles = {}
                     /\ \A fd \in Fds : from_fd[fd] = NoFile
                     /\ \A p \in Bufs : from_ptr[p] = NoBuf

(* hipfile.h: opens and closes are counted.  Every open, explicit or        *)
(* implicit, counts until its thread closes it, and the count has no other  *)
(* source; a close by a thread with no open left costs the others one open  *)
(* at most, although getRefCount and decrRefCount take the lock apart and   *)
(* the driver may be closed, and opened again, in between.  Without such    *)
(* closes the count is exact.                                               *)
OpenersCounted ==
    LET total == Cardinality(Outstanding)
    IN  ref_count <= total /\ total <= ref_count + excess

(* A thread with more opens to its name than there were excess closes finds *)
(* a file that it uses still registered, under its own handle, whatever the *)
(* other threads deregister and close: hipFileHandleDeregister refuses      *)
(* files with operations outstanding, and a counted driver is not cleared.  *)
PinnedStaysRegistered ==
    \A t \in Threads :
        (opens[t] > excess /\ file_of[t] # NoFile) => file_of[t] \in RegisteredHandles

(* A file or buffer some I/O still references leaves the registry only when *)
(* a close takes the count to zero; no deregistration ever removes it.      *)
LosesNothingInUse ==
    /\ \A h \in RegisteredHandles : FileHolders(h) # {} => from_fh'[h] = from_fh[h]
    /\ \A p \in Bufs : (from_ptr[p] # NoBuf /\ BufferHolders(from_ptr[p]) # {}) =>
         from_ptr'[p] = from_ptr[p]

InUseLeavesOnlyByClose == [][ref_count' # 0 => LosesNothingInUse]_vars

(* driver.rst: "These API calls will only increment the driver count if     *)
(* they succeed", of hipFileHandleRegister and hipFileBufRegister.          *)
OnlySuccessfulRegisterOpens ==
    [][ (last'.call \in {"HandleRegister", "BufRegister"} /\ last'.result # "Success"
           /\ last' # last) => ref_count' = ref_count ]_vars

=============================================================================
