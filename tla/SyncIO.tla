-------------------------------- MODULE SyncIO --------------------------------
(***************************************************************************)
(* One call of hipFileRead or hipFileWrite (hipfile.cpp) in a process with *)
(* some environment, on some file and buffer: the choice of a backend by   *)
(* score, the fast path (fastpath.cpp), the retry of BackendWithFallback   *)
(* (backend.cpp) and the chunked copy through host memory of the fallback  *)
(* (fallback.cpp), down to the value the application gets and the          *)
(* statistics.  What the environment, the file and the buffer allow is     *)
(* computed by the operators of Eligibility.                               *)
(*                                                                         *)
(* Bytes of the file and of the GPU's memory are named by where they were  *)
(* before the call; GPU addresses count from the start of the allocation.  *)
(* System calls and HIP calls may fail at every step, and a pread or       *)
(* pwrite may be short.                                                    *)
(***************************************************************************)
EXTENDS Eligibility

CONSTANTS
    MaxRw,       \* getMaxRwCount()
    Chunk,       \* DefaultChunkSize of the fallback's bounce buffer
    DioAligns,   \* memory and offset alignments statx may report
    PageAlign,   \* the alignment assumed when it reports none: 4096
    FileLen,     \* length of the file
    Extent,      \* bound on the bytes that are modelled, of the file and of memory
    Sizes, FileOffsets, BufferOffsets,    \* the arguments of the call
    Pointers, Lengths                     \* the arguments of hipFileBufRegister

(* The maximum transfer is a multiple of every alignment, and the           *)
(* allocation is aligned; every byte a request can name is modelled.        *)
ASSUME SizesAssumption ==
    /\ MaxRw \in Nat \ {0} /\ Chunk \in Nat \ {0} /\ FileLen \in Nat
    /\ PageAlign \in Nat \ {0} /\ DioAligns \subseteq Nat \X Nat
    /\ \A a \in {PageAlign} \cup UNION {{d[1], d[2]} : d \in DioAligns} :
         a > 0 => MaxRw % a = 0 /\ AllocBase % a = 0
    /\ Sizes \subseteq Nat /\ FileOffsets \subseteq Int /\ BufferOffsets \subseteq Int
    /\ Extent \in Nat /\ AllocLen <= Extent
    /\ \A n \in Sizes : n <= Extent /\ \A fo \in FileOffsets : fo + n <= Extent
    /\ Pointers \subseteq 0..(AllocLen - 1) /\ Lengths \subseteq 0..(AddrMod - 1)

VARIABLES
    pc,        \* "start", "file", "buffer", "call", then the steps of the call
    compat,    \* what the user asked for: "forced", "denied"
    config,    \* Configuration
    traits,    \* what the File says: unbuffered, accepted, mem, offset
    buffer,    \* the Buffer: where it starts and its length
    io_type,   \* IoType::Read or Write
    used,      \* the backends that were handed the call
    size,      \* the requested size, then the capped one
    offset,    \* file_offset
    boffset,   \* buffer_offset
    total,     \* total_io_bytes of the fallback's loop
    chunk,     \* what the pwrite of this turn of the loop wrote
    bounce,    \* the fallback's bounce buffer
    gpu, file, \* the bytes of the GPU's memory and of the file
    synced,    \* bytes of the file an fdatasync covers
    stats,     \* bytes the statistics were told of
    result,    \* what the application gets
    errno      \* this call has set errno

setup   == <<compat, config, traits, buffer>>
inputs  == <<setup, io_type, offset, boffset>>
request == <<inputs, used>>
data    == <<bounce, gpu, file, synced>>
vars    == <<pc, request, size, total, chunk, data, stats, result, errno>>

(* hipFileOpError_t values, hipError_t values: hipErrorInvalidValue is 1.   *)
hipFileInternalError == 5030
hipFileInvalidValue  == 5022
OpErrors  == {hipFileInternalError, hipFileInvalidValue}
HipErrors == {1, 2}

(* What a system call of the fast path may set errno to, as far as          *)
(* is_fallback_eligible tells them apart.                                   *)
RetryErrors == {"ENODEV", "EREMOTEIO"}
SysErrors   == RetryErrors \cup {"EIO"}

Counts == 0..Extent
Cells  == 0..Extent

Smaller(a, b) == IF a <= b THEN a ELSE b

paramsValid_NoLength(n) == offset >= 0 /\ boffset >= 0 /\ buffer.length > boffset

(* io.cpp *)
paramsValid(n) ==
    /\ offset >= 0
    /\ boffset >= 0
    /\ buffer.length > boffset
    /\ buffer.length - boffset >= n

(* n bytes from position a of src replace those from position b of dst. *)
CopyBytes(dst, b, src, a, n) ==
    [i \in DOMAIN dst |-> IF i \in b..(b + n - 1) THEN src[a + (i - b)] ELSE dst[i]]

(* At most n bytes from position p; a read also ends with the file. *)
ShortCounts(n, p) ==
    IF io_type = "Read" THEN 0..Smaller(n, IF p < FileLen THEN FileLen - p ELSE 0) ELSE 0..n

(* Where in the GPU's memory the request starts. *)
DevPos == buffer.ptr + boffset

(* statsAdd...: nothing unless the statistics are enabled. *)
statsAdd(n) == stats' = IF "stats" \in config THEN stats + n ELSE stats

Return(r) == result' = r /\ pc' = "returned"

-----------------------------------------------------------------------------
Init ==
    /\ pc = "start"
    /\ compat = {} /\ config = {}
    /\ traits = [unbuffered |-> FALSE, accepted |-> FALSE, align |-> <<0, 0>>]
    /\ buffer = [ptr |-> 0, length |-> 0]
    /\ io_type = "Read" /\ used = {}
    /\ size = 0 /\ offset = 0 /\ boffset = 0
    /\ total = 0 /\ chunk = 0
    /\ bounce = [i \in 0..(Chunk - 1) |-> <<"bounce", i>>]
    /\ gpu = [i \in Cells |-> <<"gpu", i>>]
    /\ file = [i \in Cells |-> <<"file", i>>]
    /\ synced = {}
    /\ stats = 0 /\ result = 0 /\ errno = FALSE

inCall == <<io_type, used, size, offset, boffset, total, chunk, data, stats, result, errno>>

(* The configuration is read once and kept. *)
Configure(env, symbols) ==
    /\ pc = "start"
    /\ config' = Configured(env, symbols)
    /\ compat' = (IF env.FORCE_COMPAT_MODE = "true" THEN {"forced"} ELSE {})
                 \cup (IF env.ALLOW_COMPAT_MODE = "false" THEN {"denied"} ELSE {})
    /\ pc' = "file"
    /\ UNCHANGED <<traits, buffer, inCall>>

(* The File of a registration that does not throw. *)
RegisterFile(f) ==
    /\ pc = "file"
    /\ ~RegisterFileThrows(f)
    /\ traits' = [unbuffered |-> hasUnbufferedFd(f), accepted |-> FileAccepted(f, config),
                  align |-> dioAlign(f, PageAlign)]
    /\ pc' = "buffer"
    /\ UNCHANGED <<compat, config, buffer, inCall>>

(* A Buffer, of device memory, for the pointer the call will be given:      *)
(* registered with a length, or temporary.                                  *)
RegisterBuffer(ptr, length) ==
    /\ pc = "buffer"
    /\ isValidBufferRegion(ptr, length)
    /\ buffer' = [ptr |-> ptr, length |-> length]
    /\ pc' = "call"
    /\ UNCHANGED <<compat, config, traits, inCall>>

TemporaryBuffer(ptr) ==
    /\ pc = "buffer"
    /\ buffer' = [ptr |-> ptr, length |-> TemporaryLength(ptr)]
    /\ pc' = "call"
    /\ UNCHANGED <<compat, config, traits, inCall>>

-----------------------------------------------------------------------------
(* Fallback::score and Fastpath::score. *)
FallbackScore == IF "fallback" \in config THEN 0 ELSE -1

Aligned(x, align) == align # 0 /\ x % align = 0

FastpathScore(n, fo, bo) ==
    IF /\ "fastpath" \in config
       /\ traits.unbuffered /\ traits.accepted
       /\ fo >= 0 /\ bo >= 0
       /\ Aligned(fo, traits.align[2]) /\ Aligned(n, traits.align[2])
       /\ Aligned(AllocBase + buffer.ptr + bo, traits.align[1])
    THEN 100 ELSE -1

(* hipFileRead / hipFileWrite and hipFileIo: the best backend that does not *)
(* refuse.                                                                  *)
hipFileIo(t, n, fo, bo) ==
    /\ pc = "call"
    /\ io_type' = t /\ size' = n /\ offset' = fo /\ boffset' = bo
    /\ \/ /\ FastpathScore(n, fo, bo) > FallbackScore
          /\ pc' = "fastpath" /\ used' = {"fastpath"}
          /\ UNCHANGED result
       \/ /\ FallbackScore >= 0 /\ FallbackScore >= FastpathScore(n, fo, bo)
          /\ pc' = "fallback" /\ used' = {"fallback"}
          /\ UNCHANGED result
       \/ /\ FallbackScore < 0 /\ FastpathScore(n, fo, bo) < 0
          /\ Return(-hipFileInternalError)
          /\ UNCHANGED used
    /\ UNCHANGED <<setup, total, chunk, data, stats, errno>>

-----------------------------------------------------------------------------
(* Fastpath::_io_impl under BackendWithFallback::io *)

FastpathInvalid ==
    /\ pc = "fastpath"
    /\ ~paramsValid(size)
    /\ Return(-hipFileInvalidValue)
    /\ UNCHANGED <<request, size, total, chunk, data, stats, errno>>

(* The driver moves n bytes between file and GPU. *)
Transfer(n) ==
    /\ IF io_type = "Read"
       THEN gpu' = CopyBytes(gpu, DevPos, file, offset, n) /\ UNCHANGED file
       ELSE file' = CopyBytes(file, offset, gpu, DevPos, n) /\ UNCHANGED gpu
    /\ UNCHANGED <<bounce, synced>>

(* hipAmdFileRead / hipAmdFileWrite succeeds. *)
FastpathDone(n) ==
    /\ pc = "fastpath"
    /\ paramsValid(size)
    /\ n \in ShortCounts(Smaller(size, MaxRw), offset)
    /\ Transfer(n)
    /\ statsAdd(n)
    /\ Return(n)
    /\ UNCHANGED <<request, size, total, chunk, errno>>

(* A retry that does not ask the fallback whether it is allowed to serve.   *)
Retries_NoScore(e) == e \in RetryErrors

Retries(e) == e \in RetryErrors /\ FallbackScore >= 0

(* It fails.  An error that is_fallback_eligible accepts is raised before    *)
(* any data moves (external); another may leave a prefix behind.  The retry  *)
(* needs a fallback that does not refuse.                                    *)
FastpathSystemError(e, n) ==
    /\ pc = "fastpath"
    /\ paramsValid(size)
    /\ n \in ShortCounts(Smaller(size, MaxRw), offset)
    /\ e \in RetryErrors => n = 0
    /\ Transfer(n)
    /\ IF Retries(e)
       THEN pc' = "fallback" /\ used' = used \cup {"fallback"} /\ UNCHANGED <<result, errno>>
       ELSE Return(-1) /\ errno' = TRUE /\ UNCHANGED used
    /\ UNCHANGED <<inputs, size, total, chunk, stats>>

FastpathHipError(h) ==
    /\ pc = "fastpath"
    /\ paramsValid(size)
    /\ Return(-h)
    /\ UNCHANGED <<request, size, total, chunk, data, stats, errno>>

-----------------------------------------------------------------------------
(* Fallback::_io_impl *)

(* Cap, then check, then map the bounce buffer. *)
FallbackBegin ==
    /\ pc = "fallback"
    /\ size' = Smaller(size, MaxRw)
    /\ \/ /\ ~paramsValid(size')
          /\ Return(-hipFileInvalidValue)
          /\ UNCHANGED errno
       \/ /\ paramsValid(size')
          /\ pc' = "loop"
          /\ UNCHANGED <<result, errno>>
       \/ /\ paramsValid(size')
          /\ Return(-1)
          /\ errno' = TRUE
    /\ UNCHANGED <<request, total, chunk, data, stats>>

Count_WholeChunk == Chunk
Count == Smaller(Chunk, size - total)

(* A short read or write counted as a full one. *)
EndTurn_IgnoresShort(n) ==
    /\ total' = total + Count
    /\ IF n = 0 \/ total' >= size
       THEN Return(total') /\ statsAdd(total')
       ELSE pc' = "loop" /\ UNCHANGED <<result, stats>>

(* After a turn of the loop that moved n bytes: go on, or return the total  *)
(* and count it.                                                            *)
EndTurn(n) ==
    /\ total' = total + n
    /\ IF n = 0 \/ total' >= size
       THEN Return(total') /\ statsAdd(total')
       ELSE pc' = "loop" /\ UNCHANGED <<result, stats>>

(* A turn that reads: pread into the bounce buffer, hipMemcpy to the GPU.   *)
(* (EINTR turns the loop without effect, unless nothing was asked for.)     *)
LoopRead(n) ==
    /\ pc = "loop"
    /\ io_type = "Read"
    /\ n \in ShortCounts(Count, offset + total)
    /\ n = 0 => Count = 0 \/ offset + total >= FileLen
    /\ bounce' = CopyBytes(bounce, 0, file, offset + total, n)
    /\ gpu' = CopyBytes(gpu, DevPos + total, bounce', 0, n)
    /\ EndTurn(n)
    /\ UNCHANGED <<request, size, chunk, file, synced, errno>>

(* A turn that writes: hipMemcpy from the GPU, synchronize, pwrite ... *)
LoopWrite(n) ==
    /\ pc = "loop"
    /\ io_type = "Write"
    /\ n \in ShortCounts(Count, offset + total)
    /\ bounce' = CopyBytes(bounce, 0, gpu, DevPos + total, Count)
    /\ file' = CopyBytes(file, offset + total, bounce', 0, n)
    /\ synced' = synced \ ((offset + total)..(offset + total + n - 1))
    /\ chunk' = n
    /\ pc' = "sync"
    /\ UNCHANGED <<request, size, total, gpu, stats, result, errno>>

(* ... and fdatasync. *)
LoopSync ==
    /\ pc = "sync"
    /\ synced' = {i \in Cells : file[i][1] = "gpu"}
    /\ EndTurn(chunk)
    /\ UNCHANGED <<request, size, chunk, bounce, gpu, file, errno>>

(* An interrupted fdatasync taken for a finished one. *)
LoopSyncInterrupted_Counts ==
    /\ pc = "sync"
    /\ EndTurn(chunk)
    /\ UNCHANGED <<request, size, chunk, data, errno>>

(* fdatasync is interrupted: the written chunk is not counted, and written  *)
(* again; with nothing asked for the loop's condition ends it.              *)
LoopSyncInterrupted ==
    /\ pc = "sync"
    /\ IF total < size
       THEN pc' = "loop" /\ UNCHANGED <<result, stats>>
       ELSE Return(total) /\ statsAdd(total)
    /\ UNCHANGED <<request, size, total, chunk, data, errno>>

(* The part moved before the error is counted in the statistics. *)
LoopSystemError_CountsPartial ==
    /\ pc \in {"loop", "sync"}
    /\ errno' = TRUE
    /\ Return(-1)
    /\ statsAdd(total)
    /\ UNCHANGED <<request, size, total, chunk, data>>

(* A system call of the loop fails for good: what was moved is forgotten.   *)
LoopSystemError ==
    /\ pc \in {"loop", "sync"}
    /\ errno' = TRUE
    /\ Return(-1)
    /\ UNCHANGED <<request, size, total, chunk, data, stats>>

(* hipMemcpy or hipStreamSynchronize fails; a read copies only what it got. *)
LoopHipError(h) ==
    /\ pc = "loop"
    /\ io_type = "Read" => Count > 0 /\ offset + total < FileLen
    /\ Return(-h)
    /\ UNCHANGED <<request, size, total, chunk, data, stats, errno>>

Next ==
    \/ \E env \in Environments, symbols \in SUBSET {"hipAmdFileRead", "hipAmdFileWrite"} :
         Configure(env, symbols)
    \/ \E f \in OpenFiles(DioAligns) : RegisterFile(f)
    \/ \E ptr \in Pointers :
         TemporaryBuffer(ptr) \/ \E length \in Lengths : RegisterBuffer(ptr, length)
    \/ \E t \in {"Read", "Write"}, n \in Sizes, fo \in FileOffsets, bo \in BufferOffsets :
         hipFileIo(t, n, fo, bo)
    \/ FastpathInvalid
    \/ \E n \in Counts : FastpathDone(n)
    \/ \E e \in SysErrors, n \in Counts : FastpathSystemError(e, n)
    \/ \E h \in HipErrors : FastpathHipError(h)
    \/ FallbackBegin
    \/ \E n \in Counts : LoopRead(n) \/ LoopWrite(n)
    \/ LoopSync
    \/ LoopSyncInterrupted
    \/ LoopSystemError
    \/ \E h \in HipErrors : LoopHipError(h)

Spec == Init /\ [][Next]_vars

-----------------------------------------------------------------------------
(* Properties *)

TypeOK ==
    /\ pc \in {"start", "file", "buffer", "call", "fastpath", "fallback", "loop", "sync",
               "returned"}
    /\ compat \subseteq {"forced", "denied"}
    /\ config \subseteq {"fastpath", "fallback", "unsupported", "stats"}
    /\ traits \in [unbuffered : BOOLEAN, accepted : BOOLEAN,
                   align : DioAligns \cup {<<0, 0>>, <<PageAlign, PageAlign>>}]
    /\ buffer \in [ptr : Pointers \cup {0}, length : 0..(AddrMod - 1)]
    /\ io_type \in {"Read", "Write"}
    /\ used \subseteq {"fastpath", "fallback"}
    /\ size \in Counts /\ total \in 0..size /\ chunk \in 0..size /\ stats \in Counts
    /\ result \in Counts \cup {-1} \cup {-x : x \in OpErrors \cup HipErrors}
    /\ synced \in SUBSET Cells
    /\ errno \in BOOLEAN

Success == pc = "returned" /\ result >= 0

(* The count a call returns is what arrived, from the right place to the    *)
(* right place, whichever backend or retry moved it and however often it    *)
(* was interrupted; a read changes nothing else.                            *)
ReturnedWasMoved ==
    Success =>
      IF io_type = "Read"
      THEN \A i \in Cells :
             gpu[i] = IF i \in DevPos..(DevPos + result - 1)
                      THEN <<"file", offset + (i - DevPos)>> ELSE <<"gpu", i>>
      ELSE \A i \in offset..(offset + result - 1) : file[i] = <<"gpu", DevPos + (i - offset)>>

(* What a write through the fallback returns has been made durable: every   *)
(* byte it counts was covered by an fdatasync after it was written.         *)
FallbackWriteIsDurable ==
    (Success /\ io_type = "Write" /\ "fallback" \in used) =>
      offset..(offset + result - 1) \subseteq synced

(* No path reads or writes GPU memory outside the Buffer or outside the HIP *)
(* allocation it was checked against, at whatever address and with whatever *)
(* length it was registered, even when the requested size is larger than    *)
(* what one call may transfer.                                              *)
StaysInBuffer ==
    LET Inside(i) == i \in buffer.ptr..(buffer.ptr + buffer.length - 1) /\ i < AllocLen
    IN  \A i \in Cells :
          /\ ~Inside(i) => gpu[i] = <<"gpu", i>>
          /\ file[i][1] = "gpu" => Inside(file[i][2])

(* environment.h: with HIPFILE_FORCE_COMPAT_MODE true every operation uses  *)
(* the POSIX path, with HIPFILE_ALLOW_COMPAT_MODE false none does: not by   *)
(* the choice of the backend and not by the retry of a fast path that fails.*)
CompatModeRespected ==
    /\ "forced" \in compat => "fastpath" \notin used
    /\ "denied" \in compat => "fallback" \notin used

(* Where enabled, the statistics count exactly the bytes of successful      *)
(* calls, where disabled nothing at all: nothing for                        *)
(* a failed fast path, and nothing twice when the fallback retries it.      *)
StatsMatchReturns ==
    pc = "returned" => stats = IF result >= 0 /\ "stats" \in config THEN result ELSE 0

(* hipfile.h: "if -1: System error (check errno for the specific error),    *)
(* else: Negative value of the related hipFileOpError_t".                   *)
ReturnIsDocumented ==
    (pc = "returned" /\ result < 0) => (result = -1 /\ errno) \/ -result \in OpErrors

=============================================================================
