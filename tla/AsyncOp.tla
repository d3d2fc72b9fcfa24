------------------------------- MODULE AsyncOp -------------------------------
(***************************************************************************)
(* What one asynchronous operation does to the file, the bounce buffer and *)
(* the GPU buffer: the checks of Fallback::async_io, the parameters an     *)
(* AsyncOp binds at submission or when the stream reaches it, the host     *)
(* functions of fallback.cpp and the kernel of memcpy-kernel.hip.          *)
(*                                                                         *)
(* Sizes and offsets are small integers.  A byte of the file or the buffer *)
(* is named by where it was before the operation.  The tasks run in stream *)
(* order (AsyncMonitor has the stream); the ones async_io could not        *)
(* enqueue never run.                                                      *)
(***************************************************************************)
EXTENDS Integers, Sequences

CONSTANTS
    MaxRw,      \* getMaxRwCount()
    MaxSize,    \* largest size the application asks for
    BufLen,     \* length of the Buffer
    FileLen     \* length of the file

ASSUME SizesAssumption ==
    /\ MaxRw \in Nat \ {0} /\ MaxSize \in Nat /\ BufLen \in Nat /\ FileLen \in Nat

VARIABLES
    pc,              \* "idle", "running", "done"
    io_type,         \* AsyncOp::io_type
    fixed,           \* the parameters the Stream's flags fix at submission
    params,          \* the AsyncOp's size, file_offset, buffer_offset variants
    submitted_size,  \* AsyncOpFallback::submitted_size, the bounce buffer's size
    tasks,           \* what is left to run
    ret,             \* what hipFileIOAsync returned
    copied,          \* bytes_transferred in async_io_cpu_copy
    internal,        \* AsyncOpFallback::bytes_transferred_internal
    published,       \* *bytes_transferred_p
    bounce,          \* the bytes in the bounce buffer, and beyond its end
    gpu,             \* the bytes in the GPU buffer, and beyond its end
    file             \* the bytes in the file

vars == <<pc, io_type, fixed, params, submitted_size, tasks, ret, copied, internal, published,
          bounce, gpu, file>>
data == <<bounce, gpu, file>>
request == <<io_type, fixed, submitted_size, ret>>

InvalidValue == 2       \* stands for hipFileInvalidValue, an error other than 1
Unbound      == -9      \* the variant still holds the application's pointer

Sizes   == 0..MaxSize
Offsets == -1..BufLen
Params  == {"size", "file_offset", "buffer_offset"}

(* The parameters the flags of a Stream can fix at submission: any. *)
FixedFlags == SUBSET Params

(* Positions any copy of the model could reach, in bounds or not. *)
Cells == 0..(MaxSize + BufLen + FileLen)

LimitSize(n) == IF n <= MaxRw THEN n ELSE MaxRw

(* io.cpp *)
paramsValid(size, file_offset, buffer_offset) ==
    /\ file_offset >= 0
    /\ buffer_offset >= 0
    /\ BufLen > buffer_offset
    /\ BufLen - buffer_offset >= size

-----------------------------------------------------------------------------
Init ==
    /\ pc = "idle"
    /\ io_type \in {"Read", "Write"}
    /\ fixed \in FixedFlags
    /\ params = [x \in Params |-> Unbound]
    /\ submitted_size = 0
    /\ tasks = << >>
    /\ ret = "none"
    /\ copied = 0
    /\ internal = 0
    /\ published = 0
    /\ bounce = [i \in Cells |-> <<"bounce", i>>]
    /\ gpu = [i \in Cells |-> <<"gpu", i>>]
    /\ file = [i \in Cells |-> <<"file", i>>]

(* Binding in the stream only when nothing is fixed. *)
AllTasks_BindsAllOrNothing ==
    (IF fixed # {} THEN << >> ELSE <<"bind">>)
        \o (IF io_type = "Read" THEN <<"cpu_copy", "kernel">> ELSE <<"kernel", "cpu_copy">>)
        \o <<"cleanup">>

(* The tasks of the try block: parameters are bound in the stream unless    *)
(* the Stream fixes all of them.                                            *)
AllTasks ==
    (IF fixed = Params THEN << >> ELSE <<"bind">>)
        \o (IF io_type = "Read" THEN <<"cpu_copy", "kernel">> ELSE <<"kernel", "cpu_copy">>)
        \o <<"cleanup">>

(* What is enqueued: everything, or what precedes the call that threw and   *)
(* then the cleanup of the handler.  (With no cleanup at all the operation  *)
(* leaks: AsyncMonitor.)                                                    *)
Enqueued(n) == IF n = Len(AllTasks) THEN AllTasks ELSE Append(SubSeq(AllTasks, 1, n), "cleanup")

(* Fallback::async_io for the values the application passes.  Fixed         *)
(* parameters are copied into the AsyncOp as they are.                      *)
async_io(size, file_offset, buffer_offset) ==
    /\ pc = "idle"
    /\ LET given == [x \in Params |-> CASE x = "size" -> size
                                        [] x = "file_offset" -> file_offset
                                        [] x = "buffer_offset" -> buffer_offset]
       IN  \/ /\ ~paramsValid(LimitSize(size), file_offset, buffer_offset)
              /\ ret' = "error"
              /\ pc' = "done"
              /\ UNCHANGED <<params, submitted_size, tasks>>
           \/ /\ paramsValid(LimitSize(size), file_offset, buffer_offset)
              /\ size = 0
              /\ ret' = "success"
              /\ pc' = "done"
              /\ UNCHANGED <<params, submitted_size, tasks>>
           \/ /\ paramsValid(LimitSize(size), file_offset, buffer_offset)
              /\ size # 0
              /\ params' = [x \in Params |-> IF x \in fixed THEN given[x] ELSE Unbound]
              /\ submitted_size' = LimitSize(size)
              /\ \E n \in 0..Len(AllTasks) :
                   /\ tasks' = Enqueued(n)
                   /\ ret' = IF n = Len(AllTasks) THEN "success" ELSE "error"
              /\ pc' = "running"
    /\ published' = 0
    /\ UNCHANGED <<io_type, fixed, copied, internal, data>>

TaskIs(k) == pc = "running" /\ tasks # << >> /\ Head(tasks) = k

RefusedAtBind_UnboundedSize(size, file_offset, buffer_offset) ==
    ~paramsValid(size, file_offset, buffer_offset)

(* What async_io_bind_params refuses: more than the bounce buffer holds, or *)
(* a region that is not valid.                                              *)
RefusedAtBind(size, file_offset, buffer_offset) ==
    size > submitted_size \/ ~paramsValid(size, file_offset, buffer_offset)

(* async_io_bind_params: the parameters that are not fixed take the values  *)
(* the application's variables have now; size is capped, and refused when   *)
(* it outgrew the bounce buffer.                                            *)
async_io_bind_params(now) ==
    /\ TaskIs("bind")
    /\ LET bound == [x \in Params |-> IF x \in fixed THEN params[x] ELSE now[x]]
           size  == LimitSize(bound["size"])
       IN  /\ params' = [bound EXCEPT !["size"] = size]
           /\ internal' =
                IF RefusedAtBind(size, bound["file_offset"], bound["buffer_offset"])
                THEN -InvalidValue ELSE internal
    /\ tasks' = Tail(tasks)
    /\ UNCHANGED <<pc, request, copied, published, data>>

-----------------------------------------------------------------------------
(* async_io_cpu_copy *)

(* n bytes from position a of src replace those from position b of dst. *)
CopyBytes(dst, b, src, a, n) ==
    [i \in DOMAIN dst |-> IF i \in b..(b + n - 1) THEN src[a + (i - b)] ELSE dst[i]]

Remaining_Whole == params["size"]
Remaining == params["size"] - copied

Position_NotAdvanced == params["file_offset"]
Position == params["file_offset"] + copied

(* What pread or pwrite may return: at most what is asked, at most MaxRw,   *)
(* for a read at most what the file has, and zero only at its end.          *)
IoCounts ==
    IF io_type = "Read"
    THEN IF Position >= FileLen THEN {0} ELSE (1..Remaining) \cap (1..MaxRw) \cap (1..(FileLen - Position))
    ELSE (0..Remaining) \cap (0..MaxRw)

(* The loop ends: the count becomes the operation's result. *)
CopyDone(n) ==
    /\ internal' = n
    /\ tasks' = Tail(tasks)

(* An operation that already failed is skipped. *)
CpuCopySkipped ==
    /\ TaskIs("cpu_copy")
    /\ internal < 0
    /\ tasks' = Tail(tasks)
    /\ UNCHANGED <<pc, request, params, copied, internal, published, data>>

(* One successful turn of the loop.  (EINTR turns the loop without effect.) *)
CpuCopyChunk(n) ==
    /\ TaskIs("cpu_copy")
    /\ internal >= 0
    /\ copied < params["size"]
    /\ n \in IoCounts
    /\ \/ /\ n > 0
          /\ IF io_type = "Read"
             THEN bounce' = CopyBytes(bounce, copied, file, Position, n) /\ UNCHANGED file
             ELSE file' = CopyBytes(file, Position, bounce, copied, n) /\ UNCHANGED bounce
          /\ copied' = copied + n
          /\ UNCHANGED <<tasks, internal>>
       \/ /\ n = 0
          /\ CopyDone(copied)
          /\ UNCHANGED <<copied, bounce, file>>
    /\ UNCHANGED <<pc, request, params, published, gpu>>

CpuCopyFull ==
    /\ TaskIs("cpu_copy")
    /\ internal >= 0
    /\ copied >= params["size"]
    /\ CopyDone(copied)
    /\ UNCHANGED <<pc, request, params, copied, published, data>>

(* Any other error of pread or pwrite. *)
CpuCopyFails ==
    /\ TaskIs("cpu_copy")
    /\ internal >= 0
    /\ copied < params["size"]
    /\ internal' = -1
    /\ tasks' = Tail(tasks)
    /\ UNCHANGED <<pc, request, params, copied, published, data>>

-----------------------------------------------------------------------------
(* hipFileMemcpyKernel: a read moves the bytes that were read, a write the  *)
(* whole size.  Unbound parameters are an error.                            *)
hipFileMemcpyKernel ==
    /\ TaskIs("kernel")
    /\ LET b     == params["buffer_offset"]
           bound == params["size"] # Unbound /\ b # Unbound
           n     == CASE ~bound -> 0
                      [] bound /\ io_type = "Read" -> internal
                      [] bound /\ io_type = "Write" -> params["size"]
       IN  \/ /\ internal < 0
              /\ UNCHANGED <<internal, gpu, bounce>>
           \/ /\ internal >= 0
              /\ internal' = IF bound THEN internal ELSE -InvalidValue
              /\ IF io_type = "Read"
                 THEN gpu' = CopyBytes(gpu, b, bounce, 0, n) /\ UNCHANGED bounce
                 ELSE bounce' = CopyBytes(bounce, 0, gpu, b, n) /\ UNCHANGED gpu
    /\ tasks' = Tail(tasks)
    /\ UNCHANGED <<pc, request, params, copied, published, file>>

(* async_io_cleanup publishes the result (completeOp is in AsyncMonitor). *)
async_io_cleanup ==
    /\ TaskIs("cleanup")
    /\ published' = internal
    /\ tasks' = Tail(tasks)
    /\ pc' = "done"
    /\ UNCHANGED <<request, params, copied, internal, data>>

Next ==
    \/ \E size \in Sizes, f, b \in Offsets : async_io(size, f, b)
    \/ \E size \in Sizes, f, b \in Offsets :
         async_io_bind_params([x \in Params |-> CASE x = "size" -> size
                                                  [] x = "file_offset" -> f
                                                  [] x = "buffer_offset" -> b])
    \/ CpuCopySkipped
    \/ \E n \in Sizes : CpuCopyChunk(n)
    \/ CpuCopyFull
    \/ CpuCopyFails
    \/ hipFileMemcpyKernel
    \/ async_io_cleanup

Spec == Init /\ [][Next]_vars

-----------------------------------------------------------------------------
(* Properties *)

TypeOK ==
    /\ pc \in {"idle", "running", "done"}
    /\ io_type \in {"Read", "Write"}
    /\ fixed \in FixedFlags
    /\ params["size"] \in Sizes \cup {Unbound}
    /\ \A x \in Params \ {"size"} : params[x] \in Offsets \cup {Unbound}
    /\ submitted_size \in Sizes
    /\ ret \in {"none", "success", "error"}
    /\ copied \in Sizes
    /\ internal \in Sizes \cup {-1, -InvalidValue}
    /\ published \in Sizes \cup {-1, -InvalidValue}

(* The application's size when the Stream fixes everything, which is the    *)
(* one case where no later check looks at it again.                         *)
UncheckedSize == fixed = Params /\ params["size"] > MaxRw

(* Every copy stays inside the bounce buffer that was allocated, and inside *)
(* the GPU buffer, even when the application changes size and offsets after *)
(* the submission: what outgrew the submitted size is refused when bound.   *)
CopiesStayInside ==
    ~UncheckedSize =>
      /\ \A i \in Cells : i >= submitted_size => bounce[i] = <<"bounce", i>>
      /\ \A i \in Cells : i >= BufLen => gpu[i] = <<"gpu", i>>
      /\ \A i \in Cells : file[i][1] = "gpu" => file[i][2] < BufLen

(* The host function and the kernel that move data find every parameter     *)
(* bound: bind runs before them unless all three were fixed.                *)
BoundBeforeUse ==
    TaskIs("cpu_copy") \/ TaskIs("kernel") => \A x \in Params : params[x] # Unbound

(* The count a successful call publishes is what arrived: that many bytes,  *)
(* from the right place to the right place, and for a read nothing else in  *)
(* the GPU buffer changed.                                                  *)
ReportedWasMoved ==
    (pc = "done" /\ ret = "success") =>
      LET n == IF published > 0 THEN published ELSE 0
          f == params["file_offset"]
          b == params["buffer_offset"]
      IN  IF io_type = "Read"
          THEN \A i \in Cells :
                 gpu[i] = IF n > 0 /\ i \in b..(b + n - 1) THEN <<"file", f + (i - b)>> ELSE <<"gpu", i>>
          ELSE n > 0 => \A i \in f..(f + n - 1) : file[i] = <<"gpu", b + (i - f)>>

(* hipfile.h (max_io_size_note): the maximum IO size is determined by the   *)
(* kernel, "currently 2^31 - the system page size"; no operation moves more. *)
MaxIoSizeRespected == ret = "success" => published <= MaxRw

=============================================================================
