----------------------------- MODULE AsyncMonitor -----------------------------
(***************************************************************************)
(* Asynchronous I/O: submission (Fallback::async_io in fallback.cpp), the  *)
(* HIP stream that runs its host functions and kernel, AsyncMonitor and    *)
(* its completion thread (async.cpp), and the lifetime of the AsyncOp      *)
(* (asyncop-fallback.cpp): who owns it, who waits for whom, when it is     *)
(* freed.  What the tasks of one operation compute is the subject of       *)
(* AsyncOp.                                                                *)
(*                                                                         *)
(* Each operation has its own submitting thread.  A HIP stream is a FIFO   *)
(* of tasks run one at a time; streams run concurrently (external).  The   *)
(* head of a queue is the task that is running: it leaves the queue when   *)
(* it returns.                                                             *)
(***************************************************************************)
EXTENDS Integers, Sequences, SequencesExt, FiniteSets

CONSTANTS
    Ops,         \* operations, each with its submitting thread
    HipStreams,  \* hipStream_t values
    StreamObjs,  \* addresses of registered Stream objects
    FixedObjs,   \* those registered with all three FIXED flags
    NoOp,        \* no operation
    NoStream     \* no Stream object

(* The completion thread, as a caller of hipHostFree. *)
COMPLETION == "completion"

ASSUME ConstantsAssumption ==
    /\ FixedObjs \subseteq StreamObjs
    /\ StreamObjs \cap Ops = {}
    /\ NoOp \notin Ops /\ COMPLETION \notin Ops
    /\ NoStream \notin StreamObjs \cup Ops

VARIABLES
    registered,    \* StreamMap: the Stream object of each hipStream_t
    sub,           \* where each submitter is in async_io
    ret,           \* what its call returned
    hip_stream,    \* the hipStream_t it was submitted to
    stream,        \* its Stream object, the owner of the lock it takes
    next_task,     \* index of the task it enqueues next
    queue,         \* the tasks of each HIP stream, the running one first
    host,          \* where the running cleanup host function is
    submitted_ops, \* AsyncMonitor::submitted_ops
    completed_ops, \* AsyncMonitor::completed_ops
    mutex,         \* AsyncMonitor::mutex is held by the completion thread
    dtor,          \* where ~AsyncMonitor is: "none", "notify", "join"
    ct,            \* where the completion thread is
    ct_op,         \* the operation its node handle owns
    draining,      \* for each caller of hipHostFree, the tasks it waits for
    mem,           \* whether the AsyncOp's memory is allocated
    pins,          \* the AsyncOps that still reference their file, buffer and stream
    published      \* those whose result was written to *bytes_transferred

mapVars    == <<registered>>
subVars    == <<sub, ret, hip_stream, stream, next_task>>
monVars    == <<submitted_ops, completed_ops, mutex, dtor>>
ctVars     == <<ct, ct_op>>
opVars     == <<mem, pins, published>>
vars       == <<mapVars, subVars, queue, host, monVars, ctVars, draining, opVars>>

(* The tasks async_io enqueues, in order.  A temporary Stream has no flags. *)
(* "copy1" and "copy2" are async_io_cpu_copy and the kernel for a read, the *)
(* kernel and async_io_cpu_copy for a write.                                *)
Tasks(o) ==
    (IF stream[o] \in FixedObjs THEN << >> ELSE <<"bind">>) \o <<"copy1", "copy2", "cleanup">>

TaskKinds == {"bind", "copy1", "copy2", "cleanup"}

Enqueue(k, o) ==
    queue' = [queue EXCEPT ![hip_stream[o]] = Append(@, <<k, o>>)]

Pending == UNION {ToSet(queue[s]) : s \in HipStreams}

(* AsyncMonitor::is_finished *)
is_finished == dtor # "none"

(* The submitter is between stream->getLock() and the end of the try block. *)
HoldsStreamLock(o) == sub[o] = "locked"

-----------------------------------------------------------------------------
Init ==
    /\ registered = [s \in HipStreams |-> NoStream]
    /\ sub = [o \in Ops |-> "start"]
    /\ ret = [o \in Ops |-> "none"]
    /\ hip_stream \in [Ops -> HipStreams]
    /\ stream = [o \in Ops |-> NoStream]
    /\ next_task = [o \in Ops |-> 1]
    /\ queue = [s \in HipStreams |-> << >>]
    /\ host = [s \in HipStreams |-> "none"]
    /\ submitted_ops = {}
    /\ completed_ops = << >>
    /\ mutex = FALSE
    /\ dtor = "none"
    /\ ct = "loop"
    /\ ct_op = NoOp
    /\ draining = [c \in Ops \cup {COMPLETION} |-> {}]
    /\ mem = [o \in Ops |-> "none"]
    /\ pins = {}
    /\ published = {}

-----------------------------------------------------------------------------
(* hipFileStreamRegister / hipFileStreamDeregister.  Deregistering does not *)
(* look at the operations that use the Stream.                              *)
StreamRegister(s) ==
    /\ registered[s] = NoStream
    /\ \E x \in StreamObjs :
         /\ \A s2 \in HipStreams : registered[s2] # x
         /\ \A o \in Ops : stream[o] # x
         /\ registered' = [registered EXCEPT ![s] = x]
    /\ UNCHANGED <<subVars, queue, host, monVars, ctVars, draining, opVars>>

StreamDeregister(s) ==
    /\ registered[s] # NoStream
    /\ registered' = [registered EXCEPT ![s] = NoStream]
    /\ UNCHANGED <<subVars, queue, host, monVars, ctVars, draining, opVars>>

-----------------------------------------------------------------------------
(* Submission *)

(* StreamMap::getStream: an unregistered hipStream_t gets a temporary       *)
(* Stream with its own lock, named here by the operation.                   *)
getStream(o) == IF registered[hip_stream[o]] = NoStream THEN o ELSE registered[hip_stream[o]]

(* getFileBufferAndStream, the checks of async_io and new AsyncOpFallback:  *)
(* pinned memory for the object and its bounce buffer.                      *)
Construct(o) ==
    /\ sub[o] = "start"
    /\ ~is_finished
    /\ stream' = [stream EXCEPT ![o] = getStream(o)]
    /\ mem' = [mem EXCEPT ![o] = "live"]
    /\ pins' = pins \cup {o}
    /\ sub' = [sub EXCEPT ![o] = "built"]
    /\ UNCHANGED <<mapVars, ret, hip_stream, next_task, queue, host, monVars, ctVars,
                   draining, published>>

(* A check refuses the request or an allocation fails: what was allocated   *)
(* is freed again and the call returns an error.                            *)
ConstructThrows(o) ==
    /\ sub[o] = "start"
    /\ ~is_finished
    /\ sub' = [sub EXCEPT ![o] = "done"]
    /\ ret' = [ret EXCEPT ![o] = "error"]
    /\ UNCHANGED <<mapVars, hip_stream, stream, next_task, queue, host, monVars, ctVars,
                   draining, opVars>>

(* AsyncMonitor::addOp *)
addOp(o) ==
    /\ sub[o] = "built"
    /\ ~mutex
    /\ submitted_ops' = submitted_ops \cup {o}
    /\ sub' = [sub EXCEPT ![o] = "added"]
    /\ UNCHANGED <<mapVars, ret, hip_stream, stream, next_task, queue, host,
                   completed_ops, mutex, dtor, ctVars, draining, opVars>>

(* op->devPtr() is outside the try block: when it throws, the call returns  *)
(* with nothing enqueued, not even the cleanup.  hipDeviceGetAttribute is   *)
(* inside: when it throws, the handler runs.                                *)
DevPtr(o) ==
    /\ sub[o] = "added"
    /\ \/ /\ sub' = [sub EXCEPT ![o] = "ready"]
          /\ UNCHANGED ret
       \/ /\ sub' = [sub EXCEPT ![o] = "returning"]
          /\ ret' = [ret EXCEPT ![o] = "leaked"]
       \/ /\ sub' = [sub EXCEPT ![o] = "catch"]
          /\ UNCHANGED ret
    /\ UNCHANGED <<mapVars, hip_stream, stream, next_task, queue, host, monVars, ctVars,
                   draining, opVars>>

(* Submission without the Stream's lock. *)
getLock_NoLock(o) ==
    /\ sub[o] = "ready"
    /\ sub' = [sub EXCEPT ![o] = "locked"]
    /\ UNCHANGED <<mapVars, ret, hip_stream, stream, next_task, queue, host, monVars,
                   ctVars, draining, opVars>>

(* stream->getLock() *)
getLock(o) ==
    /\ sub[o] = "ready"
    /\ \A o2 \in Ops : HoldsStreamLock(o2) => stream[o2] # stream[o]
    /\ sub' = [sub EXCEPT ![o] = "locked"]
    /\ UNCHANGED <<mapVars, ret, hip_stream, stream, next_task, queue, host, monVars,
                   ctVars, draining, opVars>>

LastTask_OffByOne(o) == next_task[o] > Len(Tasks(o))

LastTask(o) == next_task[o] = Len(Tasks(o))

(* One hipLaunchHostFunc or hipLaunchKernel of the try block.  After the    *)
(* last one the lock is released and the call succeeds; one that throws     *)
(* releases the lock and leads to the handler.                              *)
EnqueueTask(o) ==
    /\ sub[o] = "locked"
    /\ \/ /\ Enqueue(Tasks(o)[next_task[o]], o)
          /\ IF LastTask(o)
             THEN /\ sub' = [sub EXCEPT ![o] = "returning"]
                  /\ ret' = [ret EXCEPT ![o] = "success"]
                  /\ UNCHANGED next_task
             ELSE /\ next_task' = [next_task EXCEPT ![o] = @ + 1]
                  /\ UNCHANGED <<sub, ret>>
       \/ /\ sub' = [sub EXCEPT ![o] = "catch"]
          /\ UNCHANGED <<queue, next_task, ret>>
    /\ UNCHANGED <<mapVars, hip_stream, stream, host, monVars, ctVars, draining, opVars>>

(* catch (...): enqueue the cleanup, or give up and leak. *)
Catch(o) ==
    /\ sub[o] = "catch"
    /\ \/ /\ Enqueue("cleanup", o)
          /\ ret' = [ret EXCEPT ![o] = "error"]
       \/ /\ ret' = [ret EXCEPT ![o] = "leaked"]
          /\ UNCHANGED queue
    /\ sub' = [sub EXCEPT ![o] = "returning"]
    /\ UNCHANGED <<mapVars, hip_stream, stream, next_task, host, monVars, ctVars,
                   draining, opVars>>

-----------------------------------------------------------------------------
(* Dropping references and freeing.  The AsyncOp is owned by the submitter  *)
(* until it returns, by submitted_ops, and by the node handle of the        *)
(* completion thread.                                                       *)

SubmitterOwns(o) == sub[o] \in {"built", "added", "ready", "locked", "catch", "returning"}

(* hipHostFree synchronizes with the device: it waits for every task that   *)
(* was enqueued when it was called (external).  The bounce buffer goes      *)
(* first, the object after it; the model frees both at the earlier point.   *)
hipHostFreeBegin_NoSync(caller) == draining' = [draining EXCEPT ![caller] = {}]

hipHostFreeBegin(caller) == draining' = [draining EXCEPT ![caller] = Pending]
hipHostFreeReady(caller) == draining[caller] \cap Pending = {}

(* The submitter destroys the operation as if it were the only owner. *)
Return_SoleOwner(o) ==
    /\ sub[o] = "returning"
    /\ sub' = [sub EXCEPT ![o] = "freeing"]
    /\ hipHostFreeBegin(o)
    /\ UNCHANGED <<mapVars, ret, hip_stream, stream, next_task, queue, host, monVars,
                   ctVars, opVars>>

(* async_io returns: the submitter's shared_ptr goes away.  If it is the    *)
(* last one the submitter runs the destructor, with no lock held.           *)
Return(o) ==
    /\ sub[o] = "returning"
    /\ IF o \in submitted_ops \/ ct_op = o
       THEN /\ sub' = [sub EXCEPT ![o] = "done"]
            /\ UNCHANGED draining
       ELSE /\ sub' = [sub EXCEPT ![o] = "freeing"]
            /\ hipHostFreeBegin(o)
    /\ UNCHANGED <<mapVars, ret, hip_stream, stream, next_task, queue, host, monVars,
                   ctVars, opVars>>

SubmitterFrees(o) ==
    /\ sub[o] = "freeing"
    /\ hipHostFreeReady(o)
    /\ mem' = [mem EXCEPT ![o] = "freed"]
    /\ sub' = [sub EXCEPT ![o] = "done"]
    /\ draining' = [draining EXCEPT ![o] = {}]
    /\ UNCHANGED <<mapVars, ret, hip_stream, stream, next_task, queue, host, monVars,
                   ctVars, pins, published>>

-----------------------------------------------------------------------------
(* The HIP stream runs its tasks *)

Running(s, k, o) == queue[s] # << >> /\ Head(queue[s]) = <<k, o>>

(* async_io_bind_params, async_io_cpu_copy or the kernel runs to its end.   *)
RunTask(s, o) ==
    /\ \E k \in {"bind", "copy1", "copy2"} : Running(s, k, o)
    /\ queue' = [queue EXCEPT ![s] = Tail(@)]
    /\ UNCHANGED <<mapVars, subVars, host, monVars, ctVars, draining, opVars>>

resetReferences_Forgotten(o) == UNCHANGED pins

(* op->file.reset() and the two that follow. *)
resetReferences(o) == pins' = pins \ {o}

(* async_io_cleanup calls completeOp: under the mutex the operation drops   *)
(* its references and becomes eligible for the completion thread; one that  *)
(* is not in submitted_ops is reported as an internal error at once.        *)
completeOp(s, o) ==
    /\ Running(s, "cleanup", o)
    /\ host[s] = "none"
    /\ ~mutex
    /\ IF o \in submitted_ops
       THEN /\ resetReferences(o)
            /\ completed_ops' = Append(completed_ops, o)
            /\ host' = [host EXCEPT ![s] = "notify"]
            /\ UNCHANGED <<queue, published>>
       ELSE /\ published' = published \cup {o}
            /\ queue' = [queue EXCEPT ![s] = Tail(@)]
            /\ UNCHANGED <<pins, completed_ops, host>>
    /\ UNCHANGED <<mapVars, subVars, submitted_ops, mutex, dtor, ctVars, draining, mem>>

notify_one == ct' = IF ct = "waiting" THEN "loop" ELSE ct

(* completeOp without its notify_one. *)
completeOpNotify_Forgotten(s) ==
    /\ host[s] = "notify"
    /\ host' = [host EXCEPT ![s] = "publish"]
    /\ UNCHANGED <<mapVars, subVars, queue, monVars, ctVars, draining, opVars>>

(* completeOp's cv.notify_one(), after the mutex is released. *)
completeOpNotify(s) ==
    /\ host[s] = "notify"
    /\ notify_one
    /\ host' = [host EXCEPT ![s] = "publish"]
    /\ UNCHANGED <<mapVars, subVars, queue, monVars, ct_op, draining, opVars>>

(* The last statement of async_io_cleanup reads the operation again, which  *)
(* the completion thread may already be destroying, and returns.            *)
async_io_cleanup(s, o) ==
    /\ Running(s, "cleanup", o)
    /\ host[s] = "publish"
    /\ published' = published \cup {o}
    /\ host' = [host EXCEPT ![s] = "none"]
    /\ queue' = [queue EXCEPT ![s] = Tail(@)]
    /\ UNCHANGED <<mapVars, subVars, monVars, ctVars, draining, mem, pins>>

-----------------------------------------------------------------------------
(* AsyncMonitor::completion_thread *)

CtLock ==
    /\ ct = "loop"
    /\ ~mutex
    /\ mutex' = TRUE
    /\ ct' = "locked"
    /\ UNCHANGED <<mapVars, subVars, queue, host, submitted_ops, completed_ops, dtor,
                   ct_op, draining, opVars>>

(* Take the last completed operation out of both containers; the mutex is  *)
(* released before the node handle is destroyed.                           *)
CtTake ==
    /\ ct = "locked"
    /\ completed_ops # << >>
    /\ ct_op' = Last(completed_ops)
    /\ completed_ops' = Front(completed_ops)
    /\ submitted_ops' = submitted_ops \ {Last(completed_ops)}
    /\ mutex' = FALSE
    /\ ct' = "drop"
    /\ UNCHANGED <<mapVars, subVars, queue, host, dtor, draining, opVars>>

(* A wait whose predicate does not look at is_finished. *)
CtWait_NoPredicate ==
    /\ ct = "locked"
    /\ completed_ops = << >>
    /\ mutex' = FALSE
    /\ ct' = "waiting"
    /\ UNCHANGED <<mapVars, subVars, queue, host, submitted_ops, completed_ops, dtor,
                   ct_op, draining, opVars>>

(* cv.wait releases the mutex; nothing completed and not finished. *)
CtWait ==
    /\ ct = "locked"
    /\ completed_ops = << >>
    /\ ~is_finished
    /\ mutex' = FALSE
    /\ ct' = "waiting"
    /\ UNCHANGED <<mapVars, subVars, queue, host, submitted_ops, completed_ops, dtor,
                   ct_op, draining, opVars>>

CtExit ==
    /\ ct = "locked"
    /\ completed_ops = << >>
    /\ is_finished
    /\ mutex' = FALSE
    /\ ct' = "exited"
    /\ UNCHANGED <<mapVars, subVars, queue, host, submitted_ops, completed_ops, dtor,
                   ct_op, draining, opVars>>

(* The completion thread destroys the operation as if it were the only      *)
(* owner.                                                                   *)
CtDrop_SoleOwner ==
    /\ ct = "drop"
    /\ ct' = "freeing"
    /\ hipHostFreeBegin(COMPLETION)
    /\ UNCHANGED ct_op
    /\ UNCHANGED <<mapVars, subVars, queue, host, monVars, opVars>>

(* The node handle goes out of scope: the last owner runs the destructor.  *)
CtDrop ==
    /\ ct = "drop"
    /\ IF SubmitterOwns(ct_op)
       THEN /\ ct' = "loop"
            /\ ct_op' = NoOp
            /\ UNCHANGED draining
       ELSE /\ ct' = "freeing"
            /\ hipHostFreeBegin(COMPLETION)
            /\ UNCHANGED ct_op
    /\ UNCHANGED <<mapVars, subVars, queue, host, monVars, opVars>>

CtFree ==
    /\ ct = "freeing"
    /\ hipHostFreeReady(COMPLETION)
    /\ mem' = [mem EXCEPT ![ct_op] = "freed"]
    /\ ct' = "loop"
    /\ ct_op' = NoOp
    /\ draining' = [draining EXCEPT ![COMPLETION] = {}]
    /\ UNCHANGED <<mapVars, subVars, queue, host, monVars, pins, published>>

(* ~AsyncMonitor at process exit: is_finished is set under the mutex, then  *)
(* the thread is notified and joined.  A program that has synchronized its  *)
(* streams exits with none of its tasks pending.                            *)
Finish ==
    /\ \A o \in Ops : sub[o] \in {"start", "done"}
    /\ Pending = {}
    /\ ~is_finished
    /\ ~mutex
    /\ dtor' = "notify"
    /\ UNCHANGED <<mapVars, subVars, queue, host, submitted_ops, completed_ops, mutex, ctVars,
                   draining, opVars>>

FinishNotify ==
    /\ dtor = "notify"
    /\ notify_one
    /\ dtor' = "join"
    /\ UNCHANGED <<mapVars, subVars, queue, host, submitted_ops, completed_ops, mutex, ct_op,
                   draining, opVars>>

-----------------------------------------------------------------------------
Submitter(o) ==
    \/ Construct(o)
    \/ ConstructThrows(o)
    \/ addOp(o)
    \/ DevPtr(o)
    \/ getLock(o)
    \/ EnqueueTask(o)
    \/ Catch(o)
    \/ Return(o)
    \/ SubmitterFrees(o)

HipStream(s) ==
    \/ \E o \in Ops :
         \/ RunTask(s, o)
         \/ completeOp(s, o)
         \/ async_io_cleanup(s, o)
    \/ completeOpNotify(s)

CompletionThread == CtLock \/ CtTake \/ CtWait \/ CtExit \/ CtDrop \/ CtFree

Next ==
    \/ \E o \in Ops : Submitter(o)
    \/ \E s \in HipStreams : HipStream(s) \/ StreamRegister(s) \/ StreamDeregister(s)
    \/ CompletionThread
    \/ Finish
    \/ FinishNotify

Spec == Init /\ [][Next]_vars

(* Threads and the device keep running; whether an operation is submitted   *)
(* at all, and when the process exits, is up to the application.            *)
Fairness ==
    /\ \A o \in Ops : WF_vars(sub[o] # "start" /\ Submitter(o))
    /\ \A s \in HipStreams : WF_vars(HipStream(s))
    /\ WF_vars(CompletionThread)
    /\ WF_vars(FinishNotify)

FairSpec == Spec /\ Fairness

-----------------------------------------------------------------------------
(* Properties *)

TypeOK ==
    /\ registered \in [HipStreams -> StreamObjs \cup {NoStream}]
    /\ sub \in [Ops -> {"start", "built", "added", "ready", "locked", "catch",
                        "returning", "freeing", "done"}]
    /\ ret \in [Ops -> {"none", "success", "error", "leaked"}]
    /\ hip_stream \in [Ops -> HipStreams]
    /\ stream \in [Ops -> StreamObjs \cup Ops \cup {NoStream}]
    /\ next_task \in [Ops -> 1..4]
    /\ \A o \in Ops : next_task[o] <= Len(Tasks(o))
    /\ queue \in [HipStreams -> Seq(TaskKinds \X Ops)]
    /\ host \in [HipStreams -> {"none", "notify", "publish"}]
    /\ submitted_ops \in SUBSET Ops
    /\ completed_ops \in Seq(Ops)
    /\ mutex \in BOOLEAN
    /\ dtor \in {"none", "notify", "join"}
    /\ draining \in [Ops \cup {COMPLETION} -> SUBSET (TaskKinds \X Ops)]
    /\ ct \in {"loop", "locked", "waiting", "drop", "freeing", "exited"}
    /\ ct_op \in Ops \cup {NoOp}
    /\ mem \in [Ops -> {"none", "live", "freed"}]
    /\ pins \in SUBSET Ops
    /\ published \in SUBSET Ops

(* No host function, kernel or submitter touches an AsyncOp whose memory    *)
(* was freed: in particular the read of bytes_transferred_internal that     *)
(* async_io_cleanup makes after completeOp handed the op to the completion  *)
(* thread.                                                                  *)
NoUseAfterFree ==
    \A o \in Ops :
      (SubmitterOwns(o) \/ \E k \in TaskKinds : <<k, o>> \in Pending)
        => mem[o] = "live"

(* An operation is destroyed once: the submitter and the completion thread  *)
(* never both run its destructor, and a destroyed one is in no container.   *)
DestroyedOnce ==
    \A o \in Ops :
      /\ ~(sub[o] = "freeing" /\ ct = "freeing" /\ ct_op = o)
      /\ (mem[o] = "freed" \/ sub[o] = "freeing") =>
            o \notin submitted_ops /\ o \notin ToSet(completed_ops)
      /\ (mem[o] = "freed" => sub[o] # "freeing" /\ ct_op # o)

(* When the application sees the byte count, the operation no longer pins   *)
(* its file and buffer, so deregistering them after a stream                *)
(* synchronization is not refused on its account.                           *)
PublishedReleases ==
    published \cap pins = {}

(* Operations that share a Stream object do not interleave: its lock keeps  *)
(* the bind and copy tasks of each together in the HIP stream.              *)
StreamSerial ==
    \A s \in HipStreams : LET q == queue[s] IN
      \A i, j, k \in {n \in DOMAIN q : q[n][1] # "cleanup"} :
        (i < j /\ j < k /\ q[i][2] = q[k][2] /\ stream[q[j][2]] = stream[q[i][2]])
          => q[j][2] = q[i][2]

(* The life of an operation as the application and the allocator see it:    *)
(* complete once it has dropped its references, answered once its submitter *)
(* has.                                                                     *)
Phase ==
    [o \in Ops |-> IF mem[o] # "live" THEN mem[o]
                   ELSE IF o \in pins THEN "submitted" ELSE "complete"]

Answered == [o \in Ops |-> IF sub[o] \in {"freeing", "done"} THEN ret[o] ELSE "none"]

Lifecycle == INSTANCE AsyncLifecycle WITH phase <- Phase, answer <- Answered

(* Submitters, streams and the completion thread together implement the     *)
(* life cycle: whatever fails and however they interleave, each accepted    *)
(* operation completes once, publishes once, after completing, and is freed *)
(* once, by either thread, only after it has published and its call is over.*)
ImplementsLifecycle == Lifecycle!Spec

(* Once its cleanup is enqueued an operation is eventually destroyed, and   *)
(* it is unless devPtr or both attempts to enqueue the cleanup failed: the  *)
(* completion thread misses no wakeup, and nobody waits for the device with *)
(* the monitor's mutex held.                                                *)
EventuallyFreed ==
    \A o \in Ops : (mem[o] = "live") ~> (mem[o] = "freed" \/ ret[o] = "leaked")

(* ~AsyncMonitor's join returns: the completion thread drains what was      *)
(* completed and exits.                                                     *)
EventuallyJoined == is_finished ~> (ct = "exited" /\ completed_ops = << >>)

=============================================================================
