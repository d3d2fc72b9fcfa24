-------------------------------- MODULE Batch --------------------------------
(***************************************************************************)
(* Batch contexts (batch/batch.cpp) behind hipFileBatchIOSetUp and         *)
(* hipFileBatchIOSubmit (hipfile.cpp).  A context has a fixed capacity and *)
(* a set of outstanding operations; hipFileBatchIOGetStatus, Cancel and    *)
(* Destroy are not implemented, so operations are accepted and never leave.*)
(*                                                                         *)
(* A submission holds the context's own mutex from its capacity check to   *)
(* the insertion, but looks up the file and buffer of each request under   *)
(* the driver's lock, one request at a time: files come and go in between. *)
(***************************************************************************)
EXTENDS Integers, FiniteSets

CONSTANTS
    Threads,    \* application threads
    Contexts,   \* addresses of BatchContext objects
    BatchOps,   \* addresses of BatchOperation objects
    Files,      \* file handles
    MAX_SIZE,   \* IBatchContext::MAX_SIZE
    MaxNr,      \* largest nr of a submission
    BufLen,     \* length of every buffer
    SizeMod,    \* size_t arithmetic is modulo SizeMod
    NoContext,  \* no BatchContext
    NoRequest   \* no BatchOperation at that address

(* One element of the application's array.  "kind" stands for opcode and mode. *)
Requests == [fh : Files, devPtr_offset : -1..BufLen, size : 0..(BufLen + 1),
             file_offset : {-1, 0}, kind : {"io", "bad"}]

ASSUME BatchAssumption ==
    /\ IsFiniteSet(BatchOps)
    /\ MAX_SIZE \in Nat /\ MaxNr \in Nat /\ BufLen \in Nat
    /\ SizeMod \in Nat /\ SizeMod > MAX_SIZE
    /\ NoContext \notin Contexts
    /\ NoRequest \notin Requests

VARIABLES
    capacity,     \* BatchContext::capacity, zero before the context exists
    outstanding,  \* BatchContext::outstanding_ops
    pending,      \* pending_ops of each thread's submission
    op,           \* the request each BatchOperation was made for
    pc,           \* where each thread is in its call
    context,      \* the context of its submission
    nr,           \* num_params of its submission
    result,       \* what its last call returned
    registered    \* the files DriverState knows

vars == <<capacity, outstanding, pending, op, pc, context, nr, result, registered>>

Results == {"none", "Success", "InvalidValue", "Error"}

HoldsContext(t, c) == pc[t] = "filling" /\ context[t] = c

(* Operations in no set: their memory can be allocated again. *)
FreeOps ==
    {o \in BatchOps : /\ \A c \in Contexts : o \notin outstanding[c]
                      /\ \A t \in Threads : o \notin pending[t]}

Init ==
    /\ capacity = [c \in Contexts |-> 0]
    /\ outstanding = [c \in Contexts |-> {}]
    /\ pending = [t \in Threads |-> {}]
    /\ op = [o \in BatchOps |-> NoRequest]
    /\ pc = [t \in Threads |-> "idle"]
    /\ context = [t \in Threads |-> NoContext]
    /\ nr = [t \in Threads |-> 0]
    /\ result = [t \in Threads |-> "none"]
    /\ registered = {}

(* The call of t returns r: its locals and its locks go away. *)
Return(t, r) ==
    /\ result' = [result EXCEPT ![t] = r]
    /\ pc' = [pc EXCEPT ![t] = "idle"]
    /\ pending' = [pending EXCEPT ![t] = {}]
    /\ context' = [context EXCEPT ![t] = NoContext]
    /\ nr' = [nr EXCEPT ![t] = 0]

-----------------------------------------------------------------------------
CapacityValid_NoLimit(n) == n # 0

(* BatchContext::BatchContext *)
CapacityValid(n) == n \in 1..MAX_SIZE

(* BatchContextMap::createContext, with an address no context has. *)
createContext(max_nr) ==
    /\ CapacityValid(max_nr)
    /\ \E c \in Contexts :
         /\ capacity[c] = 0
         /\ capacity' = [capacity EXCEPT ![c] = max_nr]

(* hipFileBatchIOSetUp: the constructor's exception becomes an error. *)
BatchIOSetUp(t, max_nr) ==
    /\ pc[t] = "idle"
    /\ \/ createContext(max_nr) /\ Return(t, "Success")
       \/ /\ ~CapacityValid(max_nr)
          /\ Return(t, "InvalidValue")
          /\ UNCHANGED capacity
    /\ UNCHANGED <<outstanding, op, registered>>

(* BatchContextMap::get finds c. *)
ContextExists(c) == capacity[c] # 0

(* hipFileBatchIOSubmit: getBatchContext. *)
BatchIOSubmit(t, c, n) ==
    /\ pc[t] = "idle"
    /\ \/ /\ ContextExists(c)
          /\ pc' = [pc EXCEPT ![t] = "submitting"]
          /\ context' = [context EXCEPT ![t] = c]
          /\ nr' = [nr EXCEPT ![t] = n]
          /\ UNCHANGED <<result, pending>>
       \/ /\ ~ContextExists(c)
          /\ Return(t, "InvalidValue")
    /\ UNCHANGED <<capacity, outstanding, op, registered>>

Room_Capacity(c) == capacity[c]

(* capacity - outstanding_ops.size(), in unsigned arithmetic. *)
Room(c) == (capacity[c] - Cardinality(outstanding[c])) % SizeMod

(* submit_operations: the mutex, then the capacity check.  The mutex is     *)
(* released when the submission ends.                                       *)
SubmitLock(t) ==
    /\ pc[t] = "submitting"
    /\ \A u \in Threads : ~HoldsContext(u, context[t])
    /\ \/ /\ nr[t] > Room(context[t])
          /\ Return(t, "InvalidValue")
       \/ /\ nr[t] <= Room(context[t])
          /\ pc' = [pc EXCEPT ![t] = "filling"]
          /\ UNCHANGED <<pending, context, nr, result>>
    /\ UNCHANGED <<capacity, outstanding, op, registered>>

RequestValid_OffByOne(r) ==
    /\ r.devPtr_offset >= 0
    /\ BufLen >= r.devPtr_offset
    /\ BufLen - r.devPtr_offset >= r.size - 1
    /\ r.file_offset >= 0
    /\ r.kind # "bad"

(* The constructor of BatchOperation. *)
RequestValid(r) ==
    /\ r.devPtr_offset >= 0
    /\ BufLen > r.devPtr_offset
    /\ BufLen - r.devPtr_offset >= r.size
    /\ r.file_offset >= 0
    /\ r.kind # "bad"

(* Each request is accepted as soon as it is valid. *)
SubmitOne_InsertsAtOnce(t, r) ==
    /\ pc[t] = "filling"
    /\ Cardinality(pending[t]) < nr[t]
    /\ r.fh \in registered
    /\ RequestValid(r)
    /\ \E o \in FreeOps :
         /\ pending' = [pending EXCEPT ![t] = @ \cup {o}]
         /\ outstanding' = [outstanding EXCEPT ![context[t]] = @ \cup {o}]
         /\ op' = [op EXCEPT ![o] = r]
    /\ UNCHANGED <<capacity, pc, context, nr, result, registered>>

(* The next request: getFileAndBuffer and the new BatchOperation. *)
SubmitOne(t, r) ==
    /\ pc[t] = "filling"
    /\ Cardinality(pending[t]) < nr[t]
    /\ r.fh \in registered
    /\ RequestValid(r)
    /\ \E o \in FreeOps :
         /\ pending' = [pending EXCEPT ![t] = @ \cup {o}]
         /\ op' = [op EXCEPT ![o] = r]
    /\ UNCHANGED <<capacity, outstanding, pc, context, nr, result, registered>>

(* The lookup throws, or a temporary buffer cannot be made, or the request  *)
(* is refused: the operations made so far are dropped.                      *)
SubmitThrows(t, r) ==
    /\ pc[t] = "filling"
    /\ Cardinality(pending[t]) < nr[t]
    /\ \/ /\ r.fh \notin registered
          /\ Return(t, "Error")
       \/ /\ r.fh \in registered
          /\ Return(t, "Error")
       \/ /\ r.fh \in registered
          /\ ~RequestValid(r)
          /\ Return(t, "InvalidValue")
    /\ op' = [o \in BatchOps |-> IF o \in pending[t] THEN NoRequest ELSE op[o]]
    /\ UNCHANGED <<capacity, outstanding, registered>>

(* All are valid: outstanding_ops.insert. *)
SubmitAccept(t) ==
    /\ pc[t] = "filling"
    /\ Cardinality(pending[t]) = nr[t]
    /\ outstanding' = [outstanding EXCEPT ![context[t]] = @ \cup pending[t]]
    /\ Return(t, "Success")
    /\ UNCHANGED <<capacity, op, registered>>

-----------------------------------------------------------------------------
(* What DriverState does meanwhile: files are registered, deregistered when *)
(* no operation references them, and cleared by the last close, which keeps *)
(* the contexts.                                                            *)
HandleRegister(f) ==
    /\ f \notin registered
    /\ registered' = registered \cup {f}
    /\ UNCHANGED <<capacity, outstanding, pending, op, pc, context, nr, result>>

HandleDeregister(f) ==
    /\ f \in registered
    /\ \A o \in BatchOps \ FreeOps : op[o].fh # f
    /\ registered' = registered \ {f}
    /\ UNCHANGED <<capacity, outstanding, pending, op, pc, context, nr, result>>

DriverClose ==
    /\ registered # {}
    /\ registered' = {}
    /\ UNCHANGED <<capacity, outstanding, pending, op, pc, context, nr, result>>

Next ==
    \/ \E t \in Threads :
         \/ \E n \in 0..(MAX_SIZE + 1) : BatchIOSetUp(t, n)
         \/ \E c \in Contexts, n \in 0..MaxNr : BatchIOSubmit(t, c, n)
         \/ SubmitLock(t)
         \/ \E r \in Requests : SubmitOne(t, r) \/ SubmitThrows(t, r)
         \/ SubmitAccept(t)
    \/ \E f \in Files : HandleRegister(f) \/ HandleDeregister(f)
    \/ DriverClose

Spec == Init /\ [][Next]_vars

-----------------------------------------------------------------------------
(* Properties *)

TypeOK ==
    /\ capacity \in [Contexts -> 0..MAX_SIZE]
    /\ outstanding \in [Contexts -> SUBSET BatchOps]
    /\ pending \in [Threads -> SUBSET BatchOps]
    /\ op \in [BatchOps -> Requests \cup {NoRequest}]
    /\ pc \in [Threads -> {"idle", "submitting", "filling"}]
    /\ context \in [Threads -> Contexts \cup {NoContext}]
    /\ nr \in [Threads -> 0..MaxNr]
    /\ result \in [Threads -> Results]
    /\ registered \in SUBSET Files

(* No interleaving of submissions takes a context over its capacity, so the *)
(* unsigned difference in submit_operations never wraps around.             *)
WithinCapacity == \A c \in Contexts : Cardinality(outstanding[c]) <= capacity[c]

(* batch.h: "This is an All or None operation."  A context's operations     *)
(* change only when a submission returns success, and then by exactly the   *)
(* number of requests it was given.                                         *)
AllOrNone ==
    [][ \A c \in Contexts : outstanding'[c] # outstanding[c] =>
          \E t \in Threads :
            /\ HoldsContext(t, c) /\ pc'[t] = "idle" /\ result'[t] = "Success"
            /\ Cardinality(outstanding'[c]) = Cardinality(outstanding[c]) + nr[t] ]_vars

(* An accepted operation lies inside its buffer and moves forward in its    *)
(* file, whatever mixture of good and bad requests it was submitted with.   *)
AcceptedAreValid ==
    \A c \in Contexts : \A o \in outstanding[c] :
      op[o].devPtr_offset >= 0 /\ op[o].devPtr_offset + op[o].size <= BufLen
        /\ op[o].file_offset >= 0

=============================================================================
