------------------------------ MODULE NvidiaApi ------------------------------
(***************************************************************************)
(* The API on NVIDIA (nvidia_detail/hipfile.cpp): every call converts its  *)
(* arguments, calls cuFile and converts the answer; an exception on the    *)
(* way becomes hipFileInternalError.  The library keeps no state.  cuFile  *)
(* is external: it may answer any error, also one that this version of the *)
(* library does not know, and it keeps a batch whose operations finish in  *)
(* any order.                                                              *)
(***************************************************************************)
EXTENDS CuFileTypes, FiniteSets

CONSTANTS
    MaxOps,          \* bound: operations submitted to a batch
    FinalStatuses,   \* statuses of cuFile's events, known and unknown
    SomeErrors,      \* bound: cuFile's errors in answer to calls with arguments
                     \* to convert and to calls on the batch
    UnknownError,    \* a CUfileOpError the library does not know
    ReportedProps    \* the driver properties cuFile may report

ASSUME ApiAssumption ==
    /\ MaxOps \in Nat
    /\ SomeErrors \subseteq DOMAIN CUfileOpError \ {"CU_FILE_SUCCESS"}
    /\ UnknownError \notin DOMAIN CUfileOpError
    /\ ReportedProps \subseteq CUfileDrvProps

VARIABLES
    call,       \* the last API call and what the application passed
    reached,    \* what reached cuFile of it; fn is "none" if nothing did
    answer,     \* cuFile's answer
    result,     \* the status the application got
    out,        \* what else the call gave it, the return value of a read or what
                \* was stored through a pointer: << >> or << value >>
    batch,      \* cuFile: the batch exists
    queue,      \* cuFile: operations submitted and not finished
    finished,   \* cuFile: events not handed out
    accepted,   \* the operations for which hipFileBatchIOSubmit returned success
    received,   \* the events the application got
    handed,     \* cuFile's side of them
    lost        \* events handed out to a call that returned an error

last  == <<call, reached, answer, result, out>>
ofCu  == <<batch, queue, finished>>
ofApp == <<accepted, received, handed, lost>>
vars  == <<last, ofCu, ofApp>>

Nothing    == [fn |-> "none", arg |-> << >>]
Success    == [err |-> "CU_FILE_SUCCESS", drv |-> "success"]
HipSuccess == [err |-> "hipFileSuccess", drv |-> "success"]

(* What cuFile may answer: a code, with a CUDA error that means something   *)
(* only next to one of them.                                                *)
Errors     == (DOMAIN CUfileOpError \cup {UnknownError}) \ {"CU_FILE_SUCCESS"}
Answers    == {Success} \cup [err : Errors, drv : {"success", "OutOfMemory"}]
FewAnswers == {Success} \cup [err : SomeErrors \cup {UnknownError}, drv : {"OutOfMemory"}]

(* What a read or write of cuFile may return: a count, -1 with errno, or a  *)
(* negative code, also a number that is none.                               *)
Returns ==
    {0, 1, -1, -CUFILEOP_BASE_ERR} \cup {-CUfileOpError[c] : c \in DOMAIN CUfileOpError}

InternalError == [err |-> "hipFileInternalError", drv |-> "success"]

(* A code the switch does not list is passed on. *)
Converted_Cast(cu) ==
    IF toHipFileOpError(cu.err) = NotConverted THEN cu ELSE toHipFileError(cu)

(* return toHipFileError(status), inside the function's try block. *)
Converted(cu) ==
    IF toHipFileOpError(cu.err) = NotConverted THEN InternalError ELSE toHipFileError(cu)

(* The call fn(arg) of the application, passed on as cuarg, answered by cu. *)
Passed(fn, arg, cuarg, cu) ==
    /\ call = Nothing
    /\ call' = [fn |-> fn, arg |-> arg]
    /\ reached' = [fn |-> fn, arg |-> cuarg]
    /\ answer' = cu

(* A conversion throws before cuFile is called. *)
Refused(fn, arg) ==
    /\ call = Nothing
    /\ call' = [fn |-> fn, arg |-> arg]
    /\ reached' = Nothing
    /\ answer' = Success
    /\ result' = InternalError
    /\ out' = << >>
    /\ UNCHANGED <<ofCu, ofApp>>

Init ==
    /\ call = Nothing /\ reached = Nothing
    /\ answer = Success /\ result = HipSuccess /\ out = << >>
    /\ batch = FALSE /\ queue = << >> /\ finished = << >>
    /\ accepted = << >> /\ received = << >> /\ handed = << >> /\ lost = {}

(* The application has read the answer and goes on. *)
Proceed ==
    /\ call # Nothing
    /\ call' = Nothing /\ reached' = Nothing
    /\ answer' = Success /\ result' = HipSuccess /\ out' = << >>
    /\ UNCHANGED <<ofCu, ofApp>>

-----------------------------------------------------------------------------
(* Calls whose arguments need no conversion and that leave the batch alone: *)
(* BufRegister and BufDeregister; DriverOpen and DriverClose; DriverSet...; *)
(* StreamRegister, StreamDeregister, ReadAsync and WriteAsync.              *)
Forward(fn, cu) ==
    /\ Passed(fn, << >>, << >>, cu)
    /\ result' = Converted(cu)
    /\ out' = << >>
    /\ UNCHANGED <<ofCu, ofApp>>

Buf(cu)       == Forward("Buf", cu)
Driver(cu)    == Forward("Driver", cu)
DriverSet(cu) == Forward("DriverSet", cu)
Streams(cu)   == Forward("Streams", cu)

(* hipFileRead, hipFileWrite: what cuFile returned, unchanged. *)
hipFileRead(n) ==
    /\ Passed("ReadWrite", << >>, <<n>>, Success)
    /\ result' = HipSuccess
    /\ out' = <<n>>
    /\ UNCHANGED <<ofCu, ofApp>>

(* The descriptor's fs_ops is cuFile's afterwards, whatever it answered. *)
hipFileHandleRegister(descr, fs_ops, cu) ==
    LET cu_descr == toCUfileDescr(descr)
    IN  IF cu_descr.type = NotConverted THEN Refused("HandleRegister", descr)
        ELSE /\ Passed("HandleRegister", descr, cu_descr, cu)
             /\ out' = <<[descr EXCEPT !.fs_ops = fs_ops]>>
             /\ result' = Converted(cu)
             /\ UNCHANGED <<ofCu, ofApp>>

(* props is what cuFile reports. *)
hipFileDriverGetProperties(props, cu) ==
    /\ Passed("DriverGetProperties", << >>, props, cu)
    /\ out' = IF cu = Success THEN <<toHipFileDriverProps(props)>> ELSE << >>
    /\ result' = Converted(cu)
    /\ UNCHANGED <<ofCu, ofApp>>

(* hipFileGetParameter..., hipFileSetParameter... *)
Parameter(fn, param, converted, cu) ==
    IF converted = NotConverted THEN Refused(fn, param)
    ELSE /\ Passed(fn, param, converted, cu)
         /\ result' = Converted(cu)
         /\ out' = << >>
         /\ UNCHANGED <<ofCu, ofApp>>

ParameterSizeT(param, cu)  == Parameter("SizeT", param, toCUFileSizeTConfigParameter(param), cu)
ParameterBool(param, cu)   == Parameter("Bool", param, toCUFileBoolConfigParameter(param), cu)
ParameterString(param, cu) == Parameter("String", param, toCUFileStringConfigParameter(param), cu)

(* A call with a null pointer where the others are converted goes to cuFile *)
(* with a null pointer, which it refuses.                                   *)
NullPointer(cu) ==
    /\ cu # Success
    /\ Forward("NullPointer", cu)

-----------------------------------------------------------------------------
(* Batches *)

hipFileBatchIOSetUp(cu) ==
    /\ Passed("BatchIOSetUp", << >>, << >>, cu)
    /\ batch => cu # Success
    /\ batch' = (batch \/ cu = Success)
    /\ result' = Converted(cu)
    /\ out' = << >>
    /\ UNCHANGED <<queue, finished, ofApp>>

(* All requests are converted before any is submitted. *)
hipFileBatchIOSubmit(reqs, cu) ==
    LET io_params == [i \in DOMAIN reqs |-> toCUfileIOParams(reqs[i])]
    IN  IF \E i \in DOMAIN reqs : NotConverted \in {io_params[i].mode, io_params[i].opcode}
        THEN Refused("BatchIOSubmit", reqs)
        ELSE /\ Passed("BatchIOSubmit", reqs, io_params, cu)
             /\ ~batch => cu # Success
             /\ queue' = IF cu = Success THEN queue \o io_params ELSE queue
             /\ accepted' = IF cu = Success THEN accepted \o reqs ELSE accepted
             /\ result' = Converted(cu)
             /\ out' = << >>
             /\ UNCHANGED <<batch, finished, received, handed, lost>>

(* The loop over the events runs to the capacity of the array and not to    *)
(* the number of events, into the value-initialized rest of the vector.     *)
Events_Capacity(n, k) ==
    [i \in 1..n |-> IF i <= k THEN toHipFileIOEvents(finished[i])
                    ELSE [cookie |-> 0, status |-> NotConverted, ret |-> 0]]

Events(n, k) == [i \in 1..k |-> toHipFileIOEvents(finished[i])]

(* Room for n events; cuFile hands out k, none with an error, and stores    *)
(* their number in *nr.  The loop stores them one by one; one that cannot   *)
(* be converted, after m that could, ends the call with an error.           *)
hipFileBatchIOGetStatus(n, k, cu) ==
    LET iocbp == Events(n, k)
    IN  /\ Passed("BatchIOGetStatus", << >>, << >>, cu)
        /\ ~batch => cu # Success
        /\ k <= n /\ k <= Len(finished)
        /\ cu # Success => k = 0
        /\ finished' = SubSeq(finished, k + 1, Len(finished))
        /\ \E m \in 0..Len(iocbp) :
             /\ \A i \in 1..m : iocbp[i].status # NotConverted
             /\ m < Len(iocbp) => iocbp[m + 1].status = NotConverted
             /\ out' = <<[nr |-> k, iocbp |-> SubSeq(iocbp, 1, m)]>>
             /\ IF m = Len(iocbp)
                THEN /\ received' = received \o iocbp
                     /\ handed' = handed \o SubSeq(finished, 1, k)
                     /\ result' = Converted(cu)
                     /\ UNCHANGED lost
                ELSE /\ lost' = lost \cup {finished[i] : i \in 1..k}
                     /\ result' = InternalError
                     /\ UNCHANGED <<received, handed>>
        /\ UNCHANGED <<batch, queue, accepted>>

Event(op, status) == [cookie |-> op.cookie, status |-> status, ret |-> op.size]

hipFileBatchIOCancel(cu) ==
    /\ Passed("BatchIOCancel", << >>, << >>, cu)
    /\ ~batch => cu # Success
    /\ IF cu = Success
       THEN /\ finished' = finished \o [i \in DOMAIN queue |-> Event(queue[i], "CUFILE_CANCELED")]
            /\ queue' = << >>
       ELSE UNCHANGED <<queue, finished>>
    /\ result' = Converted(cu)
    /\ out' = << >>
    /\ UNCHANGED <<batch, ofApp>>

(* hipFileBatchIODestroy has no answer. *)
hipFileBatchIODestroy ==
    /\ call = Nothing
    /\ batch
    /\ batch' = FALSE /\ queue' = << >> /\ finished' = << >>
    /\ accepted' = << >> /\ received' = << >> /\ handed' = << >> /\ lost' = {}
    /\ UNCHANGED last

(* cuFile finishes the operation at place i of its queue. *)
Finish(i, status) ==
    /\ finished' = Append(finished, Event(queue[i], status))
    /\ queue' = SubSeq(queue, 1, i - 1) \o SubSeq(queue, i + 1, Len(queue))
    /\ UNCHANGED <<last, batch, ofApp>>

-----------------------------------------------------------------------------
(* What the application passes: also values the header does not name. *)

OrUnnamed(enum) == enum \cup {Unnamed}

Descriptor(type) ==
    [type   |-> type,
     handle |-> IF type = "hipFileHandleTypeOpaqueWin32" THEN [fd |-> Unset, hFile |-> "theirs"]
                ELSE [fd |-> "theirs", hFile |-> Unset],
     fs_ops |-> "theirs"]

Request(mode, opcode, i) ==
    [mode |-> mode, devPtr_base |-> "buffer", file_offset |-> "fileOffset",
     devPtr_offset |-> "bufferOffset", size |-> MaxOps + i, fh |-> "file", opcode |-> opcode, cookie |-> i]

Requests(n) ==
    {[i \in 1..n |-> Request(f[i][1], f[i][2], Len(accepted) + i)] :
       f \in [1..n -> OrUnnamed(hipFileBatchMode) \X OrUnnamed(hipFileOpcode)]}

Next ==
    \/ \E cu \in Answers :
         \/ Buf(cu) \/ Driver(cu) \/ DriverSet(cu) \/ Streams(cu) \/ NullPointer(cu)
    \/ \E cu \in FewAnswers :
         \/ \E type \in OrUnnamed(hipFileFileHandleType), fs_ops \in {"theirs", "cuFiles"} :
              hipFileHandleRegister(Descriptor(type), fs_ops, cu)
         \/ \E props \in ReportedProps : hipFileDriverGetProperties(props, cu)
         \/ \E param \in OrUnnamed(DOMAIN hipFileSizeTConfigParameter) : ParameterSizeT(param, cu)
         \/ \E param \in OrUnnamed(DOMAIN hipFileBoolConfigParameter) : ParameterBool(param, cu)
         \/ \E param \in OrUnnamed(DOMAIN hipFileStringConfigParameter) : ParameterString(param, cu)
         \/ hipFileBatchIOSetUp(cu)
         \/ \E n \in 0..(MaxOps - Len(accepted)) :
              \E reqs \in Requests(n) : hipFileBatchIOSubmit(reqs, cu)
         \/ \E n \in 0..MaxOps, k \in 0..MaxOps : hipFileBatchIOGetStatus(n, k, cu)
         \/ hipFileBatchIOCancel(cu)
    \/ \E n \in Returns : hipFileRead(n)
    \/ hipFileBatchIODestroy
    \/ Proceed
    \/ \E i \in DOMAIN queue, status \in FinalStatuses : Finish(i, status)

Spec == Init /\ [][Next]_vars

-----------------------------------------------------------------------------
(* Properties *)

TypeOK ==
    /\ result.err \in DOMAIN hipFileOpError
    /\ result.drv \in {"success", "OutOfMemory"}
    /\ answer \in Answers
    /\ batch \in BOOLEAN
    /\ Len(queue) + Len(finished) <= MaxOps
    /\ \A i \in DOMAIN received : received[i].status \in hipFileStatus

(* The application is told cuFile's error, whichever way it comes.  As a    *)
(* status, converted by one switch, it has cuFile's number in hipfile.h,    *)
(* the other switch converts it back to cuFile's code and a driver error    *)
(* brings its HIP error; exceptions are codes and events this version does  *)
(* not know.  As the negative number of a read or write, which nothing      *)
(* converts, it has the text of the code the switch would have given.       *)
AnswersAgree ==
    LET known   == answer.err \in DOMAIN CUfileOpError
        drv     == IF answer.err = "CU_FILE_CUDA_DRIVER_ERROR" THEN answer.drv ELSE "success"
        refused == reached.fn = "none" /\ call # Nothing
        cut     == reached.fn = "BatchIOGetStatus" /\ Len(out[1].iocbp) < out[1].nr
    IN  /\ \/ /\ known
              /\ hipFileOpError[result.err] = CUfileOpError[answer.err]
              /\ toCUfileError(result) = [err |-> answer.err, drv |-> drv]
           \/ result = InternalError /\ (~known \/ refused \/ cut)
        /\ (reached.fn = "ReadWrite" /\ out[1] < 0) =>
             hipFileGetOpErrorString(-out[1]) =
               toHipFileOpError(NameIn(CUfileOpError, -reached.arg[1]))

(* The call passes a value that hipfile.h does not name. *)
Nameless(c) ==
    CASE c.fn = "HandleRegister" -> c.arg.type \notin hipFileFileHandleType
      [] c.fn = "BatchIOSubmit" ->
           \E i \in DOMAIN c.arg :
             c.arg[i].mode \notin hipFileBatchMode \/ c.arg[i].opcode \notin hipFileOpcode
      [] c.fn = "SizeT"  -> c.arg \notin DOMAIN hipFileSizeTConfigParameter
      [] c.fn = "Bool"   -> c.arg \notin DOMAIN hipFileBoolConfigParameter
      [] c.fn = "String" -> c.arg \notin DOMAIN hipFileStringConfigParameter
      [] OTHER -> FALSE

(* What crosses the border keeps its meaning.  Converted back, by switches  *)
(* and assignments written separately, what reached cuFile is what the      *)
(* application passed, and what was stored for the application is what      *)
(* cuFile reported; a parameter has the same number on both sides.  A call  *)
(* is refused exactly when it passes a value that hipfile.h does not name.  *)
MeaningKept ==
    /\ CASE reached.fn = "HandleRegister" -> toHipFileDescr(reached.arg) = call.arg
         [] reached.fn = "BatchIOSubmit" ->
              [i \in DOMAIN reached.arg |-> toHipFileIOParams(reached.arg[i])] = call.arg
         [] reached.fn = "SizeT" ->
              CUFileSizeTConfigParameter[reached.arg] = hipFileSizeTConfigParameter[call.arg]
         [] reached.fn = "Bool" ->
              CUFileBoolConfigParameter[reached.arg] = hipFileBoolConfigParameter[call.arg]
         [] reached.fn = "String" ->
              CUFileStringConfigParameter[reached.arg] = hipFileStringConfigParameter[call.arg]
         [] OTHER -> TRUE
    /\ (reached.fn = "DriverGetProperties" /\ out # << >>) =>
         toCUfileDrvProps(out[1]) = <<reached.arg>>
    /\ Nameless(call) <=> (call # Nothing /\ reached.fn = "none")

(* Every operation whose submission succeeded is exactly once with cuFile,  *)
(* among the events of calls that succeeded, or among those of a call that  *)
(* failed, some of which may be in the application's array; nothing else    *)
(* is.  Only an event with a status cuFile's header does not name makes a   *)
(* call fail that way, and what was received is what cuFile reported.       *)
EventsDeliveredOnce ==
    LET cookies(s) == {s[i].cookie : i \in DOMAIN s}
    IN  /\ cookies(accepted) =
             cookies(queue) \cup cookies(finished) \cup cookies(received) \cup {e.cookie : e \in lost}
        /\ Len(accepted) =
             Len(queue) + Len(finished) + Len(received) + Cardinality(lost)
        /\ [i \in DOMAIN received |-> toCUfileIOEvents(received[i])] = handed
        /\ lost # {} => \E e \in lost : e.status \notin CUfileStatus

=============================================================================
