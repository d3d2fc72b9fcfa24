--------------------------- MODULE NvidiaApi_proofs ---------------------------
(***************************************************************************)
(* Proofs about NvidiaApi, for batches of any number of operations, any    *)
(* statuses and properties cuFile may report, any error it may answer and  *)
(* any width of unsigned int.                                              *)
(***************************************************************************)
EXTENDS NvidiaApi, FiniteSetTheorems, SequenceTheorems, TLAPS

-----------------------------------------------------------------------------
(* Tables *)

(* The numbers of the error codes start at the same base. *)
LEMMA Bases ==
    /\ HIPFILE_BASE_ERR = CUFILEOP_BASE_ERR
    /\ HIPFILE_BASE_ERR \in Nat /\ HIPFILE_BASE_ERR > 0
  BY DEF HIPFILE_BASE_ERR, CUFILEOP_BASE_ERR

(* The switch over cuFile's error codes lists every code; its result is a   *)
(* code of hipfile.h with the same number, which the other switch takes     *)
(* back to cuFile's.                                                        *)
LEMMA HipErrors ==
    /\ DOMAIN HipFileOpErrorOf = DOMAIN CUfileOpError
    /\ \A c \in DOMAIN CUfileOpError :
         /\ HipFileOpErrorOf[c] \in DOMAIN hipFileOpError
         /\ hipFileOpError[HipFileOpErrorOf[c]] = CUfileOpError[c]
         /\ CUfileOpErrorOf[HipFileOpErrorOf[c]] = c
         /\ HipFileOpErrorOf[c] # NotConverted
         /\ HipFileOpErrorOf[c] = "hipFileHipDriverError" <=> c = "CU_FILE_CUDA_DRIVER_ERROR"
  <1>1. DOMAIN HipFileOpErrorOf = DOMAIN CUfileOpError
    BY DEF HipFileOpErrorOf, CUfileOpError
  <1>2. \A c \in DOMAIN HipFileOpErrorOf : HipFileOpErrorOf[c] \in DOMAIN hipFileOpError
    BY DEF HipFileOpErrorOf, hipFileOpError
  <1>3. \A c \in DOMAIN HipFileOpErrorOf : hipFileOpError[HipFileOpErrorOf[c]] = CUfileOpError[c]
    BY Bases DEF HipFileOpErrorOf, hipFileOpError, CUfileOpError, HipCode, CuCode
  <1>4. \A c \in DOMAIN HipFileOpErrorOf : CUfileOpErrorOf[HipFileOpErrorOf[c]] = c
    BY DEF HipFileOpErrorOf, CUfileOpErrorOf
  <1>5. \A c \in DOMAIN HipFileOpErrorOf : HipFileOpErrorOf[c] # NotConverted
    BY DEF HipFileOpErrorOf, NotConverted
  <1>6. \A c \in DOMAIN HipFileOpErrorOf :
          HipFileOpErrorOf[c] = "hipFileHipDriverError" <=> c = "CU_FILE_CUDA_DRIVER_ERROR"
    BY DEF HipFileOpErrorOf
  <1> QED BY <1>1, <1>2, <1>3, <1>4, <1>5, <1>6

(* The switch over the error codes of hipfile.h lists every code, and its   *)
(* result has the same number in cuFile.  Codes have different numbers.     *)
LEMMA CuErrors ==
    /\ DOMAIN CUfileOpErrorOf = DOMAIN hipFileOpError
    /\ \A h \in DOMAIN hipFileOpError :
         /\ CUfileOpErrorOf[h] \in DOMAIN CUfileOpError
         /\ CUfileOpError[CUfileOpErrorOf[h]] = hipFileOpError[h]
    /\ \A g, h \in DOMAIN hipFileOpError : hipFileOpError[g] = hipFileOpError[h] => g = h
    /\ NotConverted \notin DOMAIN CUfileOpError
  <1>1. DOMAIN CUfileOpErrorOf = DOMAIN hipFileOpError
    BY DEF CUfileOpErrorOf, hipFileOpError
  <1>2. \A h \in DOMAIN CUfileOpErrorOf : CUfileOpErrorOf[h] \in DOMAIN CUfileOpError
    BY DEF CUfileOpErrorOf, CUfileOpError
  <1>3. \A h \in DOMAIN CUfileOpErrorOf : CUfileOpError[CUfileOpErrorOf[h]] = hipFileOpError[h]
    BY Bases DEF CUfileOpErrorOf, hipFileOpError, CUfileOpError, HipCode, CuCode
  <1>4. \A g, h \in DOMAIN hipFileOpError : hipFileOpError[g] = hipFileOpError[h] => g = h
    BY Bases DEF hipFileOpError, HipCode
  <1>5. NotConverted \notin DOMAIN CUfileOpError
    BY DEF CUfileOpError, NotConverted
  <1> QED BY <1>1, <1>2, <1>3, <1>4, <1>5

(* Success, internal errors and driver errors are codes. *)
LEMMA SomeCodes ==
    /\ "CU_FILE_SUCCESS" \in DOMAIN CUfileOpError
    /\ "hipFileSuccess" \in DOMAIN hipFileOpError
    /\ HipFileOpErrorOf["CU_FILE_SUCCESS"] = "hipFileSuccess"
    /\ "hipFileInternalError" \in DOMAIN hipFileOpError
  BY DEF CUfileOpError, hipFileOpError, HipFileOpErrorOf

(* The text for a number, as hipfile.h numbers the codes, is that of the    *)
(* code the switch gives for cuFile's code of this number.                  *)
LEMMA SameText ==
  ASSUME NEW v
  PROVE  NameIn(hipFileOpError, v) = toHipFileOpError(NameIn(CUfileOpError, v))
  <1>1. CASE v \in Range(CUfileOpError)
    <2>1. PICK c : c = NameIn(CUfileOpError, v)
      OBVIOUS
    <2>2. c \in DOMAIN CUfileOpError /\ CUfileOpError[c] = v
      BY <1>1, <2>1 DEF NameIn, Range
    <2>3. PICK h : h = HipFileOpErrorOf[c]
      OBVIOUS
    <2>4. h \in DOMAIN hipFileOpError /\ hipFileOpError[h] = v
      BY <2>2, <2>3, HipErrors
    <2>5. v \in Range(hipFileOpError)
      BY <2>4 DEF Range
    <2>6. NameIn(hipFileOpError, v) = h
      BY <2>4, <2>5, CuErrors DEF NameIn
    <2>7. toHipFileOpError(c) = h
      BY <2>2, <2>3, HipErrors DEF toHipFileOpError, Switch
    <2> QED BY <2>1, <2>6, <2>7
  <1>2. CASE v \notin Range(CUfileOpError)
    <2>1. v \notin Range(hipFileOpError)
      <3>1. ASSUME NEW h \in DOMAIN hipFileOpError, hipFileOpError[h] = v
            PROVE  FALSE
        BY <1>2, <3>1, CuErrors DEF Range
      <3> QED BY <3>1 DEF Range
    <2>2. NameIn(CUfileOpError, v) = NotConverted /\ NameIn(hipFileOpError, v) = NotConverted
      BY <1>2, <2>1 DEF NameIn
    <2>3. toHipFileOpError(NotConverted) = NotConverted
      BY HipErrors, CuErrors DEF toHipFileOpError, Switch
    <2> QED BY <2>2, <2>3
  <1> QED BY <1>1, <1>2

-----------------------------------------------------------------------------
(* Answers *)

(* The status r tells the application what cuFile's status a means. *)
Agrees(r, a) ==
    /\ a.err \in DOMAIN CUfileOpError
    /\ hipFileOpError[r.err] = CUfileOpError[a.err]
    /\ toCUfileError(r) =
         [err |-> a.err, drv |-> IF a.err = "CU_FILE_CUDA_DRIVER_ERROR" THEN a.drv ELSE "success"]

(* What cuFile may answer: a code of its enumeration or the unknown one,    *)
(* with a CUDA error that is one of two.  Success is among the answers.     *)
LEMMA AnswersAre ==
    /\ Success \in Answers
    /\ FewAnswers \subseteq Answers
    /\ \A cu \in Answers : /\ cu.err \in DOMAIN CUfileOpError \cup {UnknownError}
                           /\ cu.drv \in {"success", "OutOfMemory"}
                           /\ cu = [err |-> cu.err, drv |-> cu.drv]
    /\ UnknownError \notin DOMAIN CUfileOpError
  <1>1. UnknownError \notin DOMAIN CUfileOpError
    BY ApiAssumption
  <1>2. Success \in Answers /\ Success.err = "CU_FILE_SUCCESS" /\ Success.drv = "success"
    BY DEF Answers, Success
  <1>3. Errors \subseteq DOMAIN CUfileOpError \cup {UnknownError}
    BY DEF Errors
  <1>4. \A cu \in Answers : /\ cu.err \in DOMAIN CUfileOpError \cup {UnknownError}
                            /\ cu.drv \in {"success", "OutOfMemory"}
                            /\ cu = [err |-> cu.err, drv |-> cu.drv]
    BY <1>3, SomeCodes DEF Answers, Success
  <1>5. SomeErrors \cup {UnknownError} \subseteq Errors
    BY <1>1, SomeCodes, ApiAssumption DEF Errors
  <1>6. FewAnswers \subseteq Answers
    BY <1>5 DEF FewAnswers, Answers
  <1> QED BY <1>1, <1>2, <1>4, <1>6

(* An answer is converted to a status that means the same, or to an         *)
(* internal error if this version does not know the code.                   *)
LEMMA ConvertedAnswer ==
  ASSUME NEW cu \in Answers
  PROVE  /\ Converted(cu).err \in DOMAIN hipFileOpError
         /\ Converted(cu).drv \in {"success", "OutOfMemory"}
         /\ \/ Agrees(Converted(cu), cu)
            \/ cu.err \notin DOMAIN CUfileOpError /\ Converted(cu) = InternalError
  <1>1. CASE cu.err \in DOMAIN CUfileOpError
    <2>1. PICK h : h = HipFileOpErrorOf[cu.err]
      OBVIOUS
    <2>2. /\ h \in DOMAIN hipFileOpError /\ hipFileOpError[h] = CUfileOpError[cu.err]
          /\ CUfileOpErrorOf[h] = cu.err /\ h # NotConverted
          /\ h = "hipFileHipDriverError" <=> cu.err = "CU_FILE_CUDA_DRIVER_ERROR"
      BY <1>1, <2>1, HipErrors
    <2>3. toHipFileOpError(cu.err) = h
      BY <1>1, <2>1, HipErrors DEF toHipFileOpError, Switch
    <2>4. toCUfileOpError(h) = cu.err
      BY <2>2, CuErrors DEF toCUfileOpError
    <2>5. PICK d : d = IF cu.err = "CU_FILE_CUDA_DRIVER_ERROR" THEN cu.drv ELSE "success"
      OBVIOUS
    <2>6. Converted(cu) = [err |-> h, drv |-> d]
      BY <2>2, <2>3, <2>5 DEF Converted, toHipFileError
    <2>7. d = IF h = "hipFileHipDriverError" THEN d ELSE "success"
      BY <2>2, <2>5
    <2>8. toCUfileError([err |-> h, drv |-> d]) = [err |-> cu.err, drv |-> d]
      BY <2>4, <2>7 DEF toCUfileError
    <2>9. Agrees([err |-> h, drv |-> d], cu)
      BY <1>1, <2>2, <2>5, <2>8 DEF Agrees
    <2>10. d \in {"success", "OutOfMemory"}
      BY <2>5, AnswersAre
    <2> QED BY <2>2, <2>6, <2>9, <2>10
  <1>2. CASE cu.err \notin DOMAIN CUfileOpError
    <2>1. toHipFileOpError(cu.err) = NotConverted
      BY <1>2, HipErrors DEF toHipFileOpError, Switch
    <2>2. Converted(cu) = InternalError
      BY <2>1 DEF Converted
    <2>3. InternalError.err = "hipFileInternalError" /\ InternalError.drv = "success"
      BY DEF InternalError
    <2> QED BY <1>2, <2>2, <2>3, SomeCodes
  <1> QED BY <1>1, <1>2

(* Success agrees with success, and an internal error is a status. *)
LEMMA StatusFacts ==
    /\ Agrees(HipSuccess, Success)
    /\ HipSuccess.err \in DOMAIN hipFileOpError /\ HipSuccess.drv = "success"
    /\ InternalError.err \in DOMAIN hipFileOpError /\ InternalError.drv = "success"
  <1>1. Success.err = "CU_FILE_SUCCESS" /\ Success.drv = "success"
    BY DEF Success
  <1>2. toHipFileOpError("CU_FILE_SUCCESS") = "hipFileSuccess" /\ "hipFileSuccess" # NotConverted
    BY SomeCodes, HipErrors DEF toHipFileOpError, Switch
  <1>3. Converted(Success) = HipSuccess
    BY <1>1, <1>2 DEF Converted, toHipFileError, HipSuccess
  <1>4. Agrees(HipSuccess, Success)
    BY <1>1, <1>3, SomeCodes, AnswersAre, ConvertedAnswer
  <1>5. InternalError.err \in DOMAIN hipFileOpError /\ InternalError.drv = "success"
    BY SomeCodes DEF InternalError
  <1>6. HipSuccess.err \in DOMAIN hipFileOpError /\ HipSuccess.drv = "success"
    BY SomeCodes DEF HipSuccess
  <1> QED BY <1>4, <1>5, <1>6

-----------------------------------------------------------------------------
(* Conversions of arguments *)

(* A descriptor is refused if hipfile.h does not name its type; otherwise   *)
(* the conversion back gives the same descriptor.                           *)
LEMMA DescriptorBack ==
  ASSUME NEW type \in OrUnnamed(hipFileFileHandleType)
  PROVE  /\ Descriptor(type).type = type
         /\ toCUfileDescr(Descriptor(type)).type = NotConverted <=> type \notin hipFileFileHandleType
         /\ toCUfileDescr(Descriptor(type)).type # NotConverted =>
              toHipFileDescr(toCUfileDescr(Descriptor(type))) = Descriptor(type)
  <1>1. Descriptor(type).type = type
    BY DEF Descriptor
  <1>2. CASE type = Unnamed
    <2>1. type \notin hipFileFileHandleType
      BY <1>2 DEF Unnamed, hipFileFileHandleType
    <2>2. toCUfileDescr(Descriptor(type)).type = NotConverted
      BY <1>1, <1>2 DEF toCUfileDescr, Switch, Unnamed
    <2> QED BY <1>1, <2>1, <2>2
  <1>3. CASE type \in hipFileFileHandleType
    <2>1. /\ toCUfileDescr(Descriptor(type)).type # NotConverted
          /\ toHipFileFileHandleType(toCUfileDescr(Descriptor(type)).type) = type
          /\ toCUfileDescr(Descriptor(type)).type = "CU_FILE_HANDLE_TYPE_OPAQUE_WIN32"
               <=> type = "hipFileHandleTypeOpaqueWin32"
      BY <1>1, <1>3 DEF toCUfileDescr, Switch, hipFileFileHandleType, NotConverted,
                        toHipFileFileHandleType
    <2>2. PICK c : c = toCUfileDescr(Descriptor(type)).type
      OBVIOUS
    <2>3. CASE type = "hipFileHandleTypeOpaqueWin32"
      <3>1. toCUfileDescr(Descriptor(type)) =
              [type |-> c, handle |-> [fd |-> Unset, handle |-> "theirs"], fs_ops |-> "theirs"]
        BY <2>2, <2>3 DEF toCUfileDescr, Descriptor
      <3> QED BY <1>3, <2>1, <2>2, <2>3, <3>1 DEF toHipFileDescr, Descriptor
    <2>4. CASE type # "hipFileHandleTypeOpaqueWin32"
      <3>1. toCUfileDescr(Descriptor(type)) =
              [type |-> c, handle |-> [fd |-> "theirs", handle |-> Unset], fs_ops |-> "theirs"]
        BY <2>2, <2>4 DEF toCUfileDescr, Descriptor
      <3> QED BY <1>3, <2>1, <2>2, <2>4, <3>1 DEF toHipFileDescr, Descriptor
    <2> QED BY <2>3, <2>4
  <1> QED BY <1>2, <1>3 DEF OrUnnamed

(* The switch over h, whose result is c, refuses what the enumeration hip   *)
(* does not name and gives the member of cu with the same number.           *)
SameNumber(h, c, hip, cu) ==
    /\ c = NotConverted <=> h \notin DOMAIN hip
    /\ c # NotConverted => cu[c] = hip[h]

(* The switches over the parameters. *)
LEMMA ParameterSwitches ==
  ASSUME NEW h
  PROVE  /\ SameNumber(h, toCUFileSizeTConfigParameter(h), hipFileSizeTConfigParameter,
                       CUFileSizeTConfigParameter)
         /\ SameNumber(h, toCUFileBoolConfigParameter(h), hipFileBoolConfigParameter,
                       CUFileBoolConfigParameter)
         /\ SameNumber(h, toCUFileStringConfigParameter(h), hipFileStringConfigParameter,
                       CUFileStringConfigParameter)
  <1>1. SameNumber(h, toCUFileSizeTConfigParameter(h), hipFileSizeTConfigParameter,
                   CUFileSizeTConfigParameter)
    BY DEF SameNumber, toCUFileSizeTConfigParameter, hipFileSizeTConfigParameter,
           CUFileSizeTConfigParameter, Switch, NotConverted
  <1>2. SameNumber(h, toCUFileBoolConfigParameter(h), hipFileBoolConfigParameter,
                   CUFileBoolConfigParameter)
    BY DEF SameNumber, toCUFileBoolConfigParameter, hipFileBoolConfigParameter,
           CUFileBoolConfigParameter, Switch, NotConverted
  <1>3. SameNumber(h, toCUFileStringConfigParameter(h), hipFileStringConfigParameter,
                   CUFileStringConfigParameter)
    BY DEF SameNumber, toCUFileStringConfigParameter, hipFileStringConfigParameter,
           CUFileStringConfigParameter, Switch, NotConverted
  <1> QED BY <1>1, <1>2, <1>3

(* A number below the modulus is its own remainder. *)
LEMMA ModSmall ==
  ASSUME NEW x \in Nat, NEW m \in Nat, x <= m
  PROVE  x % (m + 1) = x
  <1>1. x = (m + 1) * (x \div (m + 1)) + (x % (m + 1))
    OBVIOUS
  <1>2. x \div (m + 1) \in Int /\ x % (m + 1) \in 0..m
    OBVIOUS
  <1>3. x \div (m + 1) = 0
    OBVIOUS
  <1> QED BY <1>1, <1>2, <1>3

(* Properties cuFile reported are converted back to themselves. *)
LEMMA PropertiesBack ==
  ASSUME NEW props \in CUfileDrvProps
  PROVE  toCUfileDrvProps(toHipFileDriverProps(props)) = <<props>>
  <1>1. PICK hip : hip = toHipFileDriverProps(props)
    OBVIOUS
  <1>2. /\ hip.max_device_cache_size = props.max_device_cache_size
        /\ hip.per_buffer_cache_size = props.per_buffer_cache_size
        /\ hip.max_device_pinned_mem_size = props.max_device_pinned_mem_size
    BY <1>1 DEF toHipFileDriverProps
  <1>3. /\ props.max_device_cache_size \in 0..UIntMax
        /\ props.per_buffer_cache_size \in 0..UIntMax
        /\ props.max_device_pinned_mem_size \in 0..UIntMax
    BY DEF CUfileDrvProps
  <1>4. ASSUME NEW x \in 0..UIntMax
        PROVE  ~(x > UIntMax) /\ x % (UIntMax + 1) = x
    BY ModSmall, UIntAssumption
  <1>5. /\ ~(hip.max_device_cache_size > UIntMax)
        /\ ~(hip.per_buffer_cache_size > UIntMax)
        /\ ~(hip.max_device_pinned_mem_size > UIntMax)
        /\ hip.max_device_cache_size % (UIntMax + 1) = props.max_device_cache_size
        /\ hip.per_buffer_cache_size % (UIntMax + 1) = props.per_buffer_cache_size
        /\ hip.max_device_pinned_mem_size % (UIntMax + 1) = props.max_device_pinned_mem_size
    BY <1>2, <1>3, <1>4
  <1>6. PICK back : back =
          [major_version |-> hip.major_version, minor_version |-> hip.minor_version,
           poll_thresh_size |-> hip.poll_thresh_size, max_direct_io_size |-> hip.max_direct_io_size,
           dstatusflags |-> hip.driver_status_flags, dcontrolflags |-> hip.driver_control_flags,
           fflags |-> hip.feature_flags,
           max_device_cache_size |-> hip.max_device_cache_size % (UIntMax + 1),
           per_buffer_cache_size |-> hip.per_buffer_cache_size % (UIntMax + 1),
           max_device_pinned_mem_size |-> hip.max_device_pinned_mem_size % (UIntMax + 1),
           max_batch_io_size |-> hip.max_batch_io_count,
           max_batch_io_timeout_msecs |-> hip.max_batch_io_timeout_msecs]
    OBVIOUS
  <1>7. toCUfileDrvProps(hip) = <<back>>
    BY <1>5, <1>6, Zenon DEF toCUfileDrvProps
  <1>8. back =
          [major_version |-> props.major_version, minor_version |-> props.minor_version,
           poll_thresh_size |-> props.poll_thresh_size,
           max_direct_io_size |-> props.max_direct_io_size,
           dstatusflags |-> props.dstatusflags, dcontrolflags |-> props.dcontrolflags,
           fflags |-> props.fflags,
           max_device_cache_size |-> props.max_device_cache_size,
           per_buffer_cache_size |-> props.per_buffer_cache_size,
           max_device_pinned_mem_size |-> props.max_device_pinned_mem_size,
           max_batch_io_size |-> props.max_batch_io_size,
           max_batch_io_timeout_msecs |-> props.max_batch_io_timeout_msecs]
    BY <1>1, <1>5, <1>6 DEF toHipFileDriverProps
  <1>9. back = props
    BY <1>8 DEF CUfileDrvProps
  <1> QED BY <1>1, <1>7, <1>9

-----------------------------------------------------------------------------
(* The last call *)

(* What TypeOK says of the last call, answered a, with the result r. *)
TypeOfLast(a, r) ==
    r.err \in DOMAIN hipFileOpError /\ r.drv \in {"success", "OutOfMemory"} /\ a \in Answers

(* The invariant of the last call. *)
LastInv == TypeOfLast(answer, result) /\ AnswersAgree /\ MeaningKept

(* The functions with arguments to convert, or with a value to hand out. *)
Special ==
    {"HandleRegister", "BatchIOSubmit", "SizeT", "Bool", "String", "DriverGetProperties"}

(* Where the answer comes as a status, it is enough that the statuses agree *)
(* or that there is a reason for an internal error.                         *)
LEMMA StatusAgrees ==
  ASSUME reached'.fn # "ReadWrite",
         \/ Agrees(result', answer')
         \/ /\ result' = InternalError
            /\ \/ answer'.err \notin DOMAIN CUfileOpError
               \/ reached'.fn = "none" /\ call' # Nothing
               \/ reached'.fn = "BatchIOGetStatus" /\ Len(out'[1].iocbp) < out'[1].nr
  PROVE  AnswersAgree'
  BY DEF AnswersAgree, Agrees

(* A call that reaches cuFile and whose answer is converted keeps all of    *)
(* the invariant but the meaning of its arguments.                          *)
LEMMA PassedOn ==
  ASSUME NEW fn, fn # "none", fn # "ReadWrite", NEW arg, NEW cuarg, NEW cu \in Answers,
         Passed(fn, arg, cuarg, cu), result' = Converted(cu)
  PROVE  TypeOfLast(answer', result') /\ AnswersAgree'
  <1>1. reached'.fn = fn /\ answer' = cu
    BY DEF Passed
  <1>2. TypeOfLast(answer', result')
    BY <1>1, ConvertedAnswer DEF TypeOfLast
  <1>3. \/ Agrees(result', answer')
        \/ result' = InternalError /\ answer'.err \notin DOMAIN CUfileOpError
    BY <1>1, ConvertedAnswer
  <1>4. AnswersAgree'
    BY <1>1, <1>3, StatusAgrees
  <1> QED BY <1>2, <1>4

(* Functions without arguments to convert have no meaning to keep. *)
LEMMA NoMeaning ==
  ASSUME reached'.fn \notin Special, call'.fn = reached'.fn, reached'.fn # "none" \/ call' = Nothing
  PROVE  MeaningKept'
  BY DEF MeaningKept, Special, Nameless

(* A call that is refused, because it passes a value without a name, keeps  *)
(* the invariant.                                                           *)
LEMMA RefusedKeeps ==
  ASSUME NEW fn, fn # "none", NEW arg, Nameless([fn |-> fn, arg |-> arg]), Refused(fn, arg)
  PROVE  LastInv'
  <1>1. /\ call' = [fn |-> fn, arg |-> arg] /\ reached' = Nothing /\ reached'.fn = "none"
        /\ answer' = Success /\ result' = InternalError
    BY DEF Refused, Nothing
  <1>2. call' # Nothing
    BY <1>1 DEF Nothing
  <1>3. TypeOfLast(answer', result')
    BY <1>1, StatusFacts, AnswersAre DEF TypeOfLast
  <1>4. AnswersAgree'
    BY <1>1, <1>2, StatusAgrees
  <1>5. Nameless(call')
    BY <1>1
  <1>6. MeaningKept'
    BY <1>1, <1>2, <1>5 DEF MeaningKept
  <1> QED BY <1>3, <1>4, <1>6 DEF LastInv

(* Calls without arguments to convert keep the invariant. *)
LEMMA ForwardKeeps ==
  ASSUME NEW fn, fn \notin Special \cup {"none", "ReadWrite"}, NEW cu \in Answers, Forward(fn, cu)
  PROVE  LastInv'
  <1>1. Passed(fn, << >>, << >>, cu) /\ result' = Converted(cu)
    BY DEF Forward
  <1>2. reached'.fn = fn /\ call'.fn = fn
    BY <1>1 DEF Passed
  <1>3. MeaningKept'
    BY <1>2, NoMeaning
  <1>4. TypeOfLast(answer', result') /\ AnswersAgree'
    BY <1>1, PassedOn
  <1> QED BY <1>3, <1>4 DEF LastInv

(* Reads and writes hand the number on, whose text is the same in both      *)
(* tables.                                                                  *)
LEMMA ReadKeeps ==
  ASSUME NEW n, hipFileRead(n)
  PROVE  LastInv'
  <1>1. /\ call'.fn = "ReadWrite" /\ reached'.fn = "ReadWrite" /\ reached'.arg = <<n>>
        /\ answer' = Success /\ result' = HipSuccess /\ out' = <<n>>
    BY DEF hipFileRead, Passed
  <1>2. TypeOfLast(answer', result')
    BY <1>1, StatusFacts, AnswersAre DEF TypeOfLast
  <1>3. Agrees(result', answer')
    BY <1>1, StatusFacts
  <1>4. out'[1] = n /\ reached'.arg[1] = n
    BY <1>1
  <1>5. hipFileGetOpErrorString(-n) = toHipFileOpError(NameIn(CUfileOpError, -n))
    BY SameText DEF hipFileGetOpErrorString
  <1>6. hipFileGetOpErrorString(-out'[1]) = toHipFileOpError(NameIn(CUfileOpError, -reached'.arg[1]))
    BY <1>4, <1>5
  <1>7. AnswersAgree'
    BY <1>3, <1>6 DEF AnswersAgree, Agrees
  <1>8. MeaningKept'
    BY <1>1, NoMeaning DEF Special
  <1> QED BY <1>2, <1>2, <1>7, <1>8 DEF LastInv

(* A descriptor that reaches cuFile is the application's. *)
LEMMA HandleRegisterKeeps ==
  ASSUME NEW type \in OrUnnamed(hipFileFileHandleType), NEW fs_ops, NEW cu \in Answers,
         hipFileHandleRegister(Descriptor(type), fs_ops, cu)
  PROVE  LastInv'
  <1>1. PICK descr : descr = Descriptor(type)
    OBVIOUS
  <1>2. /\ descr.type = type
        /\ toCUfileDescr(descr).type = NotConverted <=> type \notin hipFileFileHandleType
        /\ toCUfileDescr(descr).type # NotConverted => toHipFileDescr(toCUfileDescr(descr)) = descr
    BY <1>1, DescriptorBack
  <1>3. CASE toCUfileDescr(descr).type = NotConverted
    <2>1. Refused("HandleRegister", descr)
      BY <1>1, <1>3 DEF hipFileHandleRegister
    <2>2. Nameless([fn |-> "HandleRegister", arg |-> descr])
      BY <1>2, <1>3 DEF Nameless
    <2> QED BY <2>1, <2>2, RefusedKeeps
  <1>4. CASE toCUfileDescr(descr).type # NotConverted
    <2>1. Passed("HandleRegister", descr, toCUfileDescr(descr), cu) /\ result' = Converted(cu)
      BY <1>1, <1>4 DEF hipFileHandleRegister
    <2>2. TypeOfLast(answer', result') /\ AnswersAgree'
      BY <2>1, PassedOn
    <2>3. /\ reached'.fn = "HandleRegister" /\ reached'.arg = toCUfileDescr(descr)
          /\ call'.fn = "HandleRegister" /\ call'.arg = descr
      BY <2>1 DEF Passed
    <2>4. ~Nameless(call')
      BY <1>2, <1>4, <2>3 DEF Nameless
    <2>5. toHipFileDescr(reached'.arg) = call'.arg
      BY <1>2, <1>4, <2>3
    <2>6. MeaningKept'
      BY <2>3, <2>4, <2>5 DEF MeaningKept
    <2> QED BY <2>2, <2>6 DEF LastInv
  <1> QED BY <1>3, <1>4

(* The number of a parameter that reaches cuFile is the application's. *)
LEMMA ParameterKeeps ==
  ASSUME NEW fn \in {"SizeT", "Bool", "String"}, NEW param, NEW c, NEW hip, NEW cuenum,
         SameNumber(param, c, hip, cuenum),
         Nameless([fn |-> fn, arg |-> param]) <=> param \notin DOMAIN hip,
         NEW cu \in Answers, Parameter(fn, param, c, cu)
  PROVE  \/ LastInv'
         \/ /\ TypeOfLast(answer', result') /\ AnswersAgree'
            /\ reached'.fn = fn /\ ~Nameless(call')
            /\ cuenum[reached'.arg] = hip[call'.arg]
  <1>1. CASE c = NotConverted
    <2>1. Refused(fn, param)
      BY <1>1 DEF Parameter
    <2>2. Nameless([fn |-> fn, arg |-> param])
      BY <1>1 DEF SameNumber
    <2> QED BY <2>1, <2>2, RefusedKeeps
  <1>2. CASE c # NotConverted
    <2>1. Passed(fn, param, c, cu) /\ result' = Converted(cu)
      BY <1>2 DEF Parameter
    <2>2. TypeOfLast(answer', result') /\ AnswersAgree'
      BY <2>1, PassedOn
    <2>3. reached'.fn = fn /\ reached'.arg = c /\ call' = [fn |-> fn, arg |-> param]
      BY <2>1 DEF Passed
    <2>4. cuenum[c] = hip[param] /\ ~Nameless(call')
      BY <1>2, <2>3 DEF SameNumber
    <2> QED BY <2>2, <2>3, <2>4
  <1> QED BY <1>1, <1>2

(* Parameters of each of the three types. *)
LEMMA ParametersKeep ==
  ASSUME NEW param, NEW cu \in Answers,
         ParameterSizeT(param, cu) \/ ParameterBool(param, cu) \/ ParameterString(param, cu)
  PROVE  LastInv'
  <1>1. ASSUME ParameterSizeT(param, cu), ~LastInv'
        PROVE  FALSE
    <2>1. Parameter("SizeT", param, toCUFileSizeTConfigParameter(param), cu)
      BY <1>1 DEF ParameterSizeT
    <2>2. Nameless([fn |-> "SizeT", arg |-> param]) <=> param \notin DOMAIN hipFileSizeTConfigParameter
      BY DEF Nameless
    <2>3. /\ TypeOfLast(answer', result') /\ AnswersAgree'
          /\ reached'.fn = "SizeT" /\ ~Nameless(call')
          /\ CUFileSizeTConfigParameter[reached'.arg] = hipFileSizeTConfigParameter[call'.arg]
      BY <1>1, <2>1, <2>2, ParameterSwitches, ParameterKeeps
    <2>4. MeaningKept'
      BY <2>3 DEF MeaningKept
    <2> QED BY <1>1, <2>3, <2>4 DEF LastInv
  <1>2. ASSUME ParameterBool(param, cu), ~LastInv'
        PROVE  FALSE
    <2>1. Parameter("Bool", param, toCUFileBoolConfigParameter(param), cu)
      BY <1>2 DEF ParameterBool
    <2>2. Nameless([fn |-> "Bool", arg |-> param]) <=> param \notin DOMAIN hipFileBoolConfigParameter
      BY DEF Nameless
    <2>3. /\ TypeOfLast(answer', result') /\ AnswersAgree'
          /\ reached'.fn = "Bool" /\ ~Nameless(call')
          /\ CUFileBoolConfigParameter[reached'.arg] = hipFileBoolConfigParameter[call'.arg]
      BY <1>2, <2>1, <2>2, ParameterSwitches, ParameterKeeps
    <2>4. MeaningKept'
      BY <2>3 DEF MeaningKept
    <2> QED BY <1>2, <2>3, <2>4 DEF LastInv
  <1>3. ASSUME ParameterString(param, cu), ~LastInv'
        PROVE  FALSE
    <2>1. Parameter("String", param, toCUFileStringConfigParameter(param), cu)
      BY <1>3 DEF ParameterString
    <2>2. Nameless([fn |-> "String", arg |-> param]) <=> param \notin DOMAIN hipFileStringConfigParameter
      BY DEF Nameless
    <2>3. /\ TypeOfLast(answer', result') /\ AnswersAgree'
          /\ reached'.fn = "String" /\ ~Nameless(call')
          /\ CUFileStringConfigParameter[reached'.arg] = hipFileStringConfigParameter[call'.arg]
      BY <1>3, <2>1, <2>2, ParameterSwitches, ParameterKeeps
    <2>4. MeaningKept'
      BY <2>3 DEF MeaningKept
    <2> QED BY <1>3, <2>3, <2>4 DEF LastInv
  <1> QED BY <1>1, <1>2, <1>3

(* The properties stored for the application are cuFile's. *)
LEMMA DriverGetPropertiesKeeps ==
  ASSUME NEW props \in ReportedProps, NEW cu \in Answers, hipFileDriverGetProperties(props, cu)
  PROVE  LastInv'
  <1>1. Passed("DriverGetProperties", << >>, props, cu) /\ result' = Converted(cu)
    BY DEF hipFileDriverGetProperties
  <1>2. TypeOfLast(answer', result') /\ AnswersAgree'
    BY <1>1, PassedOn
  <1>3. /\ reached'.fn = "DriverGetProperties" /\ reached'.arg = props
        /\ call'.fn = "DriverGetProperties"
    BY <1>1 DEF Passed
  <1>4. out' = << >> \/ out' = <<toHipFileDriverProps(props)>>
    BY DEF hipFileDriverGetProperties
  <1>5. out' # << >> => out'[1] = toHipFileDriverProps(props)
    BY <1>4
  <1>6. toCUfileDrvProps(toHipFileDriverProps(props)) = <<props>>
    BY PropertiesBack, ApiAssumption
  <1>7. out' # << >> => toCUfileDrvProps(out'[1]) = <<reached'.arg>>
    BY <1>3, <1>5, <1>6
  <1>8. ~Nameless(call')
    BY <1>3 DEF Nameless
  <1>9. MeaningKept'
    BY <1>3, <1>7, <1>8 DEF MeaningKept
  <1> QED BY <1>2, <1>9 DEF LastInv

-----------------------------------------------------------------------------
(* Batches *)

AppRequests ==
    [mode : OrUnnamed(hipFileBatchMode), devPtr_base : {"buffer"}, file_offset : {"fileOffset"},
     devPtr_offset : {"bufferOffset"}, size : Nat, fh : {"file"},
     opcode : OrUnnamed(hipFileOpcode), cookie : Nat]

CuRequests == [mode : {"CUFILE_BATCH"}, devPtr_base : {"buffer"}, file_offset : {"fileOffset"},
               devPtr_offset : {"bufferOffset"}, size : Nat, fh : {"file"},
               opcode : {"CUFILE_READ", "CUFILE_WRITE"}, cookie : Nat]
CuEvents   == [cookie : Nat, status : FinalStatuses \cup {"CUFILE_CANCELED"}, ret : Nat]
HipEvents  == [cookie : Nat, status : hipFileStatus, ret : Nat]

(* A request is refused if hipfile.h does not name its mode or opcode.      *)
(* Otherwise it becomes a request of cuFile with the same cookie, and the   *)
(* conversion back gives the same request.                                  *)
LEMMA ConvertedRequest ==
  ASSUME NEW r \in AppRequests
  PROVE  /\ toCUfileIOParams(r).mode = NotConverted <=> r.mode \notin hipFileBatchMode
         /\ toCUfileIOParams(r).opcode = NotConverted <=> r.opcode \notin hipFileOpcode
         /\ toCUfileIOParams(r).mode # NotConverted /\ toCUfileIOParams(r).opcode # NotConverted =>
              /\ toCUfileIOParams(r) \in CuRequests
              /\ toCUfileIOParams(r).cookie = r.cookie
              /\ toHipFileIOParams(toCUfileIOParams(r)) = r
  <1>1. PICK m : m = toCUfileBatchMode(r.mode)
    OBVIOUS
  <1>2. PICK o : o = toCUfileOpcode(r.opcode)
    OBVIOUS
  <1>3. PICK c : c = toCUfileIOParams(r)
    OBVIOUS
  <1>4. c = [mode |-> m, devPtr_base |-> r.devPtr_base, file_offset |-> r.file_offset,
             devPtr_offset |-> r.devPtr_offset, size |-> r.size, fh |-> r.fh, opcode |-> o,
             cookie |-> r.cookie]
    BY <1>1, <1>2, <1>3 DEF toCUfileIOParams
  <1>5. /\ m = NotConverted <=> r.mode \notin hipFileBatchMode
        /\ m # NotConverted => m = "CUFILE_BATCH" /\ toHipFileBatchMode(m) = r.mode
    BY <1>1 DEF toCUfileBatchMode, toHipFileBatchMode, Switch, NotConverted, hipFileBatchMode
  <1>6. /\ o = NotConverted <=> r.opcode \notin hipFileOpcode
        /\ o # NotConverted => o \in {"CUFILE_READ", "CUFILE_WRITE"} /\ toHipFileOpcode(o) = r.opcode
    BY <1>2 DEF toCUfileOpcode, toHipFileOpcode, Switch, NotConverted, hipFileOpcode
  <1>7. c.mode = m /\ c.opcode = o /\ c.cookie = r.cookie
    BY <1>4
  <1>8. ASSUME m # NotConverted, o # NotConverted
        PROVE  c \in CuRequests /\ toHipFileIOParams(c) = r
    <2>1. c \in CuRequests
      BY <1>4, <1>5, <1>6, <1>8 DEF CuRequests, AppRequests
    <2>2. toHipFileIOParams(c) =
            [mode |-> r.mode, devPtr_base |-> r.devPtr_base, file_offset |-> r.file_offset,
             devPtr_offset |-> r.devPtr_offset, size |-> r.size, fh |-> r.fh, opcode |-> r.opcode,
             cookie |-> r.cookie]
      BY <1>4, <1>5, <1>6, <1>8 DEF toHipFileIOParams
    <2> QED BY <2>1, <2>2 DEF AppRequests
  <1> QED BY <1>3, <1>5, <1>6, <1>7, <1>8

(* Requests are a sequence whose cookies continue those accepted. *)
LEMMA RequestsAre ==
  ASSUME Len(accepted) \in Nat, NEW n \in Nat, NEW reqs \in Requests(n)
  PROVE  /\ reqs \in Seq(AppRequests) /\ Len(reqs) = n /\ DOMAIN reqs = 1..n
         /\ \A i \in 1..n : reqs[i].cookie = Len(accepted) + i
         /\ \A i \in 1..n : reqs[i] \in AppRequests
  <1>1. PICK f \in [1..n -> OrUnnamed(hipFileBatchMode) \X OrUnnamed(hipFileOpcode)] :
          reqs = [i \in 1..n |-> Request(f[i][1], f[i][2], Len(accepted) + i)]
    BY DEF Requests
  <1>2. DOMAIN reqs = 1..n
    BY <1>1
  <1>3. ASSUME NEW i \in 1..n
        PROVE  reqs[i] \in AppRequests /\ reqs[i].cookie = Len(accepted) + i
    <2>1. f[i] \in OrUnnamed(hipFileBatchMode) \X OrUnnamed(hipFileOpcode)
      BY <1>1
    <2>2. f[i][1] \in OrUnnamed(hipFileBatchMode) /\ f[i][2] \in OrUnnamed(hipFileOpcode)
      BY <2>1
    <2>3. Len(accepted) + i \in Nat /\ MaxOps + (Len(accepted) + i) \in Nat
      BY ApiAssumption
    <2>4. reqs[i] = Request(f[i][1], f[i][2], Len(accepted) + i)
      BY <1>1
    <2> QED BY <2>2, <2>3, <2>4 DEF AppRequests, Request
  <1>4. reqs \in [1..n -> AppRequests]
    BY <1>1, <1>2, <1>3
  <1>5. reqs \in Seq(AppRequests) /\ Len(reqs) = n
    BY <1>4
  <1> QED BY <1>2, <1>3, <1>5

(* The requests as cuFile gets them. *)
IoParams(reqs) == [i \in DOMAIN reqs |-> toCUfileIOParams(reqs[i])]

(* All requests could be converted. *)
AllConverted(reqs) ==
    \A i \in DOMAIN reqs : /\ toCUfileIOParams(reqs[i]).mode # NotConverted
                           /\ toCUfileIOParams(reqs[i]).opcode # NotConverted

(* Either all requests could be converted, or the submission is refused. *)
LEMMA SubmitCases ==
  ASSUME NEW reqs, NEW cu, hipFileBatchIOSubmit(reqs, cu)
  PROVE  \/ ~AllConverted(reqs) /\ Refused("BatchIOSubmit", reqs)
         \/ /\ AllConverted(reqs)
            /\ Passed("BatchIOSubmit", reqs, IoParams(reqs), cu)
            /\ queue' = IF cu = Success THEN queue \o IoParams(reqs) ELSE queue
            /\ accepted' = IF cu = Success THEN accepted \o reqs ELSE accepted
            /\ result' = Converted(cu)
            /\ UNCHANGED <<batch, finished, received, handed, lost>>
  BY DEF hipFileBatchIOSubmit, IoParams, AllConverted

(* Requests that reach cuFile are the application's. *)
LEMMA SubmitKeeps ==
  ASSUME Len(accepted) \in Nat, NEW n \in Nat, NEW reqs \in Requests(n), NEW cu \in Answers,
         hipFileBatchIOSubmit(reqs, cu)
  PROVE  LastInv'
  <1>1. /\ DOMAIN reqs = 1..n /\ reqs \in Seq(AppRequests)
        /\ \A i \in DOMAIN reqs : reqs[i] \in AppRequests
    BY RequestsAre
  <1>2. Nameless([fn |-> "BatchIOSubmit", arg |-> reqs]) <=> ~AllConverted(reqs)
    <2>1. ASSUME NEW i \in DOMAIN reqs
          PROVE  /\ toCUfileIOParams(reqs[i]).mode = NotConverted <=> reqs[i].mode \notin hipFileBatchMode
                 /\ toCUfileIOParams(reqs[i]).opcode = NotConverted <=> reqs[i].opcode \notin hipFileOpcode
      BY <1>1, ConvertedRequest
    <2> QED BY <2>1 DEF Nameless, AllConverted
  <1>3. CASE ~AllConverted(reqs)
    BY <1>2, <1>3, SubmitCases, RefusedKeeps
  <1>4. CASE AllConverted(reqs)
    <2>1. Passed("BatchIOSubmit", reqs, IoParams(reqs), cu) /\ result' = Converted(cu)
      BY <1>4, SubmitCases
    <2>2. TypeOfLast(answer', result') /\ AnswersAgree'
      BY <2>1, PassedOn
    <2>3. /\ reached'.fn = "BatchIOSubmit" /\ reached'.arg = IoParams(reqs)
          /\ call' = [fn |-> "BatchIOSubmit", arg |-> reqs] /\ call'.arg = reqs
      BY <2>1 DEF Passed
    <2>4. \A i \in DOMAIN reqs : toHipFileIOParams(IoParams(reqs)[i]) = reqs[i]
      BY <1>1, <1>4, ConvertedRequest DEF IoParams, AllConverted
    <2>5. [i \in DOMAIN IoParams(reqs) |-> toHipFileIOParams(IoParams(reqs)[i])] = reqs
      <3>1. DOMAIN IoParams(reqs) = DOMAIN reqs
        BY DEF IoParams
      <3>2. reqs = [i \in DOMAIN reqs |-> reqs[i]]
        BY <1>1
      <3> QED BY <2>4, <3>1, <3>2, Zenon
    <2>6. [i \in DOMAIN reached'.arg |-> toHipFileIOParams(reached'.arg[i])] = call'.arg
      BY <2>3, <2>5, Zenon
    <2>7. ~Nameless(call')
      BY <1>2, <1>4, <2>3
    <2>8. MeaningKept'
      BY <2>3, <2>6, <2>7, Zenon DEF MeaningKept
    <2> QED BY <2>2, <2>8 DEF LastInv
  <1> QED BY <1>3, <1>4

(* The loop over the events k that were handed out: either it converts all  *)
(* of them, or it stops at the first it cannot convert, with fewer stored.  *)
LEMMA GetStatusCases ==
  ASSUME NEW n, NEW k \in Nat, NEW cu, hipFileBatchIOGetStatus(n, k, cu)
  PROVE  \/ /\ \A i \in 1..k : toHipFileIOEvents(finished[i]).status # NotConverted
            /\ received' = received \o Events(n, k)
            /\ handed' = handed \o SubSeq(finished, 1, k)
            /\ result' = Converted(cu) /\ lost' = lost
         \/ /\ \E i \in 1..k : toHipFileIOEvents(finished[i]).status = NotConverted
            /\ Len(out'[1].iocbp) < out'[1].nr
            /\ result' = InternalError
            /\ lost' = lost \cup {finished[i] : i \in 1..k}
            /\ received' = received /\ handed' = handed
  <1>1. PICK ev : ev = Events(n, k)
    OBVIOUS
  <1>2. /\ DOMAIN ev = 1..k /\ ev = [i \in 1..k |-> ev[i]]
        /\ \A i \in 1..k : ev[i] = toHipFileIOEvents(finished[i])
    BY <1>1 DEF Events
  <1>3. ev \in Seq({ev[i] : i \in 1..k}) /\ Len(ev) = k
    <2>1. ev \in [1..k -> {ev[i] : i \in 1..k}]
      BY <1>2
    <2> QED BY <2>1
  <1>4. PICK m \in 0..k :
          /\ \A i \in 1..m : ev[i].status # NotConverted
          /\ m < k => ev[m + 1].status = NotConverted
          /\ out' = <<[nr |-> k, iocbp |-> SubSeq(ev, 1, m)]>>
          /\ IF m = k
             THEN /\ received' = received \o ev
                  /\ handed' = handed \o SubSeq(finished, 1, k)
                  /\ result' = Converted(cu)
                  /\ UNCHANGED lost
             ELSE /\ lost' = lost \cup {finished[i] : i \in 1..k}
                  /\ result' = InternalError
                  /\ UNCHANGED <<received, handed>>
    BY <1>1, <1>3 DEF hipFileBatchIOGetStatus
  <1>5. CASE m = k
    BY <1>1, <1>2, <1>4, <1>5
  <1>6. CASE m # k
    <2>1. m < k /\ m + 1 \in 1..k
      BY <1>6
    <2>2. \E i \in 1..k : toHipFileIOEvents(finished[i]).status = NotConverted
      BY <1>2, <1>4, <2>1
    <2>3. Len(SubSeq(ev, 1, m)) = m
      BY <1>3, <2>1
    <2>4. out'[1].nr = k /\ out'[1].iocbp = SubSeq(ev, 1, m)
      BY <1>4
    <2>5. Len(out'[1].iocbp) < out'[1].nr
      BY <2>1, <2>3, <2>4
    <2> QED BY <1>4, <1>6, <2>2, <2>5
  <1> QED BY <1>5, <1>6

(* A call that loses events says so. *)
LEMMA GetStatusKeeps ==
  ASSUME NEW n \in Nat, NEW k \in Nat, NEW cu \in Answers, hipFileBatchIOGetStatus(n, k, cu)
  PROVE  LastInv'
  <1>1. Passed("BatchIOGetStatus", << >>, << >>, cu)
    BY DEF hipFileBatchIOGetStatus
  <1>2. reached'.fn = "BatchIOGetStatus" /\ call'.fn = "BatchIOGetStatus" /\ answer' = cu
    BY <1>1 DEF Passed
  <1>3. MeaningKept'
    BY <1>2, NoMeaning DEF Special
  <1>4. CASE result' = Converted(cu)
    <2>1. TypeOfLast(answer', result') /\ AnswersAgree'
      BY <1>1, <1>4, PassedOn
    <2> QED BY <1>3, <2>1 DEF LastInv
  <1>5. CASE result' = InternalError /\ Len(out'[1].iocbp) < out'[1].nr
    <2>1. TypeOfLast(answer', result')
      BY <1>2, <1>5, StatusFacts DEF TypeOfLast
    <2>2. AnswersAgree'
      BY <1>2, <1>5, StatusAgrees
    <2> QED BY <1>3, <2>1, <2>2 DEF LastInv
  <1> QED BY <1>4, <1>5, GetStatusCases

(* Where the last call stays, the invariant stays. *)
LEMMA LastUnchanged ==
  ASSUME LastInv, UNCHANGED last
  PROVE  LastInv'
  <1>1. /\ call' = call /\ reached' = reached /\ answer' = answer /\ result' = result /\ out' = out
    BY DEF last
  <1>2. TypeOfLast(answer', result')
    BY <1>1 DEF LastInv
  <1>3. AnswersAgree'
    BY <1>1 DEF LastInv, AnswersAgree
  <1>4. MeaningKept'
    BY <1>1 DEF LastInv, MeaningKept
  <1> QED BY <1>2, <1>3, <1>4 DEF LastInv

(* Between two calls the invariant holds. *)
LEMMA LastNothing ==
  ASSUME call' = Nothing, reached' = Nothing, answer' = Success, result' = HipSuccess, out' = << >>
  PROVE  LastInv'
  <1>1. reached'.fn = "none" /\ call'.fn = "none"
    BY DEF Nothing
  <1>2. TypeOfLast(answer', result')
    BY StatusFacts, AnswersAre DEF TypeOfLast
  <1>3. AnswersAgree'
    BY <1>1, StatusFacts, StatusAgrees
  <1>4. MeaningKept'
    BY <1>1, NoMeaning DEF Special
  <1> QED BY <1>2, <1>3, <1>4 DEF LastInv

(* Initially the invariant of the last call holds. *)
LEMMA LastInit ==
  ASSUME Init
  PROVE  LastInv
  <1>1. /\ call = Nothing /\ reached = Nothing /\ answer = Success /\ result = HipSuccess
        /\ out = << >> /\ reached.fn = "none" /\ call.fn = "none"
    BY DEF Init, Nothing
  <1>2. TypeOfLast(answer, result)
    BY <1>1, StatusFacts, AnswersAre DEF TypeOfLast
  <1>3. AnswersAgree
    BY <1>1, StatusFacts DEF AnswersAgree, Agrees
  <1>4. MeaningKept
    BY <1>1 DEF MeaningKept, Nameless
  <1> QED BY <1>2, <1>3, <1>4 DEF LastInv

(* Every step keeps the invariant of the last call. *)
LEMMA LastStep ==
  ASSUME LastInv, Len(accepted) \in Nat, [Next]_vars
  PROVE  LastInv'
  <1>1. ASSUME NEW cu \in Answers,
               Buf(cu) \/ Driver(cu) \/ DriverSet(cu) \/ Streams(cu) \/ NullPointer(cu)
        PROVE  LastInv'
    BY <1>1, ForwardKeeps DEF Buf, Driver, DriverSet, Streams, NullPointer, Special
  <1>2. ASSUME NEW cu \in FewAnswers, NEW type \in OrUnnamed(hipFileFileHandleType),
               NEW fs_ops \in {"theirs", "cuFiles"}, hipFileHandleRegister(Descriptor(type), fs_ops, cu)
        PROVE  LastInv'
    BY <1>2, HandleRegisterKeeps, AnswersAre
  <1>3. ASSUME NEW cu \in FewAnswers, NEW props \in ReportedProps, hipFileDriverGetProperties(props, cu)
        PROVE  LastInv'
    BY <1>3, DriverGetPropertiesKeeps, AnswersAre
  <1>4. ASSUME NEW cu \in FewAnswers, NEW param,
               ParameterSizeT(param, cu) \/ ParameterBool(param, cu) \/ ParameterString(param, cu)
        PROVE  LastInv'
    BY <1>4, ParametersKeep, AnswersAre
  <1>5. ASSUME NEW cu \in FewAnswers, hipFileBatchIOSetUp(cu) \/ hipFileBatchIOCancel(cu)
        PROVE  LastInv'
    <2>1. PICK fn \in {"BatchIOSetUp", "BatchIOCancel"} : Passed(fn, << >>, << >>, cu)
      BY <1>5 DEF hipFileBatchIOSetUp, hipFileBatchIOCancel
    <2>2. result' = Converted(cu)
      BY <1>5 DEF hipFileBatchIOSetUp, hipFileBatchIOCancel
    <2>3. reached'.fn = fn /\ call'.fn = fn
      BY <2>1 DEF Passed
    <2>4. MeaningKept'
      BY <2>3, NoMeaning DEF Special
    <2>5. TypeOfLast(answer', result') /\ AnswersAgree'
      <3>1. cu \in Answers /\ fn # "none" /\ fn # "ReadWrite"
        BY AnswersAre
      <3> QED BY <2>1, <2>2, <3>1, PassedOn
    <2> QED BY <2>4, <2>5 DEF LastInv
  <1>6. ASSUME NEW cu \in FewAnswers, NEW n \in 0..(MaxOps - Len(accepted)), NEW reqs \in Requests(n),
               hipFileBatchIOSubmit(reqs, cu)
        PROVE  LastInv'
    <2>1. n \in Nat
      BY ApiAssumption
    <2> QED BY <1>6, <2>1, SubmitKeeps, AnswersAre
  <1>7. ASSUME NEW cu \in FewAnswers, NEW n \in 0..MaxOps, NEW k \in 0..MaxOps,
               hipFileBatchIOGetStatus(n, k, cu)
        PROVE  LastInv'
    <2>1. n \in Nat /\ k \in Nat
      BY ApiAssumption
    <2> QED BY <1>7, <2>1, GetStatusKeeps, AnswersAre
  <1>8. ASSUME NEW n \in Returns, hipFileRead(n)
        PROVE  LastInv'
    BY <1>8, ReadKeeps
  <1>9. CASE hipFileBatchIODestroy
    BY <1>9, LastUnchanged DEF hipFileBatchIODestroy
  <1>10. CASE Proceed
    BY <1>10, LastNothing DEF Proceed
  <1>11. ASSUME NEW i \in DOMAIN queue, NEW status \in FinalStatuses, Finish(i, status)
         PROVE  LastInv'
    BY <1>11, LastUnchanged DEF Finish
  <1>12. CASE UNCHANGED vars
    BY <1>12, LastUnchanged DEF vars
  <1> QED BY <1>1, <1>2, <1>3, <1>4, <1>5, <1>6, <1>7, <1>8, <1>9, <1>10, <1>11, <1>12 DEF Next

(* The cookies of a sequence of requests or events; no two have the same. *)
Cookies(s)  == {s[i].cookie : i \in DOMAIN s}
Distinct(s) == \A i, j \in DOMAIN s : s[i].cookie = s[j].cookie => i = j
Apart(s, t) == \A i \in DOMAIN s, j \in DOMAIN t : s[i].cookie # t[j].cookie

(* The sequence u has the elements of s and of t. *)
Both(S, s, t, u) ==
    /\ u \in Seq(S) /\ Len(u) = Len(s) + Len(t)
    /\ Cookies(u) = Cookies(s) \cup Cookies(t)
    /\ Distinct(s) /\ Distinct(t) /\ Apart(s, t) => Distinct(u)

(* Two sequences, one after the other. *)
LEMMA Concatenated ==
  ASSUME NEW S, NEW s \in Seq(S), NEW t \in Seq(S)
  PROVE  Both(S, s, t, s \o t)
  <1>1. PICK u : u = s \o t
    OBVIOUS
  <1>2. /\ u \in Seq(S) /\ Len(u) = Len(s) + Len(t)
        /\ DOMAIN u = 1..(Len(s) + Len(t)) /\ DOMAIN s = 1..Len(s) /\ DOMAIN t = 1..Len(t)
        /\ Len(s) \in Nat /\ Len(t) \in Nat
        /\ \A i \in 1..Len(s) : u[i] = s[i]
        /\ \A i \in (Len(s) + 1)..(Len(s) + Len(t)) : u[i] = t[i - Len(s)]
    BY <1>1
  <1>3. ASSUME NEW j \in 1..Len(t)
        PROVE  Len(s) + j \in (Len(s) + 1)..(Len(s) + Len(t)) /\ u[Len(s) + j] = t[j]
    <2>1. Len(s) + j \in (Len(s) + 1)..(Len(s) + Len(t)) /\ (Len(s) + j) - Len(s) = j
      BY <1>2
    <2>2. u[Len(s) + j] = t[(Len(s) + j) - Len(s)]
      BY <1>2, <2>1
    <2> QED BY <2>1, <2>2
  <1>4. \A i \in DOMAIN u : \/ i \in DOMAIN s /\ u[i] = s[i]
                            \/ i - Len(s) \in DOMAIN t /\ u[i] = t[i - Len(s)]
    BY <1>2
  <1>5. Cookies(u) \subseteq Cookies(s) \cup Cookies(t)
    BY <1>4 DEF Cookies
  <1>6. Cookies(s) \subseteq Cookies(u)
    BY <1>2 DEF Cookies
  <1>7. Cookies(t) \subseteq Cookies(u)
    <2>1. SUFFICES ASSUME NEW j \in DOMAIN t
                   PROVE  t[j].cookie \in Cookies(u)
      BY DEF Cookies
    <2>2. Len(s) + j \in DOMAIN u /\ u[Len(s) + j] = t[j]
      BY <1>2, <1>3
    <2> QED BY <2>2 DEF Cookies
  <1>8. ASSUME Distinct(s), Distinct(t), Apart(s, t)
        PROVE  Distinct(u)
    <2>1. SUFFICES ASSUME NEW i \in DOMAIN u, NEW j \in DOMAIN u, u[i].cookie = u[j].cookie
                   PROVE  i = j
      BY DEF Distinct
    <2>2. CASE i \in DOMAIN s /\ j \in DOMAIN s
      BY <1>2, <1>8, <2>1, <2>2 DEF Distinct
    <2>3. CASE i \in DOMAIN s /\ j \notin DOMAIN s
      <3>1. j - Len(s) \in DOMAIN t /\ u[j] = t[j - Len(s)] /\ u[i] = s[i]
        BY <1>2, <1>4, <2>3
      <3> QED BY <1>8, <2>1, <2>3, <3>1 DEF Apart
    <2>4. CASE i \notin DOMAIN s /\ j \in DOMAIN s
      <3>1. i - Len(s) \in DOMAIN t /\ u[i] = t[i - Len(s)] /\ u[j] = s[j]
        BY <1>2, <1>4, <2>4
      <3>2. s[j].cookie # t[i - Len(s)].cookie
        BY <1>8, <2>4, <3>1 DEF Apart
      <3> QED BY <2>1, <3>1, <3>2
    <2>5. CASE i \notin DOMAIN s /\ j \notin DOMAIN s
      <3>1. /\ i - Len(s) \in DOMAIN t /\ u[i] = t[i - Len(s)]
            /\ j - Len(s) \in DOMAIN t /\ u[j] = t[j - Len(s)]
        BY <1>4, <2>5
      <3>2. i - Len(s) = j - Len(s)
        BY <1>8, <2>1, <3>1 DEF Distinct
      <3> QED BY <1>2, <3>2
    <2> QED BY <2>2, <2>3, <2>4, <2>5
  <1>9. Cookies(u) = Cookies(s) \cup Cookies(t)
    BY <1>5, <1>6, <1>7
  <1>10. Both(S, s, t, u)
    BY <1>2, <1>8, <1>9 DEF Both
  <1> QED BY <1>1, <1>10

(* The part of a sequence after its first k elements, and these. *)
LEMMA Divided ==
  ASSUME NEW S, NEW s \in Seq(S), NEW k \in 0..Len(s)
  PROVE  LET h == SubSeq(s, 1, k)
             t == SubSeq(s, k + 1, Len(s))
         IN  /\ h \in Seq(S) /\ Len(h) = k /\ DOMAIN h = 1..k /\ \A i \in 1..k : h[i] = s[i]
             /\ t \in Seq(S) /\ Len(t) = Len(s) - k /\ DOMAIN t = 1..(Len(s) - k)
             /\ \A i \in 1..(Len(s) - k) : t[i] = s[k + i]
             /\ Cookies(s) = Cookies(h) \cup Cookies(t)
             /\ Distinct(s) => Distinct(h) /\ Distinct(t) /\ Apart(h, t)
  <1>1. PICK h : h = SubSeq(s, 1, k)
    OBVIOUS
  <1>2. PICK t : t = SubSeq(s, k + 1, Len(s))
    OBVIOUS
  <1>3. DOMAIN s = 1..Len(s) /\ Len(s) \in Nat /\ k \in Nat /\ k <= Len(s)
    OBVIOUS
  <1>4. h \in Seq(S) /\ Len(h) = k /\ DOMAIN h = 1..k /\ \A i \in 1..k : h[i] = s[i]
    BY <1>1, <1>3
  <1>5. /\ t \in Seq(S) /\ Len(t) = Len(s) - k /\ DOMAIN t = 1..(Len(s) - k)
        /\ \A i \in 1..(Len(s) - k) : t[i] = s[k + i]
    <2>1. k + 1 \in 1..(Len(s) + 1) /\ Len(s) \in ((k + 1) - 1)..Len(s)
      BY <1>3
    <2>2. /\ t \in Seq(S) /\ Len(t) = Len(s) - (k + 1) + 1
          /\ \A i \in 1..(Len(s) - (k + 1) + 1) : t[i] = s[(k + 1) + i - 1]
      BY <1>2, <2>1, SubSeqProperties
    <2>3. Len(s) - (k + 1) + 1 = Len(s) - k /\ \A i \in 1..(Len(s) - k) : (k + 1) + i - 1 = k + i
      BY <1>3
    <2>4. DOMAIN t = 1..Len(t)
      BY <2>2
    <2> QED BY <2>2, <2>3, <2>4
  <1>6. \A i \in 1..(Len(s) - k) : k + i \in DOMAIN s
    BY <1>3
  <1>7. \A i \in DOMAIN s : i \in 1..k \/ (i - k \in 1..(Len(s) - k) /\ k + (i - k) = i)
    BY <1>3
  <1>8. Cookies(h) \subseteq Cookies(s)
    BY <1>3, <1>4 DEF Cookies
  <1>9. Cookies(t) \subseteq Cookies(s)
    BY <1>5, <1>6 DEF Cookies
  <1>10. Cookies(s) \subseteq Cookies(h) \cup Cookies(t)
    <2>1. ASSUME NEW i \in DOMAIN s
          PROVE  \/ \E j \in DOMAIN h : h[j] = s[i]
                 \/ \E j \in DOMAIN t : t[j] = s[i]
      <3>1. CASE i \in 1..k
        BY <1>4, <3>1
      <3>2. CASE i \notin 1..k
        <4>1. i - k \in 1..(Len(s) - k) /\ k + (i - k) = i
          BY <1>7, <3>2
        <4>2. t[i - k] = s[k + (i - k)]
          BY <1>5, <4>1
        <4>3. t[i - k] = s[i] /\ i - k \in DOMAIN t
          BY <1>5, <4>1, <4>2
        <4> QED BY <4>3
      <3> QED BY <3>1, <3>2
    <2> QED BY <2>1 DEF Cookies
  <1>11. ASSUME Distinct(s)
         PROVE  Distinct(h) /\ Distinct(t) /\ Apart(h, t)
    <2>1. Distinct(h)
      BY <1>3, <1>4, <1>11 DEF Distinct
    <2>2. Distinct(t)
      <3>1. SUFFICES ASSUME NEW i \in DOMAIN t, NEW j \in DOMAIN t, t[i].cookie = t[j].cookie
                     PROVE  i = j
        BY DEF Distinct
      <3>2. /\ k + i \in DOMAIN s /\ k + j \in DOMAIN s
            /\ t[i] = s[k + i] /\ t[j] = s[k + j]
        BY <1>5, <1>6
      <3>3. k + i = k + j
        BY <1>11, <3>1, <3>2 DEF Distinct
      <3> QED BY <1>3, <1>5, <3>3
    <2>3. Apart(h, t)
      <3>1. SUFFICES ASSUME NEW i \in DOMAIN h, NEW j \in DOMAIN t
                     PROVE  h[i].cookie # t[j].cookie
        BY DEF Apart
      <3>2. i \in DOMAIN s /\ k + j \in DOMAIN s /\ i # k + j /\ h[i] = s[i] /\ t[j] = s[k + j]
        BY <1>3, <1>4, <1>5, <1>6
      <3> QED BY <1>11, <3>2 DEF Distinct
    <2> QED BY <2>1, <2>2, <2>3
  <1> QED BY <1>1, <1>2, <1>4, <1>5, <1>8, <1>9, <1>10, <1>11

(* The operations acc are each once in the queue q, among the events f that *)
(* are not handed out, among those received, r, or among those lost, l.     *)
TypeOfBatch(acc, q, f, r, l) ==
    /\ acc \in Seq(AppRequests) /\ q \in Seq(CuRequests) /\ f \in Seq(CuEvents)
    /\ r \in Seq(HipEvents) /\ l \subseteq CuEvents /\ IsFiniteSet(l)

Numbering(acc) == Len(acc) <= MaxOps /\ \A i \in DOMAIN acc : acc[i].cookie = i

Everywhere(acc, q, f, r, l) ==
    Cookies(acc) = Cookies(q) \cup Cookies(f) \cup Cookies(r) \cup {e.cookie : e \in l}

Counted(acc, q, f, r, l) == Len(acc) = Len(q) + Len(f) + Len(r) + Cardinality(l)

Separate(q, f, l) ==
    /\ Distinct(q) /\ Distinct(f) /\ Apart(q, f)
    /\ \A e \in l : e.cookie \notin Cookies(q) /\ e.cookie \notin Cookies(f)

Tracked(acc, q, f, r, l) ==
    /\ TypeOfBatch(acc, q, f, r, l)
    /\ Numbering(acc)
    /\ Everywhere(acc, q, f, r, l)
    /\ Counted(acc, q, f, r, l)
    /\ Separate(q, f, l)

(* The cookies of the operations are 1 to their number. *)
LEMMA CookiesOfAccepted ==
  ASSUME NEW acc, acc \in Seq(AppRequests), Numbering(acc)
  PROVE  Cookies(acc) = 1..Len(acc)
  BY DEF Numbering, Cookies

(* New operations get new cookies. *)
LEMMA TrackedSubmit ==
  ASSUME NEW acc, NEW q, NEW f, NEW r, NEW l, Tracked(acc, q, f, r, l),
         NEW n \in Nat, Len(acc) + n <= MaxOps,
         NEW reqs \in Seq(AppRequests), Len(reqs) = n,
         \A i \in 1..n : reqs[i].cookie = Len(acc) + i,
         NEW io \in Seq(CuRequests), Len(io) = n,
         \A i \in 1..n : io[i].cookie = Len(acc) + i
  PROVE  Tracked(acc \o reqs, q \o io, f, r, l)
  <1>1. /\ acc \in Seq(AppRequests) /\ q \in Seq(CuRequests) /\ f \in Seq(CuEvents)
        /\ Numbering(acc) /\ Everywhere(acc, q, f, r, l) /\ Separate(q, f, l)
    BY DEF Tracked, TypeOfBatch
  <1>2. Cookies(acc) = 1..Len(acc) /\ Len(acc) \in Nat
    BY <1>1, CookiesOfAccepted
  <1>3. DOMAIN reqs = 1..n /\ DOMAIN io = 1..n
    OBVIOUS
  <1>4. Cookies(reqs) = Cookies(io)
    BY <1>3 DEF Cookies
  <1>5. \A c \in Cookies(io) : c > Len(acc) /\ c \in Nat
    BY <1>2, <1>3 DEF Cookies
  <1>6. \A c \in Cookies(q) \cup Cookies(f) \cup {e.cookie : e \in l} : c \notin Cookies(io)
    <2>1. \A c \in Cookies(q) \cup Cookies(f) \cup {e.cookie : e \in l} : c \in 1..Len(acc)
      BY <1>1, <1>2 DEF Everywhere
    <2> QED BY <1>2, <1>5, <2>1
  <1>7. Distinct(io)
    BY <1>2, <1>3 DEF Distinct
  <1>8. Apart(q, io) /\ Apart(io, f)
    BY <1>6 DEF Apart, Cookies
  <1>9. /\ acc \o reqs \in Seq(AppRequests) /\ Len(acc \o reqs) = Len(acc) + n
        /\ Cookies(acc \o reqs) = Cookies(acc) \cup Cookies(reqs)
    <2>1. acc \in Seq(AppRequests)
      BY <1>1
    <2>2. Both(AppRequests, acc, reqs, acc \o reqs)
      BY <2>1, Concatenated, Zenon
    <2> QED BY <2>2 DEF Both
  <1>10. /\ q \o io \in Seq(CuRequests) /\ Len(q \o io) = Len(q) + n
         /\ Cookies(q \o io) = Cookies(q) \cup Cookies(io)
         /\ Distinct(q \o io)
    <2>1. q \in Seq(CuRequests) /\ Distinct(q)
      BY <1>1 DEF Separate
    <2>2. Both(CuRequests, q, io, q \o io)
      BY <2>1, Concatenated, Zenon
    <2> QED BY <1>7, <1>8, <2>1, <2>2 DEF Both
  <1>11. Apart(q \o io, f)
    <2>1. Cookies(q \o io) \cap Cookies(f) = {}
      <3>1. Cookies(q) \cap Cookies(f) = {}
        BY <1>1 DEF Separate, Apart, Cookies
      <3> QED BY <1>6, <1>10, <3>1
    <2> QED BY <2>1 DEF Apart, Cookies
  <1>12. Separate(q \o io, f, l)
    BY <1>1, <1>6, <1>10, <1>11 DEF Separate
  <1>13. Numbering(acc \o reqs)
    <2>1. SUFFICES ASSUME NEW i \in 1..(Len(acc) + n)
                   PROVE  (acc \o reqs)[i].cookie = i
      BY <1>9, <1>2 DEF Numbering
    <2>2. CASE i <= Len(acc)
      BY <1>1, <1>2, <2>2 DEF Numbering
    <2>3. CASE i > Len(acc)
      <3>1. (acc \o reqs)[i] = reqs[i - Len(acc)]
        BY <1>1, <1>2, <2>3
      <3>2. i - Len(acc) \in 1..n /\ Len(acc) + (i - Len(acc)) = i
        BY <1>2, <2>3
      <3> QED BY <3>1, <3>2
    <2> QED BY <1>2, <2>2, <2>3
  <1>14. Everywhere(acc \o reqs, q \o io, f, r, l)
    BY <1>1, <1>4, <1>9, <1>10 DEF Everywhere
  <1>15. Counted(acc \o reqs, q \o io, f, r, l)
    <2>1. /\ Len(acc) = Len(q) + Len(f) + Len(r) + Cardinality(l)
          /\ IsFiniteSet(l) /\ r \in Seq(HipEvents)
      BY DEF Tracked, Counted, TypeOfBatch
    <2>2. Len(q) \in Nat /\ Len(f) \in Nat /\ Len(r) \in Nat /\ Cardinality(l) \in Nat
      BY <1>1, <2>1, FS_CardinalityType
    <2>3. Len(acc) + n = (Len(q) + n) + Len(f) + Len(r) + Cardinality(l)
      BY <2>1, <2>2
    <2> QED BY <1>9, <1>10, <2>3 DEF Counted
  <1>16. TypeOfBatch(acc \o reqs, q \o io, f, r, l)
    BY <1>9, <1>10 DEF Tracked, TypeOfBatch
  <1> QED BY <1>12, <1>13, <1>14, <1>15, <1>16 DEF Tracked

(* An operation that finishes leaves the queue for the events. *)
LEMMA TrackedFinish ==
  ASSUME NEW acc, NEW q, NEW f, NEW r, NEW l, Tracked(acc, q, f, r, l),
         NEW i \in DOMAIN q, NEW e \in CuEvents, e.cookie = q[i].cookie
  PROVE  Tracked(acc, SubSeq(q, 1, i - 1) \o SubSeq(q, i + 1, Len(q)), Append(f, e), r, l)
  <1>1. /\ q \in Seq(CuRequests) /\ f \in Seq(CuEvents)
        /\ Everywhere(acc, q, f, r, l) /\ Separate(q, f, l)
    BY DEF Tracked, TypeOfBatch
  <1>2. i \in 1..Len(q) /\ Len(q) \in Nat
    BY <1>1
  <1>3. PICK h : h = SubSeq(q, 1, i - 1)
    OBVIOUS
  <1>4. PICK t : t = SubSeq(q, i + 1, Len(q))
    OBVIOUS
  <1>5. Distinct(q)
    BY <1>1 DEF Separate
  <1>6. /\ h \in Seq(CuRequests) /\ Len(h) = i - 1 /\ DOMAIN h = 1..(i - 1)
        /\ \A j \in 1..(i - 1) : h[j] = q[j]
        /\ Distinct(h)
    <2>1. i - 1 \in 0..Len(q)
      BY <1>2
    <2> QED BY <1>1, <1>3, <1>5, <2>1, Divided
  <1>7. /\ t \in Seq(CuRequests) /\ Len(t) = Len(q) - i /\ DOMAIN t = 1..(Len(q) - i)
        /\ \A j \in 1..(Len(q) - i) : t[j] = q[i + j]
        /\ Distinct(t)
    <2>1. i \in 0..Len(q)
      BY <1>2
    <2> QED BY <1>1, <1>4, <1>5, <2>1, Divided
  <1>8. \A j \in DOMAIN h : j \in DOMAIN q /\ j < i /\ h[j] = q[j]
    BY <1>1, <1>2, <1>6
  <1>9. \A j \in DOMAIN t : i + j \in DOMAIN q /\ i + j > i /\ t[j] = q[i + j]
    BY <1>1, <1>2, <1>7
  <1>10. Apart(h, t)
    <2>1. SUFFICES ASSUME NEW a \in DOMAIN h, NEW b \in DOMAIN t
                   PROVE  h[a].cookie # t[b].cookie
      BY DEF Apart
    <2>2. a # i + b
      BY <1>2, <1>6, <1>7
    <2> QED BY <1>5, <1>8, <1>9, <2>2 DEF Distinct
  <1>11. /\ h \o t \in Seq(CuRequests) /\ Len(h \o t) = (i - 1) + (Len(q) - i)
         /\ Cookies(h \o t) = Cookies(h) \cup Cookies(t)
         /\ Distinct(h \o t)
    <2>1. h \in Seq(CuRequests) /\ t \in Seq(CuRequests) /\ Distinct(h) /\ Distinct(t)
      BY <1>6, <1>7
    <2>2. Both(CuRequests, h, t, h \o t)
      BY <2>1, Concatenated, Zenon
    <2>3. /\ h \o t \in Seq(CuRequests) /\ Len(h \o t) = Len(h) + Len(t)
          /\ Cookies(h \o t) = Cookies(h) \cup Cookies(t)
          /\ Distinct(h \o t)
      BY <1>10, <2>1, <2>2, Zenon DEF Both
    <2>4. Len(h \o t) = (i - 1) + (Len(q) - i)
      BY <1>6, <1>7, <2>3
    <2> QED BY <2>3, <2>4
  <1>12. Cookies(h) \cup Cookies(t) = Cookies(q) \ {e.cookie}
    <2>1. ASSUME NEW j \in DOMAIN h
          PROVE  h[j].cookie \in Cookies(q) \ {e.cookie}
      <3>1. j \in DOMAIN q /\ j # i /\ h[j] = q[j]
        BY <1>2, <1>8
      <3> QED BY <1>5, <3>1 DEF Distinct, Cookies
    <2>2. ASSUME NEW j \in DOMAIN t
          PROVE  t[j].cookie \in Cookies(q) \ {e.cookie}
      <3>1. i + j \in DOMAIN q /\ i + j # i /\ t[j] = q[i + j]
        BY <1>2, <1>7, <1>9
      <3> QED BY <1>5, <3>1 DEF Distinct, Cookies
    <2>3. ASSUME NEW j \in DOMAIN q, q[j].cookie # e.cookie
          PROVE  q[j].cookie \in Cookies(h) \cup Cookies(t)
      <3>1. j # i /\ j \in 1..Len(q)
        BY <1>1, <2>3
      <3>2. CASE j < i
        <4>1. j \in DOMAIN h /\ h[j] = q[j]
          BY <1>2, <1>6, <3>1, <3>2
        <4> QED BY <4>1 DEF Cookies
      <3>3. CASE j > i
        <4>1. j - i \in 1..(Len(q) - i) /\ i + (j - i) = j
          BY <1>2, <3>1, <3>3
        <4>2. t[j - i] = q[i + (j - i)] /\ j - i \in DOMAIN t
          BY <1>7, <4>1
        <4>3. t[j - i] = q[j]
          BY <4>1, <4>2
        <4> QED BY <4>2, <4>3 DEF Cookies
      <3> QED BY <1>2, <3>1, <3>2, <3>3
    <2>4. Cookies(h) \cup Cookies(t) \subseteq Cookies(q) \ {e.cookie}
      BY <2>1, <2>2 DEF Cookies
    <2>5. Cookies(q) \ {e.cookie} \subseteq Cookies(h) \cup Cookies(t)
      BY <2>3 DEF Cookies
    <2> QED BY <2>4, <2>5
  <1>13. e.cookie \in Cookies(q)
    BY DEF Cookies
  <1>14. Cookies(q) \cap Cookies(f) = {}
    BY <1>1 DEF Separate, Apart, Cookies
  <1>15. PICK g : g = Append(f, e)
    OBVIOUS
  <1>16. /\ g \in Seq(CuEvents) /\ Len(g) = Len(f) + 1 /\ Len(f) \in Nat
         /\ DOMAIN g = 1..(Len(f) + 1) /\ DOMAIN f = 1..Len(f)
         /\ \A j \in 1..Len(f) : g[j] = f[j]
         /\ g[Len(f) + 1] = e
    BY <1>1, <1>15
  <1>17. Cookies(g) = Cookies(f) \cup {e.cookie}
    BY <1>16 DEF Cookies
  <1>18. Distinct(g)
    <2>1. e.cookie \notin Cookies(f)
      BY <1>13, <1>14
    <2>2. \A j \in 1..Len(f) : g[j].cookie # e.cookie
      BY <1>16, <2>1 DEF Cookies
    <2>3. \A a, b \in 1..Len(f) : g[a].cookie = g[b].cookie => a = b
      BY <1>1, <1>16 DEF Separate, Distinct
    <2>4. \A a \in DOMAIN g : a \in 1..Len(f) \/ a = Len(f) + 1
      BY <1>16
    <2> QED BY <1>16, <2>2, <2>3, <2>4 DEF Distinct
  <1>19. Cookies(h \o t) \cap Cookies(g) = {}
    BY <1>11, <1>12, <1>14, <1>17
  <1>20. Apart(h \o t, g)
    BY <1>19 DEF Apart, Cookies
  <1>21. Separate(h \o t, g, l)
    <2>1. \A x \in l : x.cookie \notin Cookies(h \o t) /\ x.cookie \notin Cookies(g)
      BY <1>1, <1>11, <1>12, <1>13, <1>17 DEF Separate
    <2> QED BY <1>11, <1>18, <1>20, <2>1 DEF Separate
  <1>22. Everywhere(acc, h \o t, g, r, l)
    BY <1>1, <1>11, <1>12, <1>13, <1>17 DEF Everywhere
  <1>23. Counted(acc, h \o t, g, r, l)
    <2>1. /\ Len(acc) = Len(q) + Len(f) + Len(r) + Cardinality(l)
          /\ IsFiniteSet(l) /\ r \in Seq(HipEvents)
      BY DEF Tracked, Counted, TypeOfBatch
    <2>2. Len(r) \in Nat /\ Cardinality(l) \in Nat
      BY <2>1, FS_CardinalityType
    <2>3. Len(h \o t) + Len(g) = Len(q) + Len(f)
      <3>1. Len(h \o t) = (i - 1) + (Len(q) - i) /\ Len(g) = Len(f) + 1 /\ Len(f) \in Nat
        BY <1>11, <1>16
      <3>2. ((i - 1) + (Len(q) - i)) + (Len(f) + 1) = Len(q) + Len(f)
        <4>1. ASSUME NEW a \in Int, NEW b \in Int, NEW c \in Int
              PROVE  ((c - 1) + (a - c)) + (b + 1) = a + b
          OBVIOUS
        <4>2. i \in Int /\ Len(q) \in Int /\ Len(f) \in Int
          BY <1>2, <3>1
        <4> QED BY <4>1, <4>2, Zenon
      <3> QED BY <3>1, <3>2
    <2>4. Len(h \o t) \in Nat /\ Len(g) \in Nat
      BY <1>11, <1>16
    <2> QED BY <1>2, <1>16, <2>1, <2>2, <2>3, <2>4 DEF Counted
  <1>24. TypeOfBatch(acc, h \o t, g, r, l) /\ Numbering(acc)
    BY <1>11, <1>16 DEF Tracked, TypeOfBatch
  <1>25. Tracked(acc, h \o t, g, r, l)
    BY <1>21, <1>22, <1>23, <1>24 DEF Tracked
  <1> QED BY <1>3, <1>4, <1>15, <1>25

(* Sequences with the same cookies in the same order. *)
LEMMA SameCookies ==
  ASSUME NEW s, NEW t, DOMAIN s = DOMAIN t, \A i \in DOMAIN s : s[i].cookie = t[i].cookie
  PROVE  Cookies(s) = Cookies(t) /\ (Distinct(s) => Distinct(t))
  <1>1. Cookies(s) \subseteq Cookies(t)
    BY DEF Cookies
  <1>2. Cookies(t) \subseteq Cookies(s)
    BY DEF Cookies
  <1>3. Distinct(s) => Distinct(t)
    BY DEF Distinct
  <1> QED BY <1>1, <1>2, <1>3

(* The lengths in a tracked batch are numbers. *)
LEMMA TrackedNumbers ==
  ASSUME NEW acc, NEW q, NEW f, NEW r, NEW l, Tracked(acc, q, f, r, l)
  PROVE  /\ Len(acc) \in Nat /\ Len(q) \in Nat /\ Len(f) \in Nat /\ Len(r) \in Nat
         /\ IsFiniteSet(l) /\ Cardinality(l) \in Nat
         /\ Len(acc) = Len(q) + Len(f) + Len(r) + Cardinality(l)
  BY FS_CardinalityType DEF Tracked, TypeOfBatch, Counted

(* Operations that are cancelled leave the queue for the events. *)
LEMMA TrackedCancel ==
  ASSUME NEW acc, NEW q, NEW f, NEW r, NEW l, Tracked(acc, q, f, r, l),
         NEW ev \in Seq(CuEvents), DOMAIN ev = DOMAIN q,
         \A i \in DOMAIN q : ev[i].cookie = q[i].cookie
  PROVE  Tracked(acc, << >>, f \o ev, r, l)
  <1>1. /\ q \in Seq(CuRequests) /\ f \in Seq(CuEvents)
        /\ Everywhere(acc, q, f, r, l) /\ Distinct(q) /\ Distinct(f) /\ Apart(q, f)
        /\ \A e \in l : e.cookie \notin Cookies(q) /\ e.cookie \notin Cookies(f)
    BY DEF Tracked, TypeOfBatch, Separate
  <1>2. Cookies(ev) = Cookies(q) /\ Distinct(ev)
    BY <1>1, SameCookies
  <1>3. Apart(f, ev)
    BY <1>1 DEF Apart
  <1>4. Len(ev) = Len(q)
    BY <1>1
  <1>5. /\ f \o ev \in Seq(CuEvents) /\ Len(f \o ev) = Len(f) + Len(ev)
        /\ Cookies(f \o ev) = Cookies(f) \cup Cookies(ev)
        /\ Distinct(f \o ev)
    <2>1. f \in Seq(CuEvents) /\ Distinct(f) /\ Distinct(ev)
      BY <1>1, <1>2
    <2>2. Both(CuEvents, f, ev, f \o ev)
      BY <2>1, Concatenated, Zenon
    <2> QED BY <1>3, <2>1, <2>2 DEF Both
  <1>6. Cookies(<< >>) = {} /\ Distinct(<< >>) /\ Apart(<< >>, f \o ev) /\ << >> \in Seq(CuRequests)
        /\ Len(<< >>) = 0
    BY DEF Cookies, Distinct, Apart
  <1>7. Separate(<< >>, f \o ev, l)
    BY <1>1, <1>2, <1>5, <1>6 DEF Separate
  <1>8. Everywhere(acc, << >>, f \o ev, r, l)
    BY <1>1, <1>2, <1>5, <1>6 DEF Everywhere
  <1>9. Counted(acc, << >>, f \o ev, r, l)
    <2>1. /\ Len(q) \in Nat /\ Len(f) \in Nat /\ Len(r) \in Nat /\ Cardinality(l) \in Nat
          /\ Len(acc) = Len(q) + Len(f) + Len(r) + Cardinality(l)
      BY TrackedNumbers
    <2>2. Len(f \o ev) = Len(f) + Len(q)
      BY <1>4, <1>5
    <2>3. Len(acc) = 0 + (Len(f) + Len(q)) + Len(r) + Cardinality(l)
      BY <2>1
    <2> QED BY <1>6, <2>2, <2>3 DEF Counted
  <1>10. TypeOfBatch(acc, << >>, f \o ev, r, l) /\ Numbering(acc)
    BY <1>5, <1>6 DEF Tracked, TypeOfBatch
  <1> QED BY <1>7, <1>8, <1>9, <1>10 DEF Tracked

(* The first k events are handed out: what stays is tracked, and the        *)
(* cookies of the others are apart from all that stays.                     *)
LEMMA HandedOut ==
  ASSUME NEW acc, NEW q, NEW f, NEW r, NEW l, Tracked(acc, q, f, r, l), NEW k \in 0..Len(f)
  PROVE  LET h == SubSeq(f, 1, k)
             t == SubSeq(f, k + 1, Len(f))
         IN  /\ h \in Seq(CuEvents) /\ Len(h) = k /\ DOMAIN h = 1..k /\ \A i \in 1..k : h[i] = f[i]
             /\ t \in Seq(CuEvents) /\ Len(t) = Len(f) - k
             /\ Cookies(f) = Cookies(h) \cup Cookies(t)
             /\ Distinct(h) /\ Distinct(t) /\ Apart(h, t)
             /\ Cookies(h) \cap Cookies(q) = {} /\ Cookies(h) \cap Cookies(t) = {}
             /\ Separate(q, t, l)
  <1>1. PICK h : h = SubSeq(f, 1, k)
    OBVIOUS
  <1>2. PICK t : t = SubSeq(f, k + 1, Len(f))
    OBVIOUS
  <1>3. /\ f \in Seq(CuEvents) /\ Distinct(q) /\ Distinct(f) /\ Apart(q, f)
        /\ \A e \in l : e.cookie \notin Cookies(q) /\ e.cookie \notin Cookies(f)
    BY DEF Tracked, TypeOfBatch, Separate
  <1>4. /\ h \in Seq(CuEvents) /\ Len(h) = k /\ DOMAIN h = 1..k /\ \A i \in 1..k : h[i] = f[i]
        /\ t \in Seq(CuEvents) /\ Len(t) = Len(f) - k
        /\ Cookies(f) = Cookies(h) \cup Cookies(t)
        /\ Distinct(h) /\ Distinct(t) /\ Apart(h, t)
    BY <1>1, <1>2, <1>3, Divided
  <1>5. Cookies(f) \cap Cookies(q) = {}
    BY <1>3 DEF Apart, Cookies
  <1>6. Cookies(h) \cap Cookies(q) = {} /\ Cookies(t) \cap Cookies(q) = {}
    BY <1>4, <1>5
  <1>7. Cookies(h) \cap Cookies(t) = {}
    BY <1>4 DEF Apart, Cookies
  <1>8. Apart(q, t)
    BY <1>6 DEF Apart, Cookies
  <1>9. Separate(q, t, l)
    BY <1>3, <1>4, <1>8 DEF Separate
  <1> QED BY <1>1, <1>2, <1>4, <1>6, <1>7, <1>9

(* Events that are received leave cuFile. *)
LEMMA TrackedReceive ==
  ASSUME NEW acc, NEW q, NEW f, NEW r, NEW l, Tracked(acc, q, f, r, l), NEW k \in 0..Len(f),
         NEW ev \in Seq(HipEvents), DOMAIN ev = 1..k, \A i \in 1..k : ev[i].cookie = f[i].cookie
  PROVE  Tracked(acc, q, SubSeq(f, k + 1, Len(f)), r \o ev, l)
  <1>1. PICK h : h = SubSeq(f, 1, k)
    OBVIOUS
  <1>2. PICK t : t = SubSeq(f, k + 1, Len(f))
    OBVIOUS
  <1>3. /\ h \in Seq(CuEvents) /\ Len(h) = k /\ DOMAIN h = 1..k /\ \A i \in 1..k : h[i] = f[i]
        /\ t \in Seq(CuEvents) /\ Len(t) = Len(f) - k
        /\ Cookies(f) = Cookies(h) \cup Cookies(t)
        /\ Separate(q, t, l)
    BY <1>1, <1>2, HandedOut
  <1>4. Cookies(ev) = Cookies(h)
    <2>1. \A i \in DOMAIN ev : ev[i].cookie = h[i].cookie
      BY <1>3
    <2> QED BY <1>3, <2>1, SameCookies
  <1>5. r \in Seq(HipEvents)
    BY DEF Tracked, TypeOfBatch
  <1>6. /\ r \o ev \in Seq(HipEvents) /\ Len(r \o ev) = Len(r) + Len(ev)
        /\ Cookies(r \o ev) = Cookies(r) \cup Cookies(ev)
    <2>1. Both(HipEvents, r, ev, r \o ev)
      BY <1>5, Concatenated, Zenon
    <2> QED BY <2>1 DEF Both
  <1>7. Everywhere(acc, q, t, r \o ev, l)
    <2>1. Everywhere(acc, q, f, r, l)
      BY DEF Tracked
    <2> QED BY <1>3, <1>4, <1>6, <2>1 DEF Everywhere
  <1>8. Counted(acc, q, t, r \o ev, l)
    <2>1. /\ Len(q) \in Nat /\ Len(f) \in Nat /\ Len(r) \in Nat /\ Cardinality(l) \in Nat
          /\ Len(acc) = Len(q) + Len(f) + Len(r) + Cardinality(l)
      BY TrackedNumbers
    <2>2. Len(ev) = k /\ k \in Nat
      BY <2>1
    <2>3. Len(acc) = Len(q) + (Len(f) - k) + (Len(r) + k) + Cardinality(l)
      BY <2>1, <2>2
    <2> QED BY <1>3, <1>6, <2>2, <2>3 DEF Counted
  <1>9. TypeOfBatch(acc, q, t, r \o ev, l) /\ Numbering(acc)
    BY <1>3, <1>6 DEF Tracked, TypeOfBatch
  <1>10. Tracked(acc, q, t, r \o ev, l)
    BY <1>3, <1>7, <1>8, <1>9 DEF Tracked
  <1> QED BY <1>2, <1>10

(* Different elements at different places: as many as places. *)
LEMMA ElementsOf ==
  ASSUME NEW h, NEW k \in Nat, DOMAIN h = 1..k, Distinct(h)
  PROVE  IsFiniteSet({h[i] : i \in 1..k}) /\ Cardinality({h[i] : i \in 1..k}) = k
  <1>1. PICK E : E = {h[i] : i \in 1..k}
    OBVIOUS
  <1>2. PICK g : g = [i \in 1..k |-> h[i]]
    OBVIOUS
  <1>3. g \in Bijection(1..k, E)
    <2>1. g \in [1..k -> E]
      BY <1>1, <1>2
    <2>2. \A a, b \in 1..k : g[a] = g[b] => a = b
      BY <1>2 DEF Distinct
    <2>3. \A e \in E : \E a \in 1..k : g[a] = e
      BY <1>1, <1>2
    <2> QED BY <2>1, <2>2, <2>3 DEF Bijection, Injection, Surjection, IsInjective
  <1>4. IsFiniteSet(1..k) /\ Cardinality(1..k) = k
    BY FS_Interval
  <1>5. ExistsBijection(1..k, E)
    BY <1>3 DEF ExistsBijection
  <1>6. IsFiniteSet(E) /\ Cardinality(E) = Cardinality(1..k)
    BY <1>4, <1>5, FS_Bijection
  <1> QED BY <1>1, <1>4, <1>6

(* Events that a failed call loses leave cuFile. *)
LEMMA TrackedLose ==
  ASSUME NEW acc, NEW q, NEW f, NEW r, NEW l, Tracked(acc, q, f, r, l), NEW k \in 0..Len(f)
  PROVE  Tracked(acc, q, SubSeq(f, k + 1, Len(f)), r, l \cup {f[i] : i \in 1..k})
  <1>1. PICK h : h = SubSeq(f, 1, k)
    OBVIOUS
  <1>2. PICK t : t = SubSeq(f, k + 1, Len(f))
    OBVIOUS
  <1>3. /\ h \in Seq(CuEvents) /\ DOMAIN h = 1..k /\ \A i \in 1..k : h[i] = f[i]
        /\ t \in Seq(CuEvents) /\ Len(t) = Len(f) - k
        /\ Cookies(f) = Cookies(h) \cup Cookies(t)
        /\ Distinct(h)
        /\ Cookies(h) \cap Cookies(q) = {} /\ Cookies(h) \cap Cookies(t) = {}
        /\ Separate(q, t, l)
    BY <1>1, <1>2, HandedOut
  <1>4. PICK E : E = {f[i] : i \in 1..k}
    OBVIOUS
  <1>5. E = {h[i] : i \in 1..k}
    BY <1>3, <1>4
  <1>6. k \in Nat
    BY TrackedNumbers
  <1>7. IsFiniteSet(E) /\ Cardinality(E) = k
    BY <1>3, <1>5, <1>6, ElementsOf
  <1>8. E \subseteq CuEvents
    BY <1>3, <1>5
  <1>9. {e.cookie : e \in E} = Cookies(h)
    BY <1>3, <1>5 DEF Cookies
  <1>10. l \subseteq CuEvents /\ Everywhere(acc, q, f, r, l) /\ Numbering(acc)
    BY DEF Tracked, TypeOfBatch
  <1>11. l \cap E = {}
    <2>1. \A e \in l : e.cookie \notin Cookies(f)
      BY DEF Tracked, Separate
    <2>2. \A e \in E : e.cookie \in Cookies(f)
      BY <1>3, <1>9
    <2> QED BY <2>1, <2>2
  <1>12. /\ Len(q) \in Nat /\ Len(f) \in Nat /\ Len(r) \in Nat
         /\ IsFiniteSet(l) /\ Cardinality(l) \in Nat
         /\ Len(acc) = Len(q) + Len(f) + Len(r) + Cardinality(l)
    BY TrackedNumbers
  <1>13. IsFiniteSet(l \cup E) /\ Cardinality(l \cup E) = Cardinality(l) + k
    <2>1. /\ IsFiniteSet(l \cup E)
          /\ Cardinality(l \cup E) = Cardinality(l) + Cardinality(E) - Cardinality(l \cap E)
      BY <1>7, <1>12, FS_Union, Zenon
    <2>2. Cardinality(l \cap E) = 0
      BY <1>11, FS_EmptySet
    <2> QED BY <1>6, <1>7, <1>12, <2>1, <2>2
  <1>14. Counted(acc, q, t, r, l \cup E)
    <2>1. Len(acc) = Len(q) + (Len(f) - k) + Len(r) + (Cardinality(l) + k)
      BY <1>6, <1>12
    <2> QED BY <1>3, <1>13, <2>1 DEF Counted
  <1>15. {e.cookie : e \in l \cup E} = {e.cookie : e \in l} \cup Cookies(h)
    BY <1>9
  <1>16. Everywhere(acc, q, t, r, l \cup E)
    BY <1>3, <1>10, <1>15 DEF Everywhere
  <1>17. Separate(q, t, l \cup E)
    <2>1. \A e \in E : e.cookie \in Cookies(h)
      BY <1>9
    <2> QED BY <1>3, <2>1 DEF Separate
  <1>18. TypeOfBatch(acc, q, t, r, l \cup E)
    BY <1>3, <1>8, <1>10, <1>13 DEF Tracked, TypeOfBatch
  <1>19. Tracked(acc, q, t, r, l \cup E)
    BY <1>10, <1>14, <1>16, <1>17, <1>18 DEF Tracked
  <1> QED BY <1>2, <1>4, <1>19

(* An empty batch. *)
LEMMA TrackedEmpty == Tracked(<< >>, << >>, << >>, << >>, {})
  <1>1. TypeOfBatch(<< >>, << >>, << >>, << >>, {})
    BY FS_EmptySet DEF TypeOfBatch
  <1>2. Numbering(<< >>)
    BY ApiAssumption DEF Numbering
  <1>3. Cookies(<< >>) = {} /\ Distinct(<< >>) /\ Apart(<< >>, << >>)
    BY DEF Cookies, Distinct, Apart
  <1>4. Everywhere(<< >>, << >>, << >>, << >>, {})
    BY <1>3 DEF Everywhere
  <1>5. Counted(<< >>, << >>, << >>, << >>, {})
    BY FS_EmptySet DEF Counted
  <1>6. Separate(<< >>, << >>, {})
    BY <1>3 DEF Separate
  <1> QED BY <1>1, <1>2, <1>4, <1>5, <1>6 DEF Tracked

(* What was received, r, is what cuFile reported, h. *)
Reported(r, h) ==
    /\ h \in Seq(CuEvents) /\ r \in Seq(HipEvents) /\ Len(r) = Len(h)
    /\ \A i \in 1..Len(r) : toCUfileIOEvents(r[i]) = h[i]

(* Only an event with an unknown status makes a call lose events. *)
Excused(l) == l # {} => \E e \in l : e.status \notin CUfileStatus

(* The invariant of the batch. *)
BatchInv ==
    /\ batch \in BOOLEAN
    /\ Tracked(accepted, queue, finished, received, lost)
    /\ Reported(received, handed)
    /\ Excused(lost)

(* What is at which place of a sequence u made of s and t. *)
Follows(S, s, t, u) ==
    /\ u \in Seq(S) /\ Len(u) = Len(s) + Len(t) /\ Len(s) \in Nat /\ Len(t) \in Nat
    /\ \A i \in 1..Len(s) : u[i] = s[i]
    /\ \A i \in (Len(s) + 1)..(Len(s) + Len(t)) : u[i] = t[i - Len(s)]

(* So it is with the two, one after the other. *)
LEMMA PlacesOf ==
  ASSUME NEW S, NEW s \in Seq(S), NEW t \in Seq(S)
  PROVE  Follows(S, s, t, s \o t)
  BY DEF Follows

(* More of what was reported is received. *)
LEMMA ReportedMore ==
  ASSUME NEW r, NEW h, Reported(r, h), NEW ev \in Seq(HipEvents), NEW cu \in Seq(CuEvents),
         Len(ev) = Len(cu), \A i \in 1..Len(ev) : toCUfileIOEvents(ev[i]) = cu[i]
  PROVE  Reported(r \o ev, h \o cu)
  <1>1. /\ h \in Seq(CuEvents) /\ r \in Seq(HipEvents) /\ Len(r) = Len(h)
        /\ \A i \in 1..Len(r) : toCUfileIOEvents(r[i]) = h[i]
    BY DEF Reported
  <1>2. PICK a : a = r \o ev
    OBVIOUS
  <1>3. PICK b : b = h \o cu
    OBVIOUS
  <1>4. /\ a \in Seq(HipEvents) /\ Len(a) = Len(r) + Len(ev) /\ Len(r) \in Nat /\ Len(ev) \in Nat
        /\ \A i \in 1..Len(r) : a[i] = r[i]
        /\ \A i \in (Len(r) + 1)..(Len(r) + Len(ev)) : a[i] = ev[i - Len(r)]
    <2>1. r \in Seq(HipEvents)
      BY <1>1
    <2>2. Follows(HipEvents, r, ev, r \o ev)
      BY <2>1, PlacesOf, Zenon
    <2> QED BY <1>2, <2>2, Zenon DEF Follows
  <1>5. /\ b \in Seq(CuEvents) /\ Len(b) = Len(h) + Len(cu)
        /\ \A i \in 1..Len(h) : b[i] = h[i]
        /\ \A i \in (Len(h) + 1)..(Len(h) + Len(cu)) : b[i] = cu[i - Len(h)]
    <2>1. h \in Seq(CuEvents)
      BY <1>1
    <2>2. Follows(CuEvents, h, cu, h \o cu)
      BY <2>1, PlacesOf, Zenon
    <2> QED BY <1>3, <2>2, Zenon DEF Follows
  <1>6. ASSUME NEW i \in 1..Len(a)
        PROVE  toCUfileIOEvents(a[i]) = b[i]
    <2>1. CASE i <= Len(r)
      <3>1. i \in 1..Len(r)
        BY <1>4, <2>1
      <3>2. a[i] = r[i] /\ b[i] = h[i]
        BY <1>1, <1>4, <1>5, <3>1
      <3> QED BY <1>1, <3>1, <3>2
    <2>2. CASE i > Len(r)
      <3>1. i \in (Len(r) + 1)..(Len(r) + Len(ev)) /\ i - Len(r) \in 1..Len(ev)
        BY <1>4, <2>2
      <3>2. a[i] = ev[i - Len(r)] /\ b[i] = cu[i - Len(r)]
        BY <1>1, <1>4, <1>5, <3>1
      <3> QED BY <3>1, <3>2
    <2> QED BY <1>4, <2>1, <2>2
  <1>7. Len(a) = Len(b)
    BY <1>1, <1>4, <1>5
  <1>8. Reported(a, b)
    BY <1>4, <1>5, <1>6, <1>7 DEF Reported
  <1> QED BY <1>2, <1>3, <1>8

(* An event whose status is converted is converted back to itself; one      *)
(* whose status is not has a status cuFile's header does not name.          *)
LEMMA EventBack ==
  ASSUME NEW e \in CuEvents
  PROVE  /\ toHipFileIOEvents(e).status # NotConverted =>
              /\ toHipFileIOEvents(e) \in HipEvents
              /\ toHipFileIOEvents(e).cookie = e.cookie
              /\ toCUfileIOEvents(toHipFileIOEvents(e)) = e
         /\ toHipFileIOEvents(e).status = NotConverted => e.status \notin CUfileStatus
  <1>1. PICK s : s = toHipFileStatus(e.status)
    OBVIOUS
  <1>2. /\ s # NotConverted => s \in hipFileStatus /\ toCUfileStatus(s) = e.status
        /\ s = NotConverted => e.status \notin CUfileStatus
    BY <1>1 DEF toHipFileStatus, toCUfileStatus, HipFileStatusOf, CUfileStatusOf, Switch,
                hipFileStatus, CUfileStatus, NotConverted
  <1>3. e = [cookie |-> e.cookie, status |-> e.status, ret |-> e.ret] /\ e.cookie \in Nat /\ e.ret \in Nat
    BY DEF CuEvents
  <1>4. toHipFileIOEvents(e) = [cookie |-> e.cookie, status |-> s, ret |-> e.ret]
    BY <1>1 DEF toHipFileIOEvents
  <1>5. s # NotConverted => toHipFileIOEvents(e) \in HipEvents
    BY <1>2, <1>3, <1>4 DEF HipEvents
  <1>6. s # NotConverted =>
          toCUfileIOEvents(toHipFileIOEvents(e)) =
            [cookie |-> e.cookie, status |-> e.status, ret |-> e.ret]
    BY <1>2, <1>4 DEF toCUfileIOEvents
  <1> QED BY <1>2, <1>3, <1>4, <1>5, <1>6

(* What the batch and its events are, as the properties say it. *)
LEMMA BatchGives ==
  ASSUME BatchInv
  PROVE  /\ EventsDeliveredOnce
         /\ Len(queue) + Len(finished) <= MaxOps
         /\ \A i \in DOMAIN received : received[i].status \in hipFileStatus
         /\ Len(accepted) \in Nat
  <1>1. /\ Tracked(accepted, queue, finished, received, lost) /\ Reported(received, handed)
        /\ Excused(lost) /\ Everywhere(accepted, queue, finished, received, lost)
        /\ received \in Seq(HipEvents)
    BY DEF BatchInv, Tracked, TypeOfBatch
  <1>2. /\ Len(accepted) \in Nat /\ Len(queue) \in Nat /\ Len(finished) \in Nat /\ Len(received) \in Nat
        /\ Cardinality(lost) \in Nat
        /\ Len(accepted) = Len(queue) + Len(finished) + Len(received) + Cardinality(lost)
    BY <1>1, TrackedNumbers
  <1>3. Len(accepted) <= MaxOps /\ MaxOps \in Nat
    BY <1>1, ApiAssumption DEF Tracked, Numbering
  <1>4. Len(queue) + Len(finished) <= MaxOps
    BY <1>2, <1>3
  <1>5. \A i \in DOMAIN received : received[i] \in HipEvents
    BY <1>1
  <1>6. \A i \in DOMAIN received : received[i].status \in hipFileStatus
    BY <1>5 DEF HipEvents
  <1>7. [i \in DOMAIN received |-> toCUfileIOEvents(received[i])] = handed
    <2>1. /\ handed \in Seq(CuEvents) /\ Len(received) = Len(handed)
          /\ \A i \in 1..Len(received) : toCUfileIOEvents(received[i]) = handed[i]
      BY <1>1 DEF Reported
    <2>2. DOMAIN received = 1..Len(received) /\ DOMAIN handed = 1..Len(handed)
      BY <1>1, <2>1
    <2>3. handed = [i \in DOMAIN handed |-> handed[i]]
      BY <2>1
    <2>4. DOMAIN received = DOMAIN handed
      BY <2>1, <2>2
    <2>5. \A i \in DOMAIN handed : toCUfileIOEvents(received[i]) = handed[i]
      BY <2>1, <2>2, <2>4
    <2> QED BY <2>3, <2>4, <2>5, Zenon
  <1>8. EventsDeliveredOnce
    BY <1>1, <1>2, <1>7, Zenon DEF EventsDeliveredOnce, Everywhere, Cookies, Excused
  <1> QED BY <1>2, <1>4, <1>6, <1>8

(* Submitted operations are tracked. *)
LEMMA SubmitBatch ==
  ASSUME BatchInv, NEW n \in 0..(MaxOps - Len(accepted)), NEW reqs \in Requests(n), NEW cu,
         hipFileBatchIOSubmit(reqs, cu)
  PROVE  BatchInv'
  <1>1. Tracked(accepted, queue, finished, received, lost) /\ Len(accepted) \in Nat
    BY BatchGives DEF BatchInv
  <1>2. n \in Nat /\ Len(accepted) + n <= MaxOps
    BY <1>1, ApiAssumption
  <1>3. CASE ~AllConverted(reqs)
    <2>1. Refused("BatchIOSubmit", reqs)
      BY <1>3, SubmitCases
    <2> QED BY <2>1 DEF Refused, ofCu, ofApp, BatchInv
  <1>4. CASE AllConverted(reqs)
    <2>1. /\ queue' = IF cu = Success THEN queue \o IoParams(reqs) ELSE queue
          /\ accepted' = IF cu = Success THEN accepted \o reqs ELSE accepted
          /\ UNCHANGED <<batch, finished, received, handed, lost>>
      BY <1>4, SubmitCases
    <2>2. /\ reqs \in Seq(AppRequests) /\ Len(reqs) = n /\ DOMAIN reqs = 1..n
          /\ \A i \in 1..n : reqs[i].cookie = Len(accepted) + i
          /\ \A i \in 1..n : reqs[i] \in AppRequests
      BY <1>1, <1>2, RequestsAre
    <2>3. \A i \in 1..n : /\ IoParams(reqs)[i] \in CuRequests
                          /\ IoParams(reqs)[i].cookie = Len(accepted) + i
      BY <1>4, <2>2, ConvertedRequest DEF IoParams, AllConverted
    <2>4. DOMAIN IoParams(reqs) = 1..n /\ IoParams(reqs) = [i \in 1..n |-> IoParams(reqs)[i]]
      BY <2>2 DEF IoParams
    <2>5. IoParams(reqs) \in Seq(CuRequests) /\ Len(IoParams(reqs)) = n
      <3>1. IoParams(reqs) \in [1..n -> CuRequests]
        BY <2>3, <2>4
      <3> QED BY <1>2, <3>1
    <2>6. Tracked(accepted \o reqs, queue \o IoParams(reqs), finished, received, lost)
      BY <1>1, <1>2, <2>2, <2>3, <2>5, TrackedSubmit
    <2>7. Tracked(accepted', queue', finished', received', lost')
      BY <1>1, <2>1, <2>6
    <2> QED BY <2>1, <2>7 DEF BatchInv
  <1> QED BY <1>3, <1>4

(* Events that are handed out are received or lost. *)
LEMMA GetStatusBatch ==
  ASSUME BatchInv, NEW n \in Nat, NEW k \in Nat, NEW cu, hipFileBatchIOGetStatus(n, k, cu)
  PROVE  BatchInv'
  <1>1. /\ Tracked(accepted, queue, finished, received, lost) /\ Reported(received, handed)
        /\ finished \in Seq(CuEvents) /\ Excused(lost)
    BY DEF BatchInv, Tracked, TypeOfBatch
  <1>2. /\ k <= Len(finished)
        /\ finished' = SubSeq(finished, k + 1, Len(finished))
        /\ UNCHANGED <<batch, queue, accepted>>
    BY DEF hipFileBatchIOGetStatus
  <1>3. k \in 0..Len(finished) /\ \A i \in 1..k : i \in 1..Len(finished)
    BY <1>1, <1>2
  <1>4. \A i \in 1..k : finished[i] \in CuEvents
    BY <1>1, <1>3
  <1>5. /\ DOMAIN Events(n, k) = 1..k
        /\ \A i \in 1..k : Events(n, k)[i] = toHipFileIOEvents(finished[i])
        /\ Events(n, k) = [i \in 1..k |-> Events(n, k)[i]]
    BY DEF Events
  <1>6. CASE \A i \in 1..k : toHipFileIOEvents(finished[i]).status # NotConverted
    <2>1. /\ received' = received \o Events(n, k)
          /\ handed' = handed \o SubSeq(finished, 1, k)
          /\ lost' = lost
      BY <1>6, GetStatusCases
    <2>2. \A i \in 1..k : /\ Events(n, k)[i] \in HipEvents
                          /\ Events(n, k)[i].cookie = finished[i].cookie
                          /\ toCUfileIOEvents(Events(n, k)[i]) = finished[i]
      BY <1>4, <1>5, <1>6, EventBack
    <2>3. Events(n, k) \in Seq(HipEvents) /\ Len(Events(n, k)) = k
      <3>1. Events(n, k) \in [1..k -> HipEvents]
        BY <1>5, <2>2
      <3> QED BY <3>1
    <2>4. Tracked(accepted, queue, SubSeq(finished, k + 1, Len(finished)), received \o Events(n, k), lost)
      BY <1>1, <1>3, <1>5, <2>2, <2>3, TrackedReceive
    <2>5. /\ SubSeq(finished, 1, k) \in Seq(CuEvents) /\ Len(SubSeq(finished, 1, k)) = k
          /\ \A i \in 1..k : SubSeq(finished, 1, k)[i] = finished[i]
      BY <1>1, <1>3, Divided
    <2>6. \A i \in 1..Len(Events(n, k)) : toCUfileIOEvents(Events(n, k)[i]) = SubSeq(finished, 1, k)[i]
      BY <2>2, <2>3, <2>5
    <2>7. Reported(received \o Events(n, k), handed \o SubSeq(finished, 1, k))
      BY <1>1, <2>3, <2>5, <2>6, ReportedMore
    <2> QED BY <1>1, <1>2, <2>1, <2>4, <2>7 DEF BatchInv
  <1>7. CASE \E i \in 1..k : toHipFileIOEvents(finished[i]).status = NotConverted
    <2>1. /\ lost' = lost \cup {finished[i] : i \in 1..k}
          /\ received' = received /\ handed' = handed
      BY <1>7, GetStatusCases
    <2>2. PICK i \in 1..k : toHipFileIOEvents(finished[i]).status = NotConverted
      BY <1>7
    <2>3. finished[i].status \notin CUfileStatus
      BY <1>4, <2>2, EventBack
    <2>4. Excused(lost')
      BY <2>1, <2>3 DEF Excused
    <2>5. Tracked(accepted, queue, SubSeq(finished, k + 1, Len(finished)), received,
                  lost \cup {finished[j] : j \in 1..k})
      BY <1>1, <1>3, TrackedLose
    <2> QED BY <1>1, <1>2, <2>1, <2>4, <2>5 DEF BatchInv
  <1> QED BY <1>6, <1>7

(* The event of an operation of the queue has its cookie. *)
LEMMA EventOf ==
  ASSUME NEW op \in CuRequests, NEW status \in FinalStatuses \cup {"CUFILE_CANCELED"}
  PROVE  Event(op, status) \in CuEvents /\ Event(op, status).cookie = op.cookie
  BY DEF Event, CuEvents, CuRequests

(* Cancelled operations are tracked. *)
LEMMA CancelBatch ==
  ASSUME BatchInv, NEW cu, hipFileBatchIOCancel(cu)
  PROVE  BatchInv'
  <1>1. Tracked(accepted, queue, finished, received, lost) /\ queue \in Seq(CuRequests)
    BY DEF BatchInv, Tracked, TypeOfBatch
  <1>2. UNCHANGED <<batch, accepted, received, handed, lost>>
    BY DEF hipFileBatchIOCancel, ofApp
  <1>3. CASE cu # Success
    <2>1. UNCHANGED <<queue, finished>>
      BY <1>3 DEF hipFileBatchIOCancel
    <2> QED BY <1>2, <2>1 DEF BatchInv
  <1>4. CASE cu = Success
    <2>1. PICK ev : ev = [i \in DOMAIN queue |-> Event(queue[i], "CUFILE_CANCELED")]
      OBVIOUS
    <2>2. finished' = finished \o ev /\ queue' = << >>
      BY <1>4, <2>1 DEF hipFileBatchIOCancel
    <2>3. \A i \in DOMAIN queue : queue[i] \in CuRequests
      BY <1>1
    <2>4. DOMAIN ev = DOMAIN queue
      BY <2>1
    <2>5. \A i \in DOMAIN queue : ev[i] \in CuEvents /\ ev[i].cookie = queue[i].cookie
      BY <2>1, <2>3, EventOf
    <2>6. ev \in Seq(CuEvents)
      <3>1. DOMAIN queue = 1..Len(queue) /\ Len(queue) \in Nat
        BY <1>1
      <3>2. ev \in [1..Len(queue) -> CuEvents]
        BY <2>1, <2>5, <3>1
      <3> QED BY <3>1, <3>2
    <2>7. Tracked(accepted, << >>, finished \o ev, received, lost)
      BY <1>1, <2>4, <2>5, <2>6, TrackedCancel
    <2> QED BY <1>2, <2>2, <2>7 DEF BatchInv
  <1> QED BY <1>3, <1>4

(* A finished operation is tracked. *)
LEMMA FinishBatch ==
  ASSUME BatchInv, NEW i \in DOMAIN queue, NEW status \in FinalStatuses, Finish(i, status)
  PROVE  BatchInv'
  <1>1. Tracked(accepted, queue, finished, received, lost) /\ queue \in Seq(CuRequests)
    BY DEF BatchInv, Tracked, TypeOfBatch
  <1>2. Event(queue[i], status) \in CuEvents /\ Event(queue[i], status).cookie = queue[i].cookie
    BY <1>1, EventOf
  <1>3. Tracked(accepted, SubSeq(queue, 1, i - 1) \o SubSeq(queue, i + 1, Len(queue)),
                Append(finished, Event(queue[i], status)), received, lost)
    BY <1>1, <1>2, TrackedFinish
  <1>4. /\ finished' = Append(finished, Event(queue[i], status))
        /\ queue' = SubSeq(queue, 1, i - 1) \o SubSeq(queue, i + 1, Len(queue))
        /\ UNCHANGED <<batch, accepted, received, handed, lost>>
    BY DEF Finish, ofApp
  <1> QED BY <1>3, <1>4 DEF BatchInv

(* Every step keeps the invariant of the batch. *)
LEMMA BatchStep ==
  ASSUME BatchInv, [Next]_vars
  PROVE  BatchInv'
  <1>1. ASSUME UNCHANGED <<ofCu, ofApp>>
        PROVE  BatchInv'
    BY <1>1 DEF BatchInv, ofCu, ofApp
  <1>2. ASSUME NEW fn, NEW arg, Refused(fn, arg)
        PROVE  BatchInv'
    BY <1>1, <1>2 DEF Refused
  <1>3. ASSUME NEW cu \in Answers,
               Buf(cu) \/ Driver(cu) \/ DriverSet(cu) \/ Streams(cu) \/ NullPointer(cu)
        PROVE  BatchInv'
    BY <1>1, <1>3 DEF Buf, Driver, DriverSet, Streams, NullPointer, Forward
  <1>4. ASSUME NEW cu \in FewAnswers, NEW descr, NEW fs_ops, hipFileHandleRegister(descr, fs_ops, cu)
        PROVE  BatchInv'
    BY <1>1, <1>2, <1>4 DEF hipFileHandleRegister
  <1>5. ASSUME NEW cu \in FewAnswers, NEW props, hipFileDriverGetProperties(props, cu)
        PROVE  BatchInv'
    BY <1>1, <1>5 DEF hipFileDriverGetProperties
  <1>6. ASSUME NEW cu \in FewAnswers, NEW param,
               ParameterSizeT(param, cu) \/ ParameterBool(param, cu) \/ ParameterString(param, cu)
        PROVE  BatchInv'
    <2>1. PICK fn, converted : Parameter(fn, param, converted, cu)
      BY <1>6 DEF ParameterSizeT, ParameterBool, ParameterString
    <2> QED BY <1>1, <1>2, <2>1 DEF Parameter
  <1>7. ASSUME NEW cu \in FewAnswers, hipFileBatchIOSetUp(cu)
        PROVE  BatchInv'
    <2>1. batch' \in BOOLEAN
      BY <1>7, Zenon DEF hipFileBatchIOSetUp
    <2>2. UNCHANGED <<queue, finished, accepted, received, handed, lost>>
      BY <1>7 DEF hipFileBatchIOSetUp, ofApp
    <2>3. Tracked(accepted', queue', finished', received', lost') /\ Reported(received', handed')
          /\ Excused(lost')
      BY <2>2 DEF BatchInv
    <2> QED BY <2>1, <2>3, Zenon DEF BatchInv
  <1>8. ASSUME NEW cu \in FewAnswers, NEW n \in 0..(MaxOps - Len(accepted)), NEW reqs \in Requests(n),
               hipFileBatchIOSubmit(reqs, cu)
        PROVE  BatchInv'
    BY <1>8, SubmitBatch
  <1>9. ASSUME NEW cu \in FewAnswers, NEW n \in 0..MaxOps, NEW k \in 0..MaxOps,
               hipFileBatchIOGetStatus(n, k, cu)
        PROVE  BatchInv'
    <2>1. n \in Nat /\ k \in Nat
      BY ApiAssumption
    <2> QED BY <1>9, <2>1, GetStatusBatch
  <1>10. ASSUME NEW cu \in FewAnswers, hipFileBatchIOCancel(cu)
         PROVE  BatchInv'
    BY <1>10, CancelBatch
  <1>11. ASSUME NEW n, hipFileRead(n)
         PROVE  BatchInv'
    BY <1>1, <1>11 DEF hipFileRead
  <1>12. CASE hipFileBatchIODestroy
    <2>1. Reported(<< >>, << >>) /\ Excused({})
      BY DEF Reported, Excused
    <2>2. /\ batch' = FALSE /\ queue' = << >> /\ finished' = << >>
          /\ accepted' = << >> /\ received' = << >> /\ handed' = << >> /\ lost' = {}
      BY <1>12 DEF hipFileBatchIODestroy
    <2> QED BY <2>1, <2>2, TrackedEmpty DEF BatchInv
  <1>13. CASE Proceed
    BY <1>1, <1>13 DEF Proceed
  <1>14. ASSUME NEW i \in DOMAIN queue, NEW status \in FinalStatuses, Finish(i, status)
         PROVE  BatchInv'
    BY <1>14, FinishBatch
  <1>15. CASE UNCHANGED vars
    BY <1>1, <1>15 DEF vars
  <1> QED BY <1>3, <1>4, <1>5, <1>6, <1>7, <1>8, <1>9, <1>10, <1>11, <1>12, <1>13, <1>14, <1>15 DEF Next

(* The inductive invariant: of the last call and of the batch. *)
IInv == LastInv /\ BatchInv

(* Every step keeps both parts of the invariant, from the first state on. *)
THEOREM Invariant == Spec => []IInv
  <1>1. Init => IInv
    <2>1. SUFFICES ASSUME Init PROVE IInv
      OBVIOUS
    <2>2. LastInv
      BY <2>1, LastInit
    <2>3. Reported(<< >>, << >>) /\ Excused({})
      BY DEF Reported, Excused
    <2>4. BatchInv
      BY <2>1, <2>3, TrackedEmpty DEF Init, BatchInv
    <2> QED BY <2>2, <2>4 DEF IInv
  <1>2. IInv /\ [Next]_vars => IInv'
    <2>1. SUFFICES ASSUME LastInv, BatchInv, [Next]_vars PROVE LastInv' /\ BatchInv'
      BY DEF IInv
    <2>2. Len(accepted) \in Nat
      BY <2>1, BatchGives
    <2>3. LastInv'
      BY <2>1, <2>2, LastStep
    <2>4. BatchInv'
      BY <2>1, BatchStep
    <2> QED BY <2>3, <2>4
  <1> QED BY <1>1, <1>2, PTL DEF Spec

(* Type correctness: a result is a code of hipfile.h, never one that a      *)
(* conversion could not name; cuFile holds no more operations than were     *)
(* submitted, and every event the application gets has a status of          *)
(* hipfile.h.                                                               *)
THEOREM TypeCorrect == Spec => []TypeOK
  <1>1. IInv => TypeOK
    <2>1. SUFFICES ASSUME LastInv, BatchInv PROVE TypeOK
      BY DEF IInv
    <2>2. TypeOfLast(answer, result)
      BY <2>1 DEF LastInv
    <2>3. batch \in BOOLEAN
      BY <2>1 DEF BatchInv
    <2>4. /\ Len(queue) + Len(finished) <= MaxOps
          /\ \A i \in DOMAIN received : received[i].status \in hipFileStatus
      BY <2>1, BatchGives
    <2> QED BY <2>2, <2>3, <2>4, Zenon DEF TypeOK, TypeOfLast
  <1> QED BY <1>1, Invariant, PTL

(* The application is told cuFile's error, for every error cuFile may       *)
(* answer: the status that one switch gives has cuFile's number and is      *)
(* taken back by the other switch, and the number of hipFileRead or         *)
(* hipFileWrite has the text of the code the switch would have given.       *)
THEOREM Agreement == Spec => []AnswersAgree
  <1>1. IInv => AnswersAgree
    BY DEF IInv, LastInv
  <1> QED BY <1>1, Invariant, PTL

(* What reaches cuFile is what the application passed, converted back by    *)
(* the opposite switches, for batches of any size; a parameter keeps its    *)
(* number; the properties the application gets are those cuFile reported,   *)
(* whichever they are and for every width of unsigned int; and exactly the  *)
(* calls with a value hipfile.h does not name are refused.                  *)
THEOREM Meaning == Spec => []MeaningKept
  <1>1. IInv => MeaningKept
    BY DEF IInv, LastInv
  <1> QED BY <1>1, Invariant, PTL

(* Every operation of a batch is exactly once with cuFile, received or lost *)
(* by a call that failed, for batches of any size.                          *)
THEOREM DeliveredOnce == Spec => []EventsDeliveredOnce
  <1>1. IInv => EventsDeliveredOnce
    BY BatchGives DEF IInv
  <1> QED BY <1>1, Invariant, PTL

=============================================================================
