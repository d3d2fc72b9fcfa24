----------------------------- MODULE CuFileTypes -----------------------------
(***************************************************************************)
(* The types of hipfile.h and of cuFile and the conversions between them   *)
(* (nvidia_detail/hipfile-cufile.cpp).                                     *)
(*                                                                         *)
(* A value of an enumeration is the name the header gives it, or a name    *)
(* the header does not have when it is another number.  A switch statement *)
(* is the record of its cases, one record for each function: the two       *)
(* directions are written down twice in the code and may disagree.  Where  *)
(* numbers matter, an enumeration is a record of them.                     *)
(***************************************************************************)
EXTENDS Integers, Sequences, Functions

CONSTANT UIntMax    \* UINT_MAX

ASSUME UIntAssumption == UIntMax \in Nat

(* What a conversion that throws, or that returns an error, gives. *)
NotConverted == "NotConverted"

(* A value that the header does not name. *)
Unnamed == "Unnamed"

Switch(cases, v) == IF v \in DOMAIN cases THEN cases[v] ELSE NotConverted

(* The name of a number. *)
NameIn(enum, v) == IF v \in Range(enum) THEN CHOOSE n \in DOMAIN enum : enum[n] = v ELSE NotConverted

-----------------------------------------------------------------------------
(* Error codes *)

HIPFILE_BASE_ERR == 5000
HipCode(i)       == HIPFILE_BASE_ERR + i

hipFileOpError ==
    [hipFileSuccess |-> 0, hipFileDriverNotInitialized |-> HipCode(1),
     hipFileDriverInvalidProps |-> HipCode(2), hipFileDriverUnsupportedLimit |-> HipCode(3),
     hipFileDriverVersionMismatch |-> HipCode(4), hipFileDriverVersionReadError |-> HipCode(5),
     hipFileDriverClosing |-> HipCode(6), hipFilePlatformNotSupported |-> HipCode(7),
     hipFileIONotSupported |-> HipCode(8), hipFileDeviceNotSupported |-> HipCode(9),
     hipFileDriverError |-> HipCode(10), hipFileHipDriverError |-> HipCode(11),
     hipFileHipPointerInvalid |-> HipCode(12), hipFileHipMemoryTypeInvalid |-> HipCode(13),
     hipFileHipPointerRangeError |-> HipCode(14), hipFileHipContextMismatch |-> HipCode(15),
     hipFileInvalidMappingSize |-> HipCode(16), hipFileInvalidMappingRange |-> HipCode(17),
     hipFileInvalidFileType |-> HipCode(18), hipFileInvalidFileOpenFlag |-> HipCode(19),
     hipFileDIONotSet |-> HipCode(20), hipFileInvalidValue |-> HipCode(22),
     hipFileMemoryAlreadyRegistered |-> HipCode(23), hipFileMemoryNotRegistered |-> HipCode(24),
     hipFilePermissionDenied |-> HipCode(25), hipFileDriverAlreadyOpen |-> HipCode(26),
     hipFileHandleNotRegistered |-> HipCode(27), hipFileHandleAlreadyRegistered |-> HipCode(28),
     hipFileDeviceNotFound |-> HipCode(29), hipFileInternalError |-> HipCode(30),
     hipFileGetNewFDFailed |-> HipCode(31), hipFileDriverSetupError |-> HipCode(33),
     hipFileIODisabled |-> HipCode(34), hipFileBatchSubmitFailed |-> HipCode(35),
     hipFileGPUMemoryPinningFailed |-> HipCode(36), hipFileBatchFull |-> HipCode(37),
     hipFileAsyncNotSupported |-> HipCode(38), hipFileIOMaxError |-> HipCode(39)]

(* cuFile's numbers, with the gaps the tests of the conversions know of. *)
CUFILEOP_BASE_ERR == 5000
CuCode(i)         == CUFILEOP_BASE_ERR + i

CUfileOpError ==
    [CU_FILE_SUCCESS |-> 0, CU_FILE_DRIVER_NOT_INITIALIZED |-> CuCode(1),
     CU_FILE_DRIVER_INVALID_PROPS |-> CuCode(2), CU_FILE_DRIVER_UNSUPPORTED_LIMIT |-> CuCode(3),
     CU_FILE_DRIVER_VERSION_MISMATCH |-> CuCode(4), CU_FILE_DRIVER_VERSION_READ_ERROR |-> CuCode(5),
     CU_FILE_DRIVER_CLOSING |-> CuCode(6), CU_FILE_PLATFORM_NOT_SUPPORTED |-> CuCode(7),
     CU_FILE_IO_NOT_SUPPORTED |-> CuCode(8), CU_FILE_DEVICE_NOT_SUPPORTED |-> CuCode(9),
     CU_FILE_NVFS_DRIVER_ERROR |-> CuCode(10), CU_FILE_CUDA_DRIVER_ERROR |-> CuCode(11),
     CU_FILE_CUDA_POINTER_INVALID |-> CuCode(12), CU_FILE_CUDA_MEMORY_TYPE_INVALID |-> CuCode(13),
     CU_FILE_CUDA_POINTER_RANGE_ERROR |-> CuCode(14), CU_FILE_CUDA_CONTEXT_MISMATCH |-> CuCode(15),
     CU_FILE_INVALID_MAPPING_SIZE |-> CuCode(16), CU_FILE_INVALID_MAPPING_RANGE |-> CuCode(17),
     CU_FILE_INVALID_FILE_TYPE |-> CuCode(18), CU_FILE_INVALID_FILE_OPEN_FLAG |-> CuCode(19),
     CU_FILE_DIO_NOT_SET |-> CuCode(20), CU_FILE_INVALID_VALUE |-> CuCode(22),
     CU_FILE_MEMORY_ALREADY_REGISTERED |-> CuCode(23), CU_FILE_MEMORY_NOT_REGISTERED |-> CuCode(24),
     CU_FILE_PERMISSION_DENIED |-> CuCode(25), CU_FILE_DRIVER_ALREADY_OPEN |-> CuCode(26),
     CU_FILE_HANDLE_NOT_REGISTERED |-> CuCode(27), CU_FILE_HANDLE_ALREADY_REGISTERED |-> CuCode(28),
     CU_FILE_DEVICE_NOT_FOUND |-> CuCode(29), CU_FILE_INTERNAL_ERROR |-> CuCode(30),
     CU_FILE_GETNEWFD_FAILED |-> CuCode(31), CU_FILE_NVFS_SETUP_ERROR |-> CuCode(33),
     CU_FILE_IO_DISABLED |-> CuCode(34), CU_FILE_BATCH_SUBMIT_FAILED |-> CuCode(35),
     CU_FILE_GPU_MEMORY_PINNING_FAILED |-> CuCode(36), CU_FILE_BATCH_FULL |-> CuCode(37),
     CU_FILE_ASYNC_NOT_SUPPORTED |-> CuCode(38), CU_FILE_IO_MAX_ERROR |-> CuCode(39)]

HipFileOpErrorOf ==
    [CU_FILE_SUCCESS |-> "hipFileSuccess",
     CU_FILE_DRIVER_NOT_INITIALIZED |-> "hipFileDriverNotInitialized",
     CU_FILE_DRIVER_INVALID_PROPS |-> "hipFileDriverInvalidProps",
     CU_FILE_DRIVER_UNSUPPORTED_LIMIT |-> "hipFileDriverUnsupportedLimit",
     CU_FILE_DRIVER_VERSION_MISMATCH |-> "hipFileDriverVersionMismatch",
     CU_FILE_DRIVER_VERSION_READ_ERROR |-> "hipFileDriverVersionReadError",
     CU_FILE_DRIVER_CLOSING |-> "hipFileDriverClosing",
     CU_FILE_PLATFORM_NOT_SUPPORTED |-> "hipFilePlatformNotSupported",
     CU_FILE_IO_NOT_SUPPORTED |-> "hipFileIONotSupported",
     CU_FILE_DEVICE_NOT_SUPPORTED |-> "hipFileDeviceNotSupported",
     CU_FILE_NVFS_DRIVER_ERROR |-> "hipFileDriverError",
     CU_FILE_CUDA_DRIVER_ERROR |-> "hipFileHipDriverError",
     CU_FILE_CUDA_POINTER_INVALID |-> "hipFileHipPointerInvalid",
     CU_FILE_CUDA_MEMORY_TYPE_INVALID |-> "hipFileHipMemoryTypeInvalid",
     CU_FILE_CUDA_POINTER_RANGE_ERROR |-> "hipFileHipPointerRangeError",
     CU_FILE_CUDA_CONTEXT_MISMATCH |-> "hipFileHipContextMismatch",
     CU_FILE_INVALID_MAPPING_SIZE |-> "hipFileInvalidMappingSize",
     CU_FILE_INVALID_MAPPING_RANGE |-> "hipFileInvalidMappingRange",
     CU_FILE_INVALID_FILE_TYPE |-> "hipFileInvalidFileType",
     CU_FILE_INVALID_FILE_OPEN_FLAG |-> "hipFileInvalidFileOpenFlag",
     CU_FILE_DIO_NOT_SET |-> "hipFileDIONotSet", CU_FILE_INVALID_VALUE |-> "hipFileInvalidValue",
     CU_FILE_MEMORY_ALREADY_REGISTERED |-> "hipFileMemoryAlreadyRegistered",
     CU_FILE_MEMORY_NOT_REGISTERED |-> "hipFileMemoryNotRegistered",
     CU_FILE_PERMISSION_DENIED |-> "hipFilePermissionDenied",
     CU_FILE_DRIVER_ALREADY_OPEN |-> "hipFileDriverAlreadyOpen",
     CU_FILE_HANDLE_NOT_REGISTERED |-> "hipFileHandleNotRegistered",
     CU_FILE_HANDLE_ALREADY_REGISTERED |-> "hipFileHandleAlreadyRegistered",
     CU_FILE_DEVICE_NOT_FOUND |-> "hipFileDeviceNotFound",
     CU_FILE_INTERNAL_ERROR |-> "hipFileInternalError",
     CU_FILE_GETNEWFD_FAILED |-> "hipFileGetNewFDFailed",
     CU_FILE_NVFS_SETUP_ERROR |-> "hipFileDriverSetupError",
     CU_FILE_IO_DISABLED |-> "hipFileIODisabled",
     CU_FILE_BATCH_SUBMIT_FAILED |-> "hipFileBatchSubmitFailed",
     CU_FILE_GPU_MEMORY_PINNING_FAILED |-> "hipFileGPUMemoryPinningFailed",
     CU_FILE_BATCH_FULL |-> "hipFileBatchFull",
     CU_FILE_ASYNC_NOT_SUPPORTED |-> "hipFileAsyncNotSupported",
     CU_FILE_IO_MAX_ERROR |-> "hipFileIOMaxError"]

CUfileOpErrorOf ==
    [hipFileSuccess |-> "CU_FILE_SUCCESS",
     hipFileDriverNotInitialized |-> "CU_FILE_DRIVER_NOT_INITIALIZED",
     hipFileDriverInvalidProps |-> "CU_FILE_DRIVER_INVALID_PROPS",
     hipFileDriverUnsupportedLimit |-> "CU_FILE_DRIVER_UNSUPPORTED_LIMIT",
     hipFileDriverVersionMismatch |-> "CU_FILE_DRIVER_VERSION_MISMATCH",
     hipFileDriverVersionReadError |-> "CU_FILE_DRIVER_VERSION_READ_ERROR",
     hipFileDriverClosing |-> "CU_FILE_DRIVER_CLOSING",
     hipFilePlatformNotSupported |-> "CU_FILE_PLATFORM_NOT_SUPPORTED",
     hipFileIONotSupported |-> "CU_FILE_IO_NOT_SUPPORTED",
     hipFileDeviceNotSupported |-> "CU_FILE_DEVICE_NOT_SUPPORTED",
     hipFileDriverError |-> "CU_FILE_NVFS_DRIVER_ERROR",
     hipFileHipDriverError |-> "CU_FILE_CUDA_DRIVER_ERROR",
     hipFileHipPointerInvalid |-> "CU_FILE_CUDA_POINTER_INVALID",
     hipFileHipMemoryTypeInvalid |-> "CU_FILE_CUDA_MEMORY_TYPE_INVALID",
     hipFileHipPointerRangeError |-> "CU_FILE_CUDA_POINTER_RANGE_ERROR",
     hipFileHipContextMismatch |-> "CU_FILE_CUDA_CONTEXT_MISMATCH",
     hipFileInvalidMappingSize |-> "CU_FILE_INVALID_MAPPING_SIZE",
     hipFileInvalidMappingRange |-> "CU_FILE_INVALID_MAPPING_RANGE",
     hipFileInvalidFileType |-> "CU_FILE_INVALID_FILE_TYPE",
     hipFileInvalidFileOpenFlag |-> "CU_FILE_INVALID_FILE_OPEN_FLAG",
     hipFileDIONotSet |-> "CU_FILE_DIO_NOT_SET", hipFileInvalidValue |-> "CU_FILE_INVALID_VALUE",
     hipFileMemoryAlreadyRegistered |-> "CU_FILE_MEMORY_ALREADY_REGISTERED",
     hipFileMemoryNotRegistered |-> "CU_FILE_MEMORY_NOT_REGISTERED",
     hipFilePermissionDenied |-> "CU_FILE_PERMISSION_DENIED",
     hipFileDriverAlreadyOpen |-> "CU_FILE_DRIVER_ALREADY_OPEN",
     hipFileHandleNotRegistered |-> "CU_FILE_HANDLE_NOT_REGISTERED",
     hipFileHandleAlreadyRegistered |-> "CU_FILE_HANDLE_ALREADY_REGISTERED",
     hipFileDeviceNotFound |-> "CU_FILE_DEVICE_NOT_FOUND",
     hipFileInternalError |-> "CU_FILE_INTERNAL_ERROR",
     hipFileGetNewFDFailed |-> "CU_FILE_GETNEWFD_FAILED",
     hipFileDriverSetupError |-> "CU_FILE_NVFS_SETUP_ERROR",
     hipFileIODisabled |-> "CU_FILE_IO_DISABLED",
     hipFileBatchSubmitFailed |-> "CU_FILE_BATCH_SUBMIT_FAILED",
     hipFileGPUMemoryPinningFailed |-> "CU_FILE_GPU_MEMORY_PINNING_FAILED",
     hipFileBatchFull |-> "CU_FILE_BATCH_FULL",
     hipFileAsyncNotSupported |-> "CU_FILE_ASYNC_NOT_SUPPORTED",
     hipFileIOMaxError |-> "CU_FILE_IO_MAX_ERROR"]

(* One case pasted from the one before it, its result not changed. *)
toHipFileOpError_Pasted(c) ==
    Switch([HipFileOpErrorOf EXCEPT
              !.CU_FILE_MEMORY_NOT_REGISTERED = "hipFileMemoryAlreadyRegistered"], c)

toHipFileOpError(c) == Switch(HipFileOpErrorOf, c)

toCUfileOpError(h) ==
    IF h \in DOMAIN CUfileOpErrorOf THEN CUfileOpErrorOf[h] ELSE "CU_FILE_INVALID_VALUE"

(* A status with a CUDA error, and one with a HIP error.  The conversions   *)
(* of hip_runtime_api.h pair CUresult and hipError_t by name.               *)
toHipFileError(cu) ==
    [err |-> toHipFileOpError(cu.err),
     drv |-> IF cu.err = "CU_FILE_CUDA_DRIVER_ERROR" THEN cu.drv ELSE "success"]

toCUfileError(hip) ==
    [err |-> toCUfileOpError(hip.err),
     drv |-> IF hip.err = "hipFileHipDriverError" THEN hip.drv ELSE "success"]

(* The text for a number, by the name of its code; NotConverted stands for  *)
(* the text for a number without a name.                                    *)
hipFileGetOpErrorString(number) == NameIn(hipFileOpError, number)

-----------------------------------------------------------------------------
(* Files *)

hipFileFileHandleType ==
    {"hipFileHandleTypeOpaqueFD", "hipFileHandleTypeOpaqueWin32", "hipFileHandleTypeUserspaceFS"}

toHipFileFileHandleType(c) ==
    Switch(
      [CU_FILE_HANDLE_TYPE_OPAQUE_FD |-> "hipFileHandleTypeOpaqueFD",
       CU_FILE_HANDLE_TYPE_OPAQUE_WIN32 |-> "hipFileHandleTypeOpaqueWin32",
       CU_FILE_HANDLE_TYPE_USERSPACE_FS |-> "hipFileHandleTypeUserspaceFS"], c)

(* A member of the union that was not written. *)
Unset == "Unset"

toHipFileDescr(cu) ==
    [type   |-> toHipFileFileHandleType(cu.type),
     handle |-> IF cu.type = "CU_FILE_HANDLE_TYPE_OPAQUE_WIN32"
                THEN [fd |-> Unset, hFile |-> cu.handle.handle]
                ELSE [fd |-> cu.handle.fd, hFile |-> Unset],
     fs_ops |-> cu.fs_ops]

(* This function has a switch of its own over the types. *)
toCUfileDescr(hip) ==
    [type   |-> Switch(
                  [hipFileHandleTypeOpaqueFD |-> "CU_FILE_HANDLE_TYPE_OPAQUE_FD",
                   hipFileHandleTypeOpaqueWin32 |-> "CU_FILE_HANDLE_TYPE_OPAQUE_WIN32",
                   hipFileHandleTypeUserspaceFS |-> "CU_FILE_HANDLE_TYPE_USERSPACE_FS"], hip.type),
     handle |-> IF hip.type = "hipFileHandleTypeOpaqueWin32"
                THEN [fd |-> Unset, handle |-> hip.handle.hFile]
                ELSE [fd |-> hip.handle.fd, handle |-> Unset],
     fs_ops |-> hip.fs_ops]

-----------------------------------------------------------------------------
(* Driver properties.  Three sizes have 64 bits in hipfile.h and 32 in      *)
(* cuFile.                                                                  *)

CUfileDrvProps ==
    [major_version : Nat, minor_version : Nat, poll_thresh_size : Nat, max_direct_io_size : Nat,
     dstatusflags : Nat, dcontrolflags : Nat, fflags : Nat,
     max_device_cache_size : 0..UIntMax, per_buffer_cache_size : 0..UIntMax,
     max_device_pinned_mem_size : 0..UIntMax,
     max_batch_io_size : Nat, max_batch_io_timeout_msecs : Nat]

toHipFileDriverProps(cu) ==
    [major_version |-> cu.major_version, minor_version |-> cu.minor_version,
     poll_thresh_size |-> cu.poll_thresh_size, max_direct_io_size |-> cu.max_direct_io_size,
     driver_status_flags |-> cu.dstatusflags, driver_control_flags |-> cu.dcontrolflags,
     feature_flags |-> cu.fflags,
     max_device_cache_size |-> cu.max_device_cache_size,
     per_buffer_cache_size |-> cu.per_buffer_cache_size,
     max_device_pinned_mem_size |-> cu.max_device_pinned_mem_size,
     max_batch_io_count |-> cu.max_batch_io_size,
     max_batch_io_timeout_msecs |-> cu.max_batch_io_timeout_msecs]

(* << >> if one of the sizes does not fit. *)
toCUfileDrvProps(hip) ==
    LET Narrow(size) == size % (UIntMax + 1)
    IN  IF \/ hip.max_device_cache_size > UIntMax
           \/ hip.per_buffer_cache_size > UIntMax
           \/ hip.max_device_pinned_mem_size > UIntMax
        THEN << >>
        ELSE <<[major_version |-> hip.major_version, minor_version |-> hip.minor_version,
                poll_thresh_size |-> hip.poll_thresh_size,
                max_direct_io_size |-> hip.max_direct_io_size,
                dstatusflags |-> hip.driver_status_flags, dcontrolflags |-> hip.driver_control_flags,
                fflags |-> hip.feature_flags,
                max_device_cache_size |-> Narrow(hip.max_device_cache_size),
                per_buffer_cache_size |-> Narrow(hip.per_buffer_cache_size),
                max_device_pinned_mem_size |-> Narrow(hip.max_device_pinned_mem_size),
                max_batch_io_size |-> hip.max_batch_io_count,
                max_batch_io_timeout_msecs |-> hip.max_batch_io_timeout_msecs]>>

-----------------------------------------------------------------------------
(* Batches *)

hipFileOpcode    == {"hipFileBatchRead", "hipFileBatchWrite"}
hipFileBatchMode == {"hipFileBatch"}
hipFileStatus ==
    {"hipFileWaiting", "hipFilePending", "hipFileInvalid", "hipFileCanceled", "hipFileComplete",
     "hipFileTimeout", "hipFileFailed"}

toHipFileOpcode(c) ==
    Switch([CUFILE_READ |-> "hipFileBatchRead", CUFILE_WRITE |-> "hipFileBatchWrite"], c)

toCUfileOpcode(h) ==
    Switch([hipFileBatchRead |-> "CUFILE_READ", hipFileBatchWrite |-> "CUFILE_WRITE"], h)

toHipFileBatchMode(c) == Switch([CUFILE_BATCH |-> "hipFileBatch"], c)
toCUfileBatchMode(h)  == Switch([hipFileBatch |-> "CUFILE_BATCH"], h)

CUfileStatus ==
    {"CUFILE_WAITING", "CUFILE_PENDING", "CUFILE_INVALID", "CUFILE_CANCELED", "CUFILE_COMPLETE",
     "CUFILE_TIMEOUT", "CUFILE_FAILED"}

HipFileStatusOf ==
    [CUFILE_WAITING |-> "hipFileWaiting", CUFILE_PENDING |-> "hipFilePending",
     CUFILE_INVALID |-> "hipFileInvalid", CUFILE_CANCELED |-> "hipFileCanceled",
     CUFILE_COMPLETE |-> "hipFileComplete", CUFILE_TIMEOUT |-> "hipFileTimeout",
     CUFILE_FAILED |-> "hipFileFailed"]

CUfileStatusOf ==
    [hipFileWaiting |-> "CUFILE_WAITING", hipFilePending |-> "CUFILE_PENDING",
     hipFileInvalid |-> "CUFILE_INVALID", hipFileCanceled |-> "CUFILE_CANCELED",
     hipFileComplete |-> "CUFILE_COMPLETE", hipFileTimeout |-> "CUFILE_TIMEOUT",
     hipFileFailed |-> "CUFILE_FAILED"]

toHipFileStatus(c) == Switch(HipFileStatusOf, c)
toCUfileStatus(h)  == Switch(CUfileStatusOf, h)

toHipFileIOParams(cu) ==
    [mode |-> toHipFileBatchMode(cu.mode), devPtr_base |-> cu.devPtr_base,
     file_offset |-> cu.file_offset, devPtr_offset |-> cu.devPtr_offset, size |-> cu.size,
     fh |-> cu.fh, opcode |-> toHipFileOpcode(cu.opcode), cookie |-> cu.cookie]

toCUfileIOParams(hip) ==
    [mode |-> toCUfileBatchMode(hip.mode), devPtr_base |-> hip.devPtr_base,
     file_offset |-> hip.file_offset, devPtr_offset |-> hip.devPtr_offset, size |-> hip.size,
     fh |-> hip.fh, opcode |-> toCUfileOpcode(hip.opcode), cookie |-> hip.cookie]

toHipFileIOEvents(cu) == [cookie |-> cu.cookie, status |-> toHipFileStatus(cu.status), ret |-> cu.ret]
toCUfileIOEvents(hip) == [cookie |-> hip.cookie, status |-> toCUfileStatus(hip.status), ret |-> hip.ret]

-----------------------------------------------------------------------------
(* Configuration parameters.  They are converted in one direction only;     *)
(* what a parameter means to cuFile is its number, which the two headers    *)
(* are to agree on.                                                         *)

hipFileSizeTConfigParameter ==
    [hipFileParamProfileStats |-> 0, hipFileParamExecutionMaxIOQueueDepth |-> 1,
     hipFileParamExecutionMaxIOThreads |-> 2, hipFileParamExecutionMinIOThresholdSizeKB |-> 3,
     hipFileParamExecutionMaxRequestParallelism |-> 4,
     hipFileParamPropertiesMaxDirectIOSizeKB |-> 5,
     hipFileParamPropertiesMaxDeviceCacheSizeKB |-> 6,
     hipFileParamPropertiesPerBufferCacheSizeKB |-> 7,
     hipFileParamPropertiesMaxDevicePinnedMemSizeKB |-> 8, hipFileParamPropertiesIOBatchsize |-> 9,
     hipFileParamPollthresholdSizeKB |-> 10, hipFileParamPropertiesBatchIOTimeoutMs |-> 11]

CUFileSizeTConfigParameter ==
    [CUFILE_PARAM_PROFILE_STATS |-> 0, CUFILE_PARAM_EXECUTION_MAX_IO_QUEUE_DEPTH |-> 1,
     CUFILE_PARAM_EXECUTION_MAX_IO_THREADS |-> 2,
     CUFILE_PARAM_EXECUTION_MIN_IO_THRESHOLD_SIZE_KB |-> 3,
     CUFILE_PARAM_EXECUTION_MAX_REQUEST_PARALLELISM |-> 4,
     CUFILE_PARAM_PROPERTIES_MAX_DIRECT_IO_SIZE_KB |-> 5,
     CUFILE_PARAM_PROPERTIES_MAX_DEVICE_CACHE_SIZE_KB |-> 6,
     CUFILE_PARAM_PROPERTIES_PER_BUFFER_CACHE_SIZE_KB |-> 7,
     CUFILE_PARAM_PROPERTIES_MAX_DEVICE_PINNED_MEM_SIZE_KB |-> 8,
     CUFILE_PARAM_PROPERTIES_IO_BATCHSIZE |-> 9, CUFILE_PARAM_POLLTHRESHOLD_SIZE_KB |-> 10,
     CUFILE_PARAM_PROPERTIES_BATCH_IO_TIMEOUT_MS |-> 11]

hipFileBoolConfigParameter ==
    [hipFileParamPropertiesUsePollMode |-> 0, hipFileParamPropertiesAllowCompatMode |-> 1,
     hipFileParamForceCompatMode |-> 2, hipFileParamFsMiscApiCheckAggressive |-> 3,
     hipFileParamExecutionParallelIO |-> 4, hipFileParamProfileNvtx |-> 5,
     hipFileParamPropertiesAllowSystemMemory |-> 6, hipFileParamUsePcip2pdma |-> 7,
     hipFileParamPreferIOUring |-> 8, hipFileParamForceOdirectMode |-> 9,
     hipFileParamSkipTopologyDetection |-> 10, hipFileParamStreamMemopsBypass |-> 11]

CUFileBoolConfigParameter ==
    [CUFILE_PARAM_PROPERTIES_USE_POLL_MODE |-> 0, CUFILE_PARAM_PROPERTIES_ALLOW_COMPAT_MODE |-> 1,
     CUFILE_PARAM_FORCE_COMPAT_MODE |-> 2, CUFILE_PARAM_FS_MISC_API_CHECK_AGGRESSIVE |-> 3,
     CUFILE_PARAM_EXECUTION_PARALLEL_IO |-> 4, CUFILE_PARAM_PROFILE_NVTX |-> 5,
     CUFILE_PARAM_PROPERTIES_ALLOW_SYSTEM_MEMORY |-> 6, CUFILE_PARAM_USE_PCIP2PDMA |-> 7,
     CUFILE_PARAM_PREFER_IO_URING |-> 8, CUFILE_PARAM_FORCE_ODIRECT_MODE |-> 9,
     CUFILE_PARAM_SKIP_TOPOLOGY_DETECTION |-> 10, CUFILE_PARAM_STREAM_MEMOPS_BYPASS |-> 11]

hipFileStringConfigParameter ==
    [hipFileParamLoggingLevel |-> 0, hipFileParamEnvLogfilePath |-> 1, hipFileParamLogDir |-> 2]

CUFileStringConfigParameter ==
    [CUFILE_PARAM_LOGGING_LEVEL |-> 0, CUFILE_PARAM_ENV_LOGFILE_PATH |-> 1,
     CUFILE_PARAM_LOG_DIR |-> 2]

toCUFileSizeTConfigParameter(h) ==
    Switch(
      [hipFileParamProfileStats |-> "CUFILE_PARAM_PROFILE_STATS",
       hipFileParamExecutionMaxIOQueueDepth |-> "CUFILE_PARAM_EXECUTION_MAX_IO_QUEUE_DEPTH",
       hipFileParamExecutionMaxIOThreads |-> "CUFILE_PARAM_EXECUTION_MAX_IO_THREADS",
       hipFileParamExecutionMinIOThresholdSizeKB |-> "CUFILE_PARAM_EXECUTION_MIN_IO_THRESHOLD_SIZE_KB",
       hipFileParamExecutionMaxRequestParallelism |-> "CUFILE_PARAM_EXECUTION_MAX_REQUEST_PARALLELISM",
       hipFileParamPropertiesMaxDirectIOSizeKB |->
         "CUFILE_PARAM_PROPERTIES_MAX_DIRECT_IO_SIZE_KB",
       hipFileParamPropertiesMaxDeviceCacheSizeKB |->
         "CUFILE_PARAM_PROPERTIES_MAX_DEVICE_CACHE_SIZE_KB",
       hipFileParamPropertiesPerBufferCacheSizeKB |->
         "CUFILE_PARAM_PROPERTIES_PER_BUFFER_CACHE_SIZE_KB",
       hipFileParamPropertiesMaxDevicePinnedMemSizeKB |->
         "CUFILE_PARAM_PROPERTIES_MAX_DEVICE_PINNED_MEM_SIZE_KB",
       hipFileParamPropertiesIOBatchsize |-> "CUFILE_PARAM_PROPERTIES_IO_BATCHSIZE",
       hipFileParamPollthresholdSizeKB |-> "CUFILE_PARAM_POLLTHRESHOLD_SIZE_KB",
       hipFileParamPropertiesBatchIOTimeoutMs |-> "CUFILE_PARAM_PROPERTIES_BATCH_IO_TIMEOUT_MS"], h)

toCUFileBoolConfigParameter(h) ==
    Switch(
      [hipFileParamPropertiesUsePollMode |-> "CUFILE_PARAM_PROPERTIES_USE_POLL_MODE",
       hipFileParamPropertiesAllowCompatMode |-> "CUFILE_PARAM_PROPERTIES_ALLOW_COMPAT_MODE",
       hipFileParamForceCompatMode |-> "CUFILE_PARAM_FORCE_COMPAT_MODE",
       hipFileParamFsMiscApiCheckAggressive |-> "CUFILE_PARAM_FS_MISC_API_CHECK_AGGRESSIVE",
       hipFileParamExecutionParallelIO |-> "CUFILE_PARAM_EXECUTION_PARALLEL_IO",
       hipFileParamProfileNvtx |-> "CUFILE_PARAM_PROFILE_NVTX",
       hipFileParamPropertiesAllowSystemMemory |-> "CUFILE_PARAM_PROPERTIES_ALLOW_SYSTEM_MEMORY",
       hipFileParamUsePcip2pdma |-> "CUFILE_PARAM_USE_PCIP2PDMA",
       hipFileParamPreferIOUring |-> "CUFILE_PARAM_PREFER_IO_URING",
       hipFileParamForceOdirectMode |-> "CUFILE_PARAM_FORCE_ODIRECT_MODE",
       hipFileParamSkipTopologyDetection |-> "CUFILE_PARAM_SKIP_TOPOLOGY_DETECTION",
       hipFileParamStreamMemopsBypass |-> "CUFILE_PARAM_STREAM_MEMOPS_BYPASS"], h)

(* The log directory set where the path of the logfile is meant. *)
toCUFileStringConfigParameter_Pasted(h) ==
    Switch(
      [hipFileParamLoggingLevel |-> "CUFILE_PARAM_LOGGING_LEVEL",
       hipFileParamEnvLogfilePath |-> "CUFILE_PARAM_LOG_DIR",
       hipFileParamLogDir |-> "CUFILE_PARAM_LOG_DIR"], h)

toCUFileStringConfigParameter(h) ==
    Switch(
      [hipFileParamLoggingLevel |-> "CUFILE_PARAM_LOGGING_LEVEL",
       hipFileParamEnvLogfilePath |-> "CUFILE_PARAM_ENV_LOGFILE_PATH",
       hipFileParamLogDir |-> "CUFILE_PARAM_LOG_DIR"], h)

=============================================================================
