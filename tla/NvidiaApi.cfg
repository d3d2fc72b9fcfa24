SPECIFICATION Spec
CONSTANTS
    UIntMax = 7
    MaxOps = 2
    FinalStatuses = {"CUFILE_COMPLETE", "CUFILE_FAILED", "CUFILE_NEWER"}
    SomeErrors = {"CU_FILE_CUDA_DRIVER_ERROR", "CU_FILE_INVALID_VALUE"}
    UnknownError = "CU_FILE_NEWER"
    ReportedProps <- ReportedFields
INVARIANTS
    TypeOK
    AnswersAgree
    MeaningKept
    EventsDeliveredOnce
