----------------------------- MODULE MCNvidiaApi -----------------------------
EXTENDS NvidiaApi

Zeros ==
    [major_version |-> 0, minor_version |-> 0, poll_thresh_size |-> 0, max_direct_io_size |-> 0,
     dstatusflags |-> 0, dcontrolflags |-> 0, fflags |-> 0, max_device_cache_size |-> 0,
     per_buffer_cache_size |-> 0, max_device_pinned_mem_size |-> 0, max_batch_io_size |-> 0,
     max_batch_io_timeout_msecs |-> 0]

(* One field at a time at the largest value, so that any two of them tell   *)
(* each other apart.                                                        *)
ReportedFields == {[Zeros EXCEPT ![f] = UIntMax] : f \in DOMAIN Zeros}

=============================================================================
