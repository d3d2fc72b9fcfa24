------------------------------- MODULE MCSyncIO -------------------------------
(* Instances of SyncIO for TLC. *)
EXTENDS SyncIO

(* Negative, aligned, unaligned, and close to the end. *)
MCFileOffsets   == {-1, 1, 2}
MCBufferOffsets == {-1, 0, 1, 4}

(* Direct I/O refused, finer in memory than in the file, and the reverse. *)
MCDioAligns == {<<0, 0>>, <<1, 2>>, <<2, 1>>}

=============================================================================
