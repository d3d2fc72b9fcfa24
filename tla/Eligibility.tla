----------------------------- MODULE Eligibility -----------------------------
(***************************************************************************)
(* What decides how a request is served, before any data moves: the        *)
(* environment variables (environment.cpp) and the configuration made from *)
(* them (configuration.cpp), what statx, open and libmount say of a file   *)
(* (file.cpp, mountinfo.cpp), and what HIP says of a buffer (buffer.cpp).  *)
(* Strings are abstracted to the cases the code tells apart.               *)
(***************************************************************************)
EXTENDS Integers, FiniteSets

CONSTANTS
    AddrMod,    \* number of addresses, 2^64 in the code
    AllocBase,  \* what hipMemGetAddressRange returns for the application's
    AllocLen    \* allocation: its address and its size

ASSUME AllocationAssumption ==
    /\ AddrMod \in Nat /\ AllocBase \in Nat /\ AllocLen \in Nat
    /\ AllocBase + AllocLen < AddrMod

-----------------------------------------------------------------------------
(* Environment and configuration *)

BoolTexts     == {"unset", "true", "false", "other text"}
UnsignedTexts == {"unset", "no number", "out of range", "zero", "one", "above unsigned"}

Environments ==
    [FORCE_COMPAT_MODE : BoolTexts, ALLOW_COMPAT_MODE : BoolTexts,
     UNSUPPORTED_FILE_SYSTEMS : BoolTexts, STATS_LEVEL : UnsignedTexts]

(* Environment::get<bool> and value_or: a text that is neither "true" nor   *)
(* "false" counts as unset.                                                 *)
EnvBool(text, default) ==
    IF text \in {"true", "false"} THEN text = "true" ELSE default

(* Environment::get<unsigned int>, value_or(0) and the upper limit of the   *)
(* statistics server: 3 is StatsLevel::Max.                                 *)
statsLevel(text) ==
    CASE text = "one" -> 1
      [] text = "above unsigned" -> 3
      [] OTHER -> 0

(* The back ends and options Configuration reports, given the environment   *)
(* and the symbols hipGetProcAddress finds in the HIP runtime.              *)
Configured(env, symbols) ==
    (IF {"hipAmdFileRead", "hipAmdFileWrite"} \subseteq symbols
        /\ ~EnvBool(env.FORCE_COMPAT_MODE, FALSE) THEN {"fastpath"} ELSE {})
    \cup (IF EnvBool(env.ALLOW_COMPAT_MODE, TRUE) THEN {"fallback"} ELSE {})
    \cup (IF EnvBool(env.UNSUPPORTED_FILE_SYSTEMS, FALSE) THEN {"unsupported"} ELSE {})
    \cup (IF statsLevel(env.STATS_LEVEL) >= 1 THEN {"stats"} ELSE {})

-----------------------------------------------------------------------------
(* Files *)

Mounts ==
    {"no context", "no mtab", "not listed", "xfs", "other", "ext4 option error"}
    \cup {"ext4 data=ordered", "ext4 data=journal", "ext4 data=writeback",
          "ext4 data=?", "ext4 no data"}

(* LibMountHelper::getMountInfo throws. *)
MountInfoThrows(mount) == mount \in {"no context", "no mtab", "ext4 option error"}

(* An ext4 whose mount options do not name a mode is in ordered mode. *)
onExt4Ordered(mount) == mount \in {"ext4 data=ordered", "ext4 no data"}

onXfs(mount) == mount = "xfs"

NoDioAlign == << >>    \* statx does not report direct I/O alignments

(* What the constructor of UnregisteredFile meets: type of the file, the    *)
(* memory and offset alignments statx reports, whether the client opened it *)
(* with O_DIRECT, the outcome of the second open, the mount.                *)
OpenFiles(aligns) ==
    [type : {"regular", "block", "other"}, dioalign : aligns \cup {NoDioAlign},
     o_direct : BOOLEAN, second_open : {"ok", "EINVAL", "error"}, mount : Mounts]

(* Opening the buffered descriptor must succeed; the unbuffered one may be  *)
(* refused with EINVAL.                                                     *)
RegisterFileThrows(f) ==
    \/ MountInfoThrows(f.mount)
    \/ f.second_open = "error"
    \/ f.o_direct /\ f.second_open = "EINVAL"

hasUnbufferedFd(f) == f.o_direct \/ f.second_open = "ok"

(* <<dioMemAlign(), dioOffsetAlign()>> *)
dioAlign(f, default) ==
    IF ~hasUnbufferedFd(f) THEN <<0, 0>>
    ELSE IF f.dioalign = NoDioAlign THEN <<default, default>> ELSE f.dioalign

(* Fastpath::score on file type and file system. *)
FileAccepted(f, config) ==
    \/ f.type = "block"
    \/ f.type = "regular" /\ ("unsupported" \in config \/ onExt4Ordered(f.mount) \/ onXfs(f.mount))

-----------------------------------------------------------------------------
(* Buffers.  ptr is the distance of the pointer from AllocBase. *)

(* The region check without its test for overflow. *)
isValidBufferRegion_MayWrap(ptr, length) ==
    (AllocBase + ptr + length) % AddrMod <= AllocBase + AllocLen

isValidBufferRegion(ptr, length) ==
    /\ length <= (AddrMod - 1) - (AllocBase + ptr)
    /\ (AllocBase + ptr + length) % AddrMod <= AllocBase + AllocLen

(* The length of a temporary Buffer: the rest of the allocation. *)
TemporaryLength(ptr) == AllocLen - ptr

=============================================================================
