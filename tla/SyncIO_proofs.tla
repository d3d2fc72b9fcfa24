----------------------------- MODULE SyncIO_proofs -----------------------------
(***************************************************************************)
(* Proofs about SyncIO, for every size of an allocation, a file, a chunk   *)
(* and a request and every alignment: the count a call returns is what     *)
(* arrived, a fallback write is durable, no byte outside the buffer is     *)
(* read or written, and the compatibility mode and the statistics are      *)
(* respected on every path through the backends.                           *)
(*                                                                         *)
(* The heart of it is the loop of the fallback: Moved(n) says that the     *)
(* first n bytes of the request, and for a read no other, are in place.    *)
(***************************************************************************)
EXTENDS SyncIO, TLAPS

Early == {"start", "file", "buffer", "call", "fastpath", "fallback"}

(* No byte has moved. *)
Untouched(g, f) == \A i \in Cells : g[i] = <<"gpu", i>> /\ f[i] = <<"file", i>>

(* Bytes o.. of the file are at d.. of the GPU's memory, n of them. *)
ReadData(g, f, d, o, n) ==
    /\ \A i \in Cells :
         g[i] = IF i \in d..(d + n - 1) THEN <<"file", o + (i - d)>> ELSE <<"gpu", i>>
    /\ \A i \in Cells : f[i] = <<"file", i>>

(* Bytes d.. of the GPU's memory are at o.. of the file, at least n of them. *)
WriteData(g, f, d, o, n) ==
    /\ \A i \in Cells : g[i] = <<"gpu", i>>
    /\ \A i \in o..(o + n - 1) : f[i] = <<"gpu", d + (i - o)>>

(* What moved lies within a request of n bytes. *)
Contained(g, f, d, o, n) ==
    \A i \in Cells :
      /\ g[i] = <<"gpu", i>> \/ i \in d..(d + n - 1)
      /\ f[i] = <<"file", i>> \/ (i \in o..(o + n - 1) /\ f[i] = <<"gpu", d + (i - o)>>)

(* The first n bytes of the request are in place in g and f. *)
InPlace(g, f, n) == IF io_type = "Read" THEN ReadData(g, f, DevPos, offset, n)
                                        ELSE WriteData(g, f, DevPos, offset, n)

Moved(n) == InPlace(gpu, file, n)

(* The arguments name bytes that are modelled, the Buffer lies in the       *)
(* allocation.                                                              *)
Shape ==
    /\ offset \in Int /\ boffset \in Int /\ offset + size <= Extent
    /\ buffer.ptr + buffer.length <= AllocLen
    /\ DOMAIN gpu = Cells /\ DOMAIN file = Cells /\ DOMAIN bounce = 0..(Chunk - 1)

(* Only configured backends are handed the call, and what the user asked    *)
(* for is in the configuration.                                             *)
Chosen ==
    /\ "forced" \in compat => "fastpath" \notin config
    /\ "denied" \in compat => "fallback" \notin config
    /\ used \subseteq config
    /\ pc \in {"start", "file", "buffer", "call"} => used = {}
    /\ pc = "fastpath" => "fallback" \notin used

Memory ==
    Untouched(gpu, file) \/ (paramsValid(size) /\ Contained(gpu, file, DevPos, offset, size))

(* How far the call is.  A chunk that was written and not yet synchronized  *)
(* is in place but not counted.                                             *)
Progress ==
    /\ pc \in Early => Untouched(gpu, file) /\ total = 0 /\ chunk = 0
    /\ pc # "returned" => stats = 0
    /\ pc \in {"loop", "sync"} =>
         /\ paramsValid(size)
         /\ Moved(total)
         /\ io_type = "Write" => offset..(offset + total - 1) \subseteq synced
    /\ pc = "sync" => io_type = "Write" /\ total + chunk <= size /\ Moved(total + chunk)

Outcome == FallbackWriteIsDurable /\ StatsMatchReturns /\ (Success => Moved(result))

IInv == TypeOK /\ Shape /\ Chosen /\ Memory /\ Progress /\ Outcome

-----------------------------------------------------------------------------
(* Copying *)

(* What CopyBytes does, byte by byte. *)
LEMMA Copied ==
  ASSUME NEW dst, NEW b, NEW src, NEW a, NEW n
  PROVE  /\ DOMAIN CopyBytes(dst, b, src, a, n) = DOMAIN dst
         /\ \A i \in DOMAIN dst :
              CopyBytes(dst, b, src, a, n)[i] =
                IF i \in b..(b + n - 1) THEN src[a + (i - b)] ELSE dst[i]
  BY DEF CopyBytes

(* A read that has moved t bytes moves n more. *)
LEMMA ReadTurn ==
  ASSUME NEW g, NEW f, NEW g2, NEW d \in Nat, NEW o \in Nat, NEW t \in Nat, NEW n \in Nat,
         o + t + n <= Extent,
         ReadData(g, f, d, o, t),
         \A i \in Cells :
           g2[i] = IF i \in (d + t)..(d + t + n - 1) THEN f[o + t + (i - (d + t))] ELSE g[i]
  PROVE  ReadData(g2, f, d, o, t + n)
  <1> SUFFICES ASSUME NEW i \in Cells
               PROVE  g2[i] = IF i \in d..(d + (t + n) - 1) THEN <<"file", o + (i - d)>>
                              ELSE <<"gpu", i>>
    BY DEF ReadData
  <1> i \in Nat
    BY SizesAssumption DEF Cells
  <1>1. CASE i \in (d + t)..(d + t + n - 1)
    <2>1. o + t + (i - (d + t)) \in Cells /\ o + t + (i - (d + t)) = o + (i - d)
      BY <1>1, SizesAssumption DEF Cells
    <2>2. f[o + (i - d)] = <<"file", o + (i - d)>>
      BY <2>1 DEF ReadData
    <2>3. i \in d..(d + (t + n) - 1)
      BY <1>1
    <2>4. g2[i] = f[o + (i - d)]
      BY <1>1, <2>1
    <2> QED BY <2>2, <2>3, <2>4
  <1>2. CASE i \notin (d + t)..(d + t + n - 1)
    <2>1. i \in d..(d + (t + n) - 1) <=> i \in d..(d + t - 1)
      BY <1>2
    <2>2. g2[i] = g[i]
      BY <1>2
    <2> QED BY <2>1, <2>2 DEF ReadData
  <1> QED BY <1>1, <1>2

(* A write that has put t bytes in place puts n more. *)
LEMMA WriteTurn ==
  ASSUME NEW g, NEW f, NEW f2, NEW d \in Nat, NEW o \in Nat, NEW t \in Nat, NEW n \in Nat,
         o + t + n <= Extent, d + t + n <= Extent,
         WriteData(g, f, d, o, t),
         \A i \in Cells :
           f2[i] = IF i \in (o + t)..(o + t + n - 1) THEN g[d + t + (i - (o + t))] ELSE f[i]
  PROVE  WriteData(g, f2, d, o, t + n)
  <1> SUFFICES ASSUME NEW i \in o..(o + (t + n) - 1)
               PROVE  f2[i] = <<"gpu", d + (i - o)>>
    BY DEF WriteData
  <1> i \in Nat /\ i \in Cells
    BY SizesAssumption DEF Cells
  <1>1. CASE i \in (o + t)..(o + t + n - 1)
    <2>1. d + t + (i - (o + t)) \in Cells /\ d + t + (i - (o + t)) = d + (i - o)
      BY <1>1, SizesAssumption DEF Cells
    <2>2. g[d + (i - o)] = <<"gpu", d + (i - o)>>
      BY <2>1 DEF WriteData
    <2>3. f2[i] = g[d + (i - o)]
      BY <1>1, <2>1
    <2> QED BY <2>2, <2>3
  <1>2. CASE i \notin (o + t)..(o + t + n - 1)
    <2>1. i \in o..(o + t - 1)
      BY <1>2
    <2>2. f2[i] = f[i]
      BY <1>2
    <2> QED BY <2>1, <2>2 DEF WriteData
  <1> QED BY <1>1, <1>2

(* What is in place of a request of m bytes is contained in it. *)
LEMMA ReadIsContained ==
  ASSUME NEW g, NEW f, NEW d \in Nat, NEW o \in Nat, NEW n \in Nat, NEW m \in Nat, n <= m,
         ReadData(g, f, d, o, n)
  PROVE  Contained(g, f, d, o, m)
  <1> SUFFICES ASSUME NEW i \in Cells
               PROVE  (g[i] = <<"gpu", i>> \/ i \in d..(d + m - 1)) /\ f[i] = <<"file", i>>
    BY DEF Contained
  <1>1. i \in d..(d + n - 1) => i \in d..(d + m - 1)
    BY SizesAssumption DEF Cells
  <1> QED BY <1>1 DEF ReadData

(* A write that goes on within its request stays in it. *)
LEMMA WriteStaysContained ==
  ASSUME NEW g, NEW f, NEW f2, NEW d \in Nat, NEW o \in Nat, NEW t \in Nat, NEW n \in Nat,
         NEW m \in Nat, t + n <= m, o + m <= Extent, d + m <= Extent,
         WriteData(g, f, d, o, t),
         Contained(g, f, d, o, m),
         \A i \in Cells :
           f2[i] = IF i \in (o + t)..(o + t + n - 1) THEN g[d + t + (i - (o + t))] ELSE f[i]
  PROVE  Contained(g, f2, d, o, m)
  <1> SUFFICES ASSUME NEW i \in Cells
               PROVE  f2[i] = <<"file", i>> \/ (i \in o..(o + m - 1) /\ f2[i] = <<"gpu", d + (i - o)>>)
    BY DEF Contained
  <1> i \in Nat
    BY SizesAssumption DEF Cells
  <1>1. CASE i \in (o + t)..(o + t + n - 1)
    <2>1. /\ d + t + (i - (o + t)) \in Cells /\ d + t + (i - (o + t)) = d + (i - o)
          /\ i \in o..(o + m - 1)
      BY <1>1, SizesAssumption DEF Cells
    <2>2. g[d + (i - o)] = <<"gpu", d + (i - o)>>
      BY <2>1 DEF WriteData
    <2>3. f2[i] = g[d + (i - o)]
      BY <1>1, <2>1
    <2> QED BY <2>1, <2>2, <2>3
  <1>2. CASE i \notin (o + t)..(o + t + n - 1)
    <2>2. f2[i] = f[i]
      BY <1>2
    <2> QED BY <2>2 DEF Contained
  <1> QED BY <1>1, <1>2

(* Before anything moved, nothing has. *)
LEMMA UntouchedMoved ==
  ASSUME NEW g, NEW f, NEW d \in Nat, NEW o \in Nat, NEW m \in Nat, Untouched(g, f)
  PROVE  ReadData(g, f, d, o, 0) /\ WriteData(g, f, d, o, 0) /\ Contained(g, f, d, o, m)
  <1>1. d..(d + 0 - 1) = {} /\ o..(o + 0 - 1) = {}
    OBVIOUS
  <1>2. ReadData(g, f, d, o, 0)
    BY <1>1 DEF Untouched, ReadData
  <1>3. WriteData(g, f, d, o, 0)
    BY <1>1 DEF Untouched, WriteData
  <1>4. Contained(g, f, d, o, m)
    BY DEF Untouched, Contained
  <1> QED BY <1>2, <1>3, <1>4

(* If n bytes are in place, so are fewer. *)
LEMMA WriteDataFewer ==
  ASSUME NEW g, NEW f, NEW d \in Nat, NEW o \in Nat, NEW n \in Nat, NEW m \in Nat, m <= n,
         WriteData(g, f, d, o, n)
  PROVE  WriteData(g, f, d, o, m)
  BY DEF WriteData

-----------------------------------------------------------------------------
(* Steps *)

(* The numbers of a call are numbers. *)
LEMMA Numbers ==
  ASSUME TypeOK
  PROVE  /\ buffer.ptr \in Nat /\ buffer.length \in Nat /\ size \in Nat
         /\ total \in 0..size /\ chunk \in 0..size
  <1>1. /\ buffer \in [ptr : Pointers \cup {0}, length : 0..(AddrMod - 1)] /\ size \in Counts
        /\ total \in 0..size /\ chunk \in 0..size
    BY DEF TypeOK
  <1>2. buffer.ptr \in Pointers \cup {0} /\ buffer.length \in 0..(AddrMod - 1)
    BY <1>1
  <1>3. buffer.ptr \in Nat
    <2>1. Pointers \subseteq 0..(AllocLen - 1) /\ AllocLen \in Nat
      BY SizesAssumption, AllocationAssumption
    <2>2. \A p \in Pointers \cup {0} : p \in Nat
      BY <2>1
    <2> QED BY <1>2, <2>2
  <1> QED BY <1>1, <1>2, <1>3, SizesAssumption, AllocationAssumption DEF Counts

(* The numbers of a request that is valid. *)
LEMMA Bounds ==
  ASSUME TypeOK, Shape, paramsValid(size)
  PROVE  /\ DevPos \in Nat /\ offset \in Nat /\ size \in Nat
         /\ total \in Nat /\ chunk \in Nat /\ total <= size
         /\ DevPos + size <= Extent /\ offset + size <= Extent
         /\ DevPos >= buffer.ptr /\ DevPos + size <= buffer.ptr + buffer.length
         /\ buffer.ptr + buffer.length <= AllocLen
  <1>1. /\ buffer.ptr \in Nat /\ buffer.length \in Nat /\ size \in Nat
        /\ total \in 0..size /\ chunk \in 0..size
    BY Numbers
  <1>2. /\ offset \in Int /\ boffset \in Int /\ offset + size <= Extent
        /\ buffer.ptr + buffer.length <= AllocLen
    BY DEF Shape
  <1>3. offset >= 0 /\ boffset >= 0 /\ buffer.length - boffset >= size
    BY DEF paramsValid
  <1>4. AllocLen \in Nat /\ Extent \in Nat /\ AllocLen <= Extent
    BY SizesAssumption, AllocationAssumption
  <1>5. DevPos = buffer.ptr + boffset
    BY DEF DevPos
  <1> QED BY <1>1, <1>2, <1>3, <1>4, <1>5

(* A call that fails leaves what it moved. *)
LEMMA Failing ==
  ASSUME IInv, pc # "returned", NEW r \in {1} \cup OpErrors \cup HipErrors, Return(-r),
         UNCHANGED <<request, size, total, chunk, data, stats>>, errno' \in BOOLEAN
  PROVE  IInv'
  <1> USE DEF IInv, Return, request, inputs, setup, data
  <1>1. result' < 0 /\ result' \in Counts \cup {-1} \cup {-x : x \in OpErrors \cup HipErrors}
    BY DEF OpErrors, HipErrors, hipFileInternalError, hipFileInvalidValue
  <1>2. TypeOK'
    BY <1>1 DEF TypeOK
  <1>3. Shape'
    BY DEF Shape
  <1>4. Chosen'
    BY DEF Chosen
  <1>5. Memory'
    BY DEF Memory, paramsValid, DevPos
  <1>6. Progress'
    BY DEF Progress, Early
  <1>7. ~Success'
    BY <1>1 DEF Success, OpErrors, HipErrors, hipFileInternalError, hipFileInvalidValue
  <1>8. Outcome'
    <2>1. ~(result' >= 0)
      BY <1>7 DEF Success
    <2>2. stats' = 0
      BY DEF Progress
    <2> QED BY <1>7, <2>1, <2>2 DEF Outcome, FallbackWriteIsDurable, StatsMatchReturns
  <1> QED BY <1>2, <1>3, <1>4, <1>5, <1>6, <1>8

(* The invariant holds initially. *)
LEMMA InitStep == Init => IInv
  <1> SUFFICES ASSUME Init PROVE IInv
    OBVIOUS
  <1> USE SizesAssumption, AllocationAssumption DEF Init
  <1>1. TypeOK
    <2>1. 0 \in Counts /\ 0 \in 0..size /\ 0 \in 0..(AddrMod - 1)
      BY DEF Counts
    <2>2. buffer \in [ptr : Pointers \cup {0}, length : 0..(AddrMod - 1)]
      BY <2>1
    <2>3. traits \in [unbuffered : BOOLEAN, accepted : BOOLEAN,
                     align : DioAligns \cup {<<0, 0>>, <<PageAlign, PageAlign>>}]
      OBVIOUS
    <2> QED BY <2>1, <2>2, <2>3 DEF TypeOK
  <1>2. Shape
    BY DEF Shape, Cells
  <1>3. Chosen
    BY DEF Chosen
  <1>4. Untouched(gpu, file)
    BY DEF Untouched
  <1>5. Memory
    BY <1>4 DEF Memory
  <1>6. Progress
    BY <1>4 DEF Progress, Early
  <1>7. Outcome
    BY DEF Outcome, FallbackWriteIsDurable, StatsMatchReturns, Success
  <1> QED BY <1>1, <1>2, <1>3, <1>5, <1>6, <1>7 DEF IInv

(* The actions before the call change no more than the setup. *)
LEMMA SettingUp ==
  ASSUME IInv, pc \in {"start", "file", "buffer"}, pc' \in {"file", "buffer", "call"},
         UNCHANGED inCall,
         compat' \subseteq {"forced", "denied"},
         config' \subseteq {"fastpath", "fallback", "unsupported", "stats"},
         traits' \in [unbuffered : BOOLEAN, accepted : BOOLEAN,
                      align : DioAligns \cup {<<0, 0>>, <<PageAlign, PageAlign>>}],
         buffer' \in [ptr : Pointers \cup {0}, length : 0..(AddrMod - 1)],
         buffer'.ptr + buffer'.length <= AllocLen,
         "forced" \in compat' => "fastpath" \notin config',
         "denied" \in compat' => "fallback" \notin config'
  PROVE  IInv'
  <1> USE DEF IInv, inCall, data
  <1>1. TypeOK'
    BY DEF TypeOK
  <1>2. Shape'
    BY DEF Shape
  <1>3. Chosen'
    BY DEF Chosen
  <1>4. Untouched(gpu, file)'
    BY DEF Progress, Early
  <1>5. Memory'
    BY <1>4 DEF Memory
  <1>6. Progress'
    BY <1>4 DEF Progress, Early
  <1>7. Outcome'
    BY DEF Outcome, FallbackWriteIsDurable, StatsMatchReturns, Success
  <1> QED BY <1>1, <1>2, <1>3, <1>5, <1>6, <1>7

(* Reading the environment keeps the invariant. *)
LEMMA ConfigureStep ==
  ASSUME IInv, NEW env \in Environments, NEW symbols, Configure(env, symbols)
  PROVE  IInv'
  <1> USE DEF Configure
  <1>1. config' \subseteq {"fastpath", "fallback", "unsupported", "stats"}
    BY DEF Configured
  <1>2. compat' \subseteq {"forced", "denied"}
    OBVIOUS
  <1>3. "forced" \in compat' => "fastpath" \notin config'
    BY DEF Configured, EnvBool
  <1>4. "denied" \in compat' => "fallback" \notin config'
    BY DEF Configured, EnvBool
  <1>5. /\ traits' \in [unbuffered : BOOLEAN, accepted : BOOLEAN,
                        align : DioAligns \cup {<<0, 0>>, <<PageAlign, PageAlign>>}]
        /\ buffer' \in [ptr : Pointers \cup {0}, length : 0..(AddrMod - 1)]
        /\ buffer'.ptr + buffer'.length <= AllocLen
    BY DEF IInv, TypeOK, Shape
  <1> QED BY <1>1, <1>2, <1>3, <1>4, <1>5, SettingUp

(* So does the registration of a file ... *)
LEMMA RegisterFileStep ==
  ASSUME IInv, NEW f \in OpenFiles(DioAligns), RegisterFile(f)
  PROVE  IInv'
  <1> USE DEF RegisterFile
  <1>1. traits' \in [unbuffered : BOOLEAN, accepted : BOOLEAN,
                     align : DioAligns \cup {<<0, 0>>, <<PageAlign, PageAlign>>}]
    <2>1. hasUnbufferedFd(f) \in BOOLEAN
      BY DEF hasUnbufferedFd
    <2>2. FileAccepted(f, config) \in BOOLEAN
      BY DEF FileAccepted
    <2>3. dioAlign(f, PageAlign) \in DioAligns \cup {<<0, 0>>, <<PageAlign, PageAlign>>}
      BY DEF dioAlign, OpenFiles
    <2> HIDE DEF RegisterFile
    <2> QED BY <2>1, <2>2, <2>3 DEF RegisterFile
  <1>2. /\ compat' \subseteq {"forced", "denied"}
        /\ config' \subseteq {"fastpath", "fallback", "unsupported", "stats"}
        /\ buffer' \in [ptr : Pointers \cup {0}, length : 0..(AddrMod - 1)]
        /\ buffer'.ptr + buffer'.length <= AllocLen
        /\ "forced" \in compat' => "fastpath" \notin config'
        /\ "denied" \in compat' => "fallback" \notin config'
    BY DEF IInv, TypeOK, Shape, Chosen
  <1> QED BY <1>1, <1>2, SettingUp

(* What the region check accepts lies in the allocation: the sum it looks   *)
(* at has not wrapped.                                                      *)
LEMMA RegionChecked ==
  ASSUME NEW ptr \in Nat, NEW length \in Nat, isValidBufferRegion(ptr, length)
  PROVE  ptr + length <= AllocLen
  <1>1. AllocBase + ptr + length \in Nat /\ AllocBase + ptr + length < AddrMod
    BY AllocationAssumption DEF isValidBufferRegion
  <1>2. (AllocBase + ptr + length) % AddrMod = AllocBase + ptr + length
    BY <1>1, AllocationAssumption
  <1> QED BY <1>1, <1>2, AllocationAssumption DEF isValidBufferRegion

(* ... and of a buffer, or the lookup of a temporary one. *)
LEMMA BufferStep ==
  ASSUME IInv, NEW ptr \in Pointers,
         TemporaryBuffer(ptr) \/ \E length \in Lengths : RegisterBuffer(ptr, length)
  PROVE  IInv'
  <1>1. ptr \in Nat /\ ptr < AllocLen /\ AllocLen < AddrMod
    BY SizesAssumption, AllocationAssumption
  <1>2. PICK length \in 0..(AddrMod - 1) :
          /\ buffer' = [ptr |-> ptr, length |-> length]
          /\ ptr + length <= AllocLen
    <2>1. CASE TemporaryBuffer(ptr)
      <3>1. AllocLen - ptr \in 0..(AddrMod - 1) /\ ptr + (AllocLen - ptr) <= AllocLen
        BY <1>1, AllocationAssumption
      <3> QED BY <2>1, <3>1 DEF TemporaryBuffer, TemporaryLength
    <2>2. ASSUME NEW length \in Lengths, RegisterBuffer(ptr, length)
          PROVE  length \in 0..(AddrMod - 1) /\ buffer' = [ptr |-> ptr, length |-> length]
                 /\ ptr + length <= AllocLen
      <3>1. length \in 0..(AddrMod - 1) /\ length \in Nat
        BY SizesAssumption, AllocationAssumption
      <3> QED BY <2>2, <3>1, <1>1, RegionChecked DEF RegisterBuffer
    <2> QED BY <2>1, <2>2
  <1>3. /\ buffer' \in [ptr : Pointers \cup {0}, length : 0..(AddrMod - 1)]
        /\ buffer'.ptr + buffer'.length <= AllocLen
    BY <1>2
  <1>4. /\ pc = "buffer" /\ pc' = "call"
        /\ UNCHANGED <<compat, config, traits, inCall>>
    BY DEF TemporaryBuffer, RegisterBuffer
  <1>5. /\ compat' \subseteq {"forced", "denied"}
        /\ config' \subseteq {"fastpath", "fallback", "unsupported", "stats"}
        /\ traits' \in [unbuffered : BOOLEAN, accepted : BOOLEAN,
                        align : DioAligns \cup {<<0, 0>>, <<PageAlign, PageAlign>>}]
        /\ "forced" \in compat' => "fastpath" \notin config'
        /\ "denied" \in compat' => "fallback" \notin config'
    BY <1>4 DEF IInv, TypeOK, Shape, Chosen
  <1> QED BY <1>3, <1>4, <1>5, SettingUp

(* The choice of a backend keeps it. *)
LEMMA hipFileIoStep ==
  ASSUME IInv, NEW t \in {"Read", "Write"}, NEW n \in Sizes, NEW fo \in FileOffsets,
         NEW bo \in BufferOffsets, hipFileIo(t, n, fo, bo)
  PROVE  IInv'
  <1> USE DEF IInv, hipFileIo, setup, data
  <1>1. /\ n \in Nat /\ n \in Counts /\ fo \in Int /\ bo \in Int /\ fo + n <= Extent
    BY SizesAssumption DEF Counts
  <1>2. /\ total' = 0 /\ chunk' = 0 /\ stats' = 0
        /\ Untouched(gpu, file)'
        /\ used = {}
    BY DEF Progress, Early, Chosen
  <1>3. \/ pc' = "fastpath" /\ used' = {"fastpath"} /\ "fastpath" \in config /\ result' = result
        \/ pc' = "fallback" /\ used' = {"fallback"} /\ "fallback" \in config /\ result' = result
        \/ pc' = "returned" /\ used' = {} /\ result' = -hipFileInternalError
    <2> USE <1>2
    <2>1. CASE FastpathScore(n, fo, bo) > FallbackScore /\ pc' = "fastpath" /\ used' = {"fastpath"}
               /\ UNCHANGED result
      <3>1. "fastpath" \in config
        BY <2>1 DEF FastpathScore, FallbackScore
      <3> QED BY <2>1, <3>1
    <2>2. CASE FallbackScore >= 0 /\ pc' = "fallback" /\ used' = {"fallback"} /\ UNCHANGED result
      <3>1. "fallback" \in config
        BY <2>2 DEF FallbackScore
      <3> QED BY <2>2, <3>1
    <2>3. CASE Return(-hipFileInternalError) /\ UNCHANGED used
      BY <2>3 DEF Return
    <2> QED BY <2>1, <2>2, <2>3
  <1>4. /\ io_type' = t /\ size' = n /\ offset' = fo /\ boffset' = bo
        /\ UNCHANGED <<compat, config, traits, buffer, total, chunk, bounce, gpu, file, synced, stats,
                       errno>>
    OBVIOUS
  <1> HIDE DEF hipFileIo
  <1>5. result' \in Counts \cup {-1} \cup {-x : x \in OpErrors \cup HipErrors}
    BY <1>3 DEF TypeOK, OpErrors
  <1>6. TypeOK'
    <2>1. 0 \in 0..size' /\ size' \in Counts
      BY <1>1, <1>4
    <2> QED BY <1>2, <1>3, <1>4, <1>5, <2>1 DEF TypeOK
  <1>7. Shape'
    BY <1>1, <1>4 DEF Shape
  <1>8. Chosen'
    BY <1>3, <1>4 DEF Chosen
  <1>9. Memory'
    BY <1>2 DEF Memory
  <1>10. Progress'
    BY <1>2, <1>3 DEF Progress, Early
  <1>11. Outcome'
    <2>1. pc' = "returned" => ~(result' >= 0)
      BY <1>3 DEF hipFileInternalError
    <2> QED BY <2>1, <1>2 DEF Outcome, FallbackWriteIsDurable, StatsMatchReturns, Success
  <1> QED BY <1>6, <1>7, <1>8, <1>9, <1>10, <1>11

(* What the driver moves is in place, and nothing else. *)
LEMMA Transferred ==
  ASSUME TypeOK, Shape, paramsValid(size), Untouched(gpu, file), NEW n \in Nat, n <= size,
         Transfer(n), UNCHANGED <<inputs, size>>
  PROVE  /\ DOMAIN gpu' = Cells /\ DOMAIN file' = Cells
         /\ Moved(n)'
         /\ Contained(gpu, file, DevPos, offset, size)'
         /\ paramsValid(size)'
         /\ n = 0 => Untouched(gpu, file)'
  <1>1. /\ DevPos \in Nat /\ offset \in Nat /\ size \in Nat
        /\ DevPos + size <= Extent /\ offset + size <= Extent
    BY Bounds
  <1>2. /\ DevPos' = DevPos /\ offset' = offset /\ size' = size /\ io_type' = io_type
        /\ paramsValid(size)'
    BY DEF inputs, setup, DevPos, paramsValid
  <1>3. /\ ReadData(gpu, file, DevPos, offset, 0) /\ WriteData(gpu, file, DevPos, offset, 0)
        /\ Contained(gpu, file, DevPos, offset, size)
    BY <1>1, UntouchedMoved
  <1> DEFINE d == DevPos
             o == offset
             m == size
  <1>n. 0 \in Nat /\ n + 0 = n /\ d + 0 = d /\ o + 0 = o /\ 0 + n = n
    BY <1>1
  <1>4. CASE io_type = "Read"
    <2>1. /\ gpu' = CopyBytes(gpu, d, file, o, n) /\ file' = file
      BY <1>4 DEF Transfer
    <2>2. DOMAIN gpu' = Cells /\ DOMAIN file' = Cells
      BY <2>1, Copied DEF Shape
    <2>3. \A i \in Cells : gpu'[i] = IF i \in d..(d + n - 1) THEN file[o + (i - d)] ELSE gpu[i]
      BY <2>1, Copied DEF Shape
    <2>4. ReadData(gpu', file, d, o, n)
      <3> HIDE DEF d, o
      <3>1. \A i \in Cells : gpu'[i] = IF i \in (d + 0)..(d + 0 + n - 1)
                                      THEN file[o + 0 + (i - (d + 0))] ELSE gpu[i]
        BY <2>3, <1>n
      <3>2. d \in Nat /\ o \in Nat /\ o + 0 + n <= Extent /\ ReadData(gpu, file, d, o, 0)
        BY <1>1, <1>3, SizesAssumption DEF d, o
      <3>3. ReadData(gpu', file, d, o, 0 + n)
        BY <1>n, <3>1, <3>2, ReadTurn
      <3> QED BY <3>3, <1>n
    <2>5. Contained(gpu', file, d, o, m)
      BY <1>1, <2>4, ReadIsContained
    <2>6. n = 0 => Untouched(gpu', file')
      <3> HAVE n = 0
      <3>1. d..(d + n - 1) = {}
        BY <1>1
      <3> QED BY <2>1, <2>3, <3>1 DEF Untouched
    <2> QED BY <1>2, <1>4, <2>1, <2>2, <2>4, <2>5, <2>6 DEF Moved, InPlace
  <1>5. CASE io_type = "Write"
    <2>1. /\ file' = CopyBytes(file, o, gpu, d, n) /\ gpu' = gpu
      BY <1>5 DEF Transfer
    <2>2. DOMAIN gpu' = Cells /\ DOMAIN file' = Cells
      BY <2>1, Copied DEF Shape
    <2>3. \A i \in Cells : file'[i] = IF i \in o..(o + n - 1) THEN gpu[d + (i - o)] ELSE file[i]
      BY <2>1, Copied DEF Shape
    <2>4. WriteData(gpu, file', d, o, n) /\ Contained(gpu, file', d, o, m)
      <3> HIDE DEF d, o, m
      <3>1. \A i \in Cells : file'[i] = IF i \in (o + 0)..(o + 0 + n - 1)
                                       THEN gpu[d + 0 + (i - (o + 0))] ELSE file[i]
        BY <2>3, <1>n
      <3>2. /\ d \in Nat /\ o \in Nat /\ m \in Nat /\ o + 0 + n <= Extent /\ d + 0 + n <= Extent
            /\ WriteData(gpu, file, d, o, 0) /\ Contained(gpu, file, d, o, m)
            /\ o + m <= Extent /\ d + m <= Extent /\ 0 + n <= m
        BY <1>1, <1>3, SizesAssumption DEF d, o, m
      <3>3. WriteData(gpu, file', d, o, 0 + n)
        BY <1>n, <3>1, <3>2, WriteTurn
      <3>4. Contained(gpu, file', d, o, m)
        BY <1>n, <3>1, <3>2, WriteStaysContained
      <3> QED BY <3>3, <3>4, <1>n
    <2>6. n = 0 => Untouched(gpu', file')
      <3> HAVE n = 0
      <3>1. o..(o + n - 1) = {}
        BY <1>1
      <3> QED BY <2>1, <2>3, <3>1 DEF Untouched
    <2> QED BY <1>2, <1>5, <2>1, <2>2, <2>4, <2>6 DEF Moved, InPlace
  <1> QED BY <1>4, <1>5 DEF TypeOK

(* A count of the driver's is at most the size. *)
LEMMA ShortCount ==
  ASSUME TypeOK, NEW m \in Nat, NEW p \in Int, NEW n \in ShortCounts(m, p)
  PROVE  n \in Nat /\ n <= m
  BY SizesAssumption DEF ShortCounts, Smaller

(* The fast path moves its bytes. *)
LEMMA FastpathDoneStep ==
  ASSUME IInv, NEW n, FastpathDone(n)
  PROVE  IInv'
  <1> USE DEF IInv, FastpathDone, request
  <1>1. size \in Nat /\ total = 0 /\ chunk = 0 /\ stats = 0 /\ Untouched(gpu, file)
    BY Bounds DEF Progress, Early
  <1>2. n \in Nat /\ n <= size /\ n \in Counts
    <2>1. Smaller(size, MaxRw) \in Nat /\ Smaller(size, MaxRw) <= size /\ offset \in Int
      BY <1>1, SizesAssumption DEF Smaller, Shape
    <2>2. n \in Nat /\ n <= Smaller(size, MaxRw)
      BY <2>1, ShortCount
    <2>3. size \in 0..Extent
      BY DEF TypeOK, Counts
    <2> QED BY <2>1, <2>2, <2>3, SizesAssumption DEF Counts
  <1>3. /\ DOMAIN gpu' = Cells /\ DOMAIN file' = Cells
        /\ Moved(n)'
        /\ Contained(gpu, file, DevPos, offset, size)'
        /\ paramsValid(size)'
    BY <1>1, <1>2, Transferred
  <1>4. /\ pc' = "returned" /\ result' = n
        /\ stats' = IF "stats" \in config THEN n ELSE 0
        /\ UNCHANGED <<compat, config, traits, buffer, io_type, offset, boffset, used, size, total,
                       chunk, errno, bounce, synced>>
    BY <1>1, <1>2 DEF Return, statsAdd, inputs, setup, Transfer
  <1> HIDE DEF FastpathDone
  <1>5. TypeOK'
    <2>1. stats' \in Counts /\ result' \in Counts
      BY <1>2, <1>4, SizesAssumption DEF Counts
    <2> QED BY <1>4, <2>1 DEF TypeOK
  <1>6. Shape'
    BY <1>3, <1>4 DEF Shape
  <1>7. Chosen'
    BY <1>4 DEF Chosen
  <1>8. Memory'
    BY <1>3 DEF Memory
  <1>9. Progress'
    BY <1>4 DEF Progress, Early
  <1>10. Outcome'
    <2>1. Moved(result)'
      BY <1>3, <1>4 DEF Moved, InPlace
    <2>2. "fallback" \notin used'
      BY <1>4 DEF Chosen, FastpathDone
    <2>3. StatsMatchReturns'
      BY <1>2, <1>4 DEF StatsMatchReturns
    <2> QED BY <2>1, <2>2, <2>3 DEF Outcome, FallbackWriteIsDurable
  <1> QED BY <1>5, <1>6, <1>7, <1>8, <1>9, <1>10

(* The fast path fails in a system call. *)
LEMMA FastpathSystemErrorStep ==
  ASSUME IInv, NEW e, NEW n, FastpathSystemError(e, n)
  PROVE  IInv'
  <1> USE DEF IInv, FastpathSystemError
  <1>1. size \in Nat /\ total = 0 /\ chunk = 0 /\ stats = 0 /\ Untouched(gpu, file)
    BY Bounds DEF Progress, Early
  <1>2. n \in Nat /\ n <= size
    <2>1. Smaller(size, MaxRw) \in Nat /\ Smaller(size, MaxRw) <= size /\ offset \in Int
      BY <1>1, SizesAssumption DEF Smaller, Shape
    <2>2. n \in Nat /\ n <= Smaller(size, MaxRw)
      BY <2>1, ShortCount
    <2> QED BY <2>1, <2>2, <1>1
  <1>3. /\ DOMAIN gpu' = Cells /\ DOMAIN file' = Cells
        /\ Contained(gpu, file, DevPos, offset, size)'
        /\ paramsValid(size)'
        /\ n = 0 => Untouched(gpu, file)'
    BY <1>1, <1>2, Transferred
  <1>4. UNCHANGED <<compat, config, traits, buffer, io_type, offset, boffset, size, total, chunk,
                    stats, bounce, synced>>
    BY DEF inputs, setup, Transfer
  <1>5. \/ /\ pc' = "fallback" /\ used' = used \cup {"fallback"} /\ "fallback" \in config
           /\ n = 0 /\ UNCHANGED <<result, errno>>
        \/ pc' = "returned" /\ result' = -1 /\ errno' = TRUE /\ used' = used
    <2>1. CASE Retries(e)
      BY <2>1 DEF Retries, FallbackScore
    <2>2. CASE ~Retries(e)
      BY <2>2 DEF Return
    <2> QED BY <2>1, <2>2
  <1> HIDE DEF FastpathSystemError
  <1>6. TypeOK'
    BY <1>4, <1>5 DEF TypeOK
  <1>7. Shape'
    BY <1>3, <1>4 DEF Shape
  <1>8. Chosen'
    BY <1>4, <1>5 DEF Chosen
  <1>9. Memory'
    BY <1>3 DEF Memory
  <1>10. Progress'
    BY <1>1, <1>3, <1>4, <1>5 DEF Progress, Early
  <1>11. Outcome'
    <2>1. pc' = "returned" => ~(result' >= 0)
      BY <1>5
    <2> QED BY <2>1, <1>1, <1>4 DEF Outcome, FallbackWriteIsDurable, StatsMatchReturns, Success
  <1> QED BY <1>6, <1>7, <1>8, <1>9, <1>10, <1>11

(* The cap comes first: the errors of the fallback's start leave a smaller  *)
(* size, and the loop begins with a region that is checked for it.          *)
LEMMA FallbackBeginStep ==
  ASSUME IInv, FallbackBegin
  PROVE  IInv'
  <1> USE DEF IInv, FallbackBegin, request, inputs, setup, data
  <1>1. total = 0 /\ chunk = 0 /\ stats = 0 /\ Untouched(gpu, file)
    BY DEF Progress, Early
  <1>2. size' \in Counts /\ size' <= size /\ size' \in Nat /\ size \in Nat
    <2>1. size \in 0..Extent
      BY DEF TypeOK, Counts
    <2> QED BY <2>1, SizesAssumption DEF Smaller, Counts
  <1>3. /\ UNCHANGED <<compat, config, traits, buffer, io_type, offset, boffset, used, total, chunk,
                       bounce, gpu, file, synced, stats>>
        /\ \/ pc' = "returned" /\ result' = -hipFileInvalidValue /\ errno' = errno
           \/ pc' = "loop" /\ paramsValid(size)' /\ UNCHANGED <<result, errno>>
           \/ pc' = "returned" /\ result' = -1 /\ errno' = TRUE
    BY DEF Return, paramsValid
  <1> HIDE DEF FallbackBegin
  <1>4. TypeOK'
    <2>1. 0 \in 0..size'
      BY <1>2
    <2>2. result' \in Counts \cup {-1} \cup {-x : x \in OpErrors \cup HipErrors}
      BY <1>3 DEF TypeOK, OpErrors
    <2>3. pc' \in {"returned", "loop"} /\ errno' \in BOOLEAN
      BY <1>3 DEF TypeOK
    <2> QED BY <1>1, <1>2, <1>3, <2>1, <2>2, <2>3 DEF TypeOK
  <1>5. Shape'
    <2>1. offset \in Int /\ offset + size <= Extent /\ Extent \in Nat
      BY SizesAssumption DEF Shape
    <2>2. offset + size' <= Extent
      <3>1. \A x, y, z, w \in Int : x + y <= w /\ z <= y => x + z <= w
        OBVIOUS
      <3>2. size \in Int /\ size' \in Int /\ Extent \in Int
        BY <1>2, <2>1
      <3> QED BY <1>2, <2>1, <3>1, <3>2, Zenon
    <2> QED BY <1>3, <2>2 DEF Shape
  <1>6. Chosen'
    BY <1>3 DEF Chosen
  <1>7. Memory'
    BY <1>1, <1>3 DEF Memory
  <1>8. Progress'
    <2>1. CASE pc' = "returned"
      BY <2>1 DEF Progress, Early
    <2>2. CASE pc' = "loop"
      <3>1. paramsValid(size)'
        BY <1>3, <2>2
      <3>2. DevPos' \in Nat /\ offset' \in Nat
        <4>1. offset \in Int /\ boffset \in Int /\ buffer.ptr \in Nat
          BY Numbers DEF Shape
        <4>2. offset >= 0 /\ boffset >= 0
          BY <1>3, <3>1 DEF paramsValid
        <4>3. DevPos' = buffer.ptr + boffset /\ offset' = offset
          BY <1>3 DEF DevPos
        <4> QED BY <4>1, <4>2, <4>3
      <3>3. Untouched(gpu', file')
        BY <1>1, <1>3
      <3>4. ReadData(gpu', file', DevPos', offset', 0) /\ WriteData(gpu', file', DevPos', offset', 0)
        BY <3>2, <3>3, <1>2, UntouchedMoved
      <3>5. total' = 0 /\ stats' = 0
        BY <1>1, <1>3
      <3>6. Moved(total)'
        BY <3>4, <3>5 DEF Moved, InPlace
      <3>7. offset'..(offset' + total' - 1) = {}
        <4>1. \A x \in Nat : x..(x + 0 - 1) = {}
          OBVIOUS
        <4> QED BY <3>2, <3>5, <4>1
      <3> QED BY <2>2, <3>1, <3>5, <3>6, <3>7 DEF Progress, Early
    <2> QED BY <1>3, <2>1, <2>2
  <1>9. Outcome'
    <2>1. pc' = "returned" => ~(result' >= 0)
      BY <1>3 DEF hipFileInvalidValue
    <2> QED BY <2>1, <1>1, <1>3 DEF Outcome, FallbackWriteIsDurable, StatsMatchReturns, Success
  <1> QED BY <1>4, <1>5, <1>6, <1>7, <1>8, <1>9

-----------------------------------------------------------------------------
(* The loop *)

(* What a turn of the loop, in a state that satisfies the invariant, can    *)
(* rely on.                                                                 *)
LEMMA Turn ==
  ASSUME IInv, pc \in {"loop", "sync"}
  PROVE  /\ DevPos \in Nat /\ offset \in Nat /\ size \in Nat
         /\ total \in Nat /\ chunk \in Nat /\ total <= size
         /\ DevPos + size <= Extent /\ offset + size <= Extent
         /\ Count \in Nat /\ Count <= Chunk /\ total + Count <= size
         /\ Extent \in Nat /\ Chunk \in Nat
  <1>1. /\ DevPos \in Nat /\ offset \in Nat /\ size \in Nat
        /\ total \in Nat /\ chunk \in Nat /\ total <= size
        /\ DevPos + size <= Extent /\ offset + size <= Extent
    BY Bounds DEF IInv, Progress
  <1>2. Chunk \in Nat /\ Extent \in Nat
    BY SizesAssumption
  <1> QED BY <1>1, <1>2 DEF Count, Smaller

(* A turn leaves the request alone. *)
LEMMA SameRequest ==
  ASSUME UNCHANGED <<request, size>>
  PROVE  /\ UNCHANGED <<compat, config, traits, buffer, io_type, offset, boffset, used, size>>
         /\ DevPos' = DevPos /\ (paramsValid(size)' <=> paramsValid(size))
  BY DEF request, inputs, setup, DevPos, paramsValid

(* The end of a turn that put n more bytes in place, when what is in place  *)
(* is also synchronized.                                                    *)
LEMMA EndTurnStep ==
  ASSUME IInv, pc \in {"loop", "sync"}, NEW n \in Nat, total + n <= size, EndTurn(n),
         UNCHANGED <<request, size, chunk, errno>>,
         InPlace(gpu', file', total + n),
         Memory',
         io_type = "Write" => offset..(offset + (total + n) - 1) \subseteq synced',
         synced' \in SUBSET Cells,
         DOMAIN gpu' = Cells, DOMAIN file' = Cells, DOMAIN bounce' = 0..(Chunk - 1)
  PROVE  IInv'
  <1> DEFINE t == total + n
  <1>1. /\ total \in Nat /\ size \in Nat /\ size <= Extent /\ Extent \in Nat /\ stats = 0
        /\ paramsValid(size)
    <2>1. size \in 0..Extent
      BY DEF IInv, TypeOK, Counts
    <2> QED BY <2>1, Turn DEF IInv, Progress
  <1>2. t \in Nat /\ t \in 0..size /\ t \in Counts
    BY <1>1 DEF Counts
  <1>3. total' = t
    BY DEF EndTurn
  <1>4. \/ pc' = "returned" /\ result' = t /\ stats' = IF "stats" \in config THEN t ELSE 0
        \/ pc' = "loop" /\ result' = result /\ stats' = 0
    <2>1. CASE n = 0 \/ total' >= size
      BY <2>1, <1>1, <1>2, <1>3 DEF EndTurn, Return, statsAdd
    <2>2. CASE ~(n = 0 \/ total' >= size)
      BY <2>2, <1>1 DEF EndTurn
    <2> QED BY <2>1, <2>2
  <1>5. /\ UNCHANGED <<compat, config, traits, buffer, io_type, offset, boffset, used, size, chunk,
                       errno>>
        /\ paramsValid(size)'
    BY <1>1, SameRequest
  <1>6. InPlace(gpu', file', t)
    OBVIOUS
  <1>7. io_type = "Write" => offset..(offset + t - 1) \subseteq synced'
    OBVIOUS
  <1> HIDE DEF t
  <1>8. TypeOK'
    <2>1. stats' \in Counts /\ result' \in Counts \cup {-1} \cup {-x : x \in OpErrors \cup HipErrors}
      <3>1. 0 \in Counts
        BY SizesAssumption DEF Counts
      <3> QED BY <1>2, <1>4, <3>1 DEF IInv, TypeOK
    <2>2. pc' \in {"loop", "returned"}
      BY <1>4
    <2>3. total' \in 0..size'
      BY <1>2, <1>3, <1>5
    <2> QED BY <1>5, <2>1, <2>2, <2>3 DEF IInv, TypeOK
  <1>9. Shape'
    BY <1>5 DEF IInv, Shape
  <1>10. Chosen'
    BY <1>4, <1>5 DEF IInv, Chosen
  <1>11. Moved(total)'
    <2>1. DevPos' = DevPos
      BY <1>5 DEF DevPos
    <2> QED BY <1>3, <1>5, <1>6, <2>1 DEF Moved, InPlace
  <1>12. Progress'
    <2>1. io_type' = "Write" => offset'..(offset' + total' - 1) \subseteq synced'
      BY <1>3, <1>5, <1>7
    <2> QED BY <1>4, <1>5, <1>11, <2>1 DEF Progress, Early
  <1>13. Outcome'
    <2>1. pc' = "returned" => Moved(result)'
      BY <1>3, <1>4, <1>11 DEF Moved
    <2>2. pc' = "returned" => (io_type' = "Write" => offset'..(offset' + result' - 1) \subseteq synced')
      BY <1>4, <1>5, <1>7
    <2>3. StatsMatchReturns'
      BY <1>2, <1>4, <1>5 DEF StatsMatchReturns
    <2> QED BY <2>1, <2>2, <2>3 DEF Outcome, FallbackWriteIsDurable, Success
  <1> QED BY <1>8, <1>9, <1>10, <1>12, <1>13 DEF IInv

(* A turn of the loop of a read. *)
LEMMA LoopReadStep ==
  ASSUME IInv, NEW n, LoopRead(n)
  PROVE  IInv'
  <1> DEFINE d == DevPos
             o == offset
             t == total
  <1>1. /\ d \in Nat /\ o \in Nat /\ size \in Nat /\ t \in Nat
        /\ d + size <= Extent /\ o + size <= Extent
        /\ Count \in Nat /\ Count <= Chunk /\ t + Count <= size /\ Chunk \in Nat /\ Extent \in Nat
    BY Turn DEF LoopRead
  <1>2. n \in Nat /\ n <= Count
    <2>1. offset + total \in Int /\ n \in ShortCounts(Count, offset + total)
      BY <1>1 DEF LoopRead
    <2> QED BY <1>1, <2>1, ShortCount DEF IInv
  <1>3. /\ io_type = "Read" /\ ReadData(gpu, file, d, o, t) /\ file' = file
        /\ synced' = synced /\ synced \in SUBSET Cells
        /\ bounce' = CopyBytes(bounce, 0, file, o + t, n)
        /\ gpu' = CopyBytes(gpu, d + t, bounce', 0, n)
    BY DEF LoopRead, IInv, Progress, Moved, InPlace, TypeOK
  <1>4. /\ DOMAIN bounce = 0..(Chunk - 1) /\ DOMAIN gpu = Cells /\ DOMAIN file = Cells
        /\ DOMAIN bounce' = 0..(Chunk - 1) /\ DOMAIN gpu' = Cells
    BY <1>3, Copied DEF IInv, Shape
  <1>5. \A i \in 0..(Chunk - 1) : i \in 0..(0 + n - 1) => bounce'[i] = file[o + t + (i - 0)]
    BY <1>3, <1>4 DEF CopyBytes
  <1> HIDE DEF d, o, t
  <1>6. \A i \in Cells :
          gpu'[i] = IF i \in (d + t)..(d + t + n - 1) THEN file[o + t + (i - (d + t))] ELSE gpu[i]
    <2> SUFFICES ASSUME NEW i \in Cells
                 PROVE  gpu'[i] = IF i \in (d + t)..(d + t + n - 1)
                                  THEN file[o + t + (i - (d + t))] ELSE gpu[i]
      OBVIOUS
    <2>1. gpu'[i] = IF i \in (d + t)..(d + t + n - 1) THEN bounce'[0 + (i - (d + t))] ELSE gpu[i]
      BY <1>3, <1>4, Copied
    <2>2. CASE i \in (d + t)..(d + t + n - 1)
      <3>1. i \in Int /\ 0 + (i - (d + t)) \in 0..(Chunk - 1) /\ 0 + (i - (d + t)) \in 0..(0 + n - 1)
        BY <1>1, <1>2, <2>2
      <3>2. bounce'[0 + (i - (d + t))] = file[o + t + ((0 + (i - (d + t))) - 0)]
        BY <1>5, <3>1
      <3>3. o + t + ((0 + (i - (d + t))) - 0) = o + t + (i - (d + t))
        BY <1>1, <3>1
      <3> QED BY <2>1, <2>2, <3>2, <3>3
    <2>3. CASE i \notin (d + t)..(d + t + n - 1)
      BY <2>1, <2>3
    <2> QED BY <2>2, <2>3
  <1>7. ReadData(gpu', file, d, o, t + n)
    <2>1. o + t + n <= Extent
      BY <1>1, <1>2
    <2> QED BY <1>1, <1>2, <1>3, <1>6, <2>1, ReadTurn
  <1>8. Contained(gpu', file, d, o, size)
    <2>1. t + n \in Nat /\ t + n <= size
      BY <1>1, <1>2
    <2> QED BY <1>1, <1>7, <2>1, ReadIsContained
  <1>9. /\ UNCHANGED <<request, size, chunk, errno>> /\ EndTurn(n) /\ pc = "loop"
        /\ total + n <= size
    BY <1>1, <1>2 DEF LoopRead, t
  <1>10. InPlace(gpu', file', total + n)
    BY <1>3, <1>7 DEF InPlace, d, o, t
  <1>11. Memory'
    <2>1. paramsValid(size)' /\ DevPos' = DevPos /\ offset' = offset /\ size' = size
      BY <1>9, SameRequest DEF IInv, Progress
    <2> QED BY <1>3, <1>8, <2>1 DEF Memory, d, o
  <1> QED BY <1>2, <1>3, <1>4, <1>9, <1>10, <1>11, EndTurnStep

(* A turn of the loop of a write, up to its pwrite. *)
LEMMA LoopWriteStep ==
  ASSUME IInv, NEW n, LoopWrite(n)
  PROVE  IInv'
  <1> DEFINE d == DevPos
             o == offset
             t == total
  <1>1. /\ d \in Nat /\ o \in Nat /\ size \in Nat /\ t \in Nat
        /\ d + size <= Extent /\ o + size <= Extent
        /\ Count \in Nat /\ Count <= Chunk /\ t + Count <= size /\ Chunk \in Nat /\ Extent \in Nat
    BY Turn DEF LoopWrite
  <1>2. n \in Nat /\ n <= Count
    <2>1. offset + total \in Int /\ n \in ShortCounts(Count, offset + total)
      BY <1>1 DEF LoopWrite
    <2> QED BY <1>1, <2>1, ShortCount DEF IInv
  <1>3. /\ io_type = "Write" /\ WriteData(gpu, file, d, o, t) /\ gpu' = gpu
        /\ synced' = synced \ ((o + t)..(o + t + n - 1)) /\ synced \in SUBSET Cells
        /\ bounce' = CopyBytes(bounce, 0, gpu, d + t, Count)
        /\ file' = CopyBytes(file, o + t, bounce', 0, n)
        /\ o..(o + t - 1) \subseteq synced
    BY DEF LoopWrite, IInv, Progress, Moved, InPlace, TypeOK
  <1>4. /\ DOMAIN bounce = 0..(Chunk - 1) /\ DOMAIN gpu = Cells /\ DOMAIN file = Cells
        /\ DOMAIN bounce' = 0..(Chunk - 1) /\ DOMAIN file' = Cells
    BY <1>3, Copied DEF IInv, Shape
  <1>5. \A i \in 0..(Chunk - 1) : i \in 0..(0 + Count - 1) => bounce'[i] = gpu[d + t + (i - 0)]
    BY <1>3, <1>4 DEF CopyBytes
  <1>6. Contained(gpu, file, d, o, size) /\ paramsValid(size)
    <2>1. paramsValid(size)
      BY DEF LoopWrite, IInv, Progress
    <2> QED BY <1>1, <2>1, UntouchedMoved DEF IInv, Memory
  <1>7. /\ UNCHANGED <<request, size>> /\ total' = total /\ chunk' = n /\ pc' = "sync"
        /\ UNCHANGED <<stats, result, errno>> /\ stats = 0
    BY DEF LoopWrite, IInv, Progress
  <1>8. /\ UNCHANGED <<compat, config, traits, buffer, io_type, offset, boffset, used, size>>
        /\ DevPos' = DevPos /\ paramsValid(size)'
    BY <1>6, <1>7, SameRequest
  <1> HIDE DEF d, o, t
  <1>9. \A i \in Cells :
          file'[i] = IF i \in (o + t)..(o + t + n - 1) THEN gpu[d + t + (i - (o + t))] ELSE file[i]
    <2> SUFFICES ASSUME NEW i \in Cells
                 PROVE  file'[i] = IF i \in (o + t)..(o + t + n - 1)
                                   THEN gpu[d + t + (i - (o + t))] ELSE file[i]
      OBVIOUS
    <2>1. file'[i] = IF i \in (o + t)..(o + t + n - 1) THEN bounce'[0 + (i - (o + t))] ELSE file[i]
      BY <1>3, <1>4, Copied
    <2>2. CASE i \in (o + t)..(o + t + n - 1)
      <3>1. /\ i \in Int /\ 0 + (i - (o + t)) \in 0..(Chunk - 1)
            /\ 0 + (i - (o + t)) \in 0..(0 + Count - 1)
        BY <1>1, <1>2, <2>2
      <3>2. bounce'[0 + (i - (o + t))] = gpu[d + t + ((0 + (i - (o + t))) - 0)]
        BY <1>5, <3>1
      <3>3. d + t + ((0 + (i - (o + t))) - 0) = d + t + (i - (o + t))
        BY <1>1, <3>1
      <3> QED BY <2>1, <2>2, <3>2, <3>3
    <2>3. CASE i \notin (o + t)..(o + t + n - 1)
      BY <2>1, <2>3
    <2> QED BY <2>2, <2>3
  <1>10. o + t + n <= Extent /\ d + t + n <= Extent /\ t + n <= size /\ t + n \in Nat
    BY <1>1, <1>2
  <1>11. WriteData(gpu, file', d, o, t + n)
    BY <1>1, <1>2, <1>3, <1>9, <1>10, WriteTurn
  <1>12. WriteData(gpu, file', d, o, t)
    <2>1. t <= t + n
      BY <1>1, <1>2
    <2> QED BY <1>1, <1>10, <1>11, <2>1, WriteDataFewer
  <1>13. Contained(gpu, file', d, o, size)
    <2>1. WriteData(gpu, file, d, o, t) /\ Contained(gpu, file, d, o, size)
      BY <1>3, <1>6
    <2> QED BY <1>1, <1>2, <1>9, <1>10, <2>1, WriteStaysContained, Zenon
  <1>14. TypeOK'
    <2>1. chunk' \in 0..size' /\ total' \in 0..size'
      BY <1>1, <1>7, <1>8, <1>10, <1>2 DEF t
    <2>2. synced' \in SUBSET Cells
      BY <1>3
    <2>3. pc' = "sync" /\ UNCHANGED <<stats, result, errno>>
      BY <1>7
    <2> QED BY <1>8, <2>1, <2>2, <2>3 DEF IInv, TypeOK
  <1>15. Shape'
    BY <1>3, <1>4, <1>8 DEF IInv, Shape
  <1>16. Chosen'
    BY <1>7, <1>8 DEF IInv, Chosen
  <1>17. Memory'
    BY <1>3, <1>8, <1>13 DEF Memory, d, o
  <1>18. Progress'
    <2>1. Moved(total)' /\ Moved(total + chunk)'
      BY <1>3, <1>7, <1>8, <1>11, <1>12 DEF Moved, InPlace, d, o, t
    <2>2. (o..(o + t - 1)) \subseteq synced'
      <3>1. \A i \in o..(o + t - 1) : i \notin (o + t)..(o + t + n - 1)
        BY <1>1, <1>2
      <3> QED BY <1>3, <3>1
    <2>3. total' + chunk' <= size'
      BY <1>7, <1>8, <1>10 DEF t
    <2> QED BY <1>3, <1>7, <1>8, <2>1, <2>2, <2>3 DEF Progress, Early, o, t
  <1>19. Outcome'
    BY <1>7 DEF Outcome, FallbackWriteIsDurable, StatsMatchReturns, Success
  <1> QED BY <1>14, <1>15, <1>16, <1>17, <1>18, <1>19 DEF IInv

(* Everything that was written is synchronized before it is counted. *)
LEMMA LoopSyncStep ==
  ASSUME IInv, LoopSync
  PROVE  IInv'
  <1>1. /\ pc = "sync" /\ EndTurn(chunk) /\ UNCHANGED <<request, size, chunk, errno>>
        /\ bounce' = bounce /\ gpu' = gpu /\ file' = file
        /\ synced' = {i \in Cells : file[i][1] = "gpu"}
    BY DEF LoopSync
  <1>2. /\ io_type = "Write" /\ total + chunk <= size /\ InPlace(gpu, file, total + chunk)
        /\ paramsValid(size)
    BY <1>1 DEF IInv, Progress, Moved
  <1>3. /\ DevPos \in Nat /\ offset \in Nat /\ size \in Nat /\ total \in Nat /\ chunk \in Nat
        /\ offset + size <= Extent /\ Extent \in Nat
    BY <1>1, Turn
  <1>4. offset..(offset + (total + chunk) - 1) \subseteq synced'
    <2> SUFFICES ASSUME NEW i \in offset..(offset + (total + chunk) - 1) PROVE i \in synced'
      OBVIOUS
    <2>1. i \in Cells
      BY <1>2, <1>3 DEF Cells
    <2>2. file[i] = <<"gpu", DevPos + (i - offset)>>
      BY <1>2 DEF InPlace, WriteData
    <2>3. file[i][1] = "gpu"
      BY <2>2
    <2> QED BY <1>1, <2>1, <2>3
  <1>5. Memory'
    BY <1>1, SameRequest DEF IInv, Memory, request, inputs
  <1>6. DOMAIN gpu' = Cells /\ DOMAIN file' = Cells /\ DOMAIN bounce' = 0..(Chunk - 1)
    BY <1>1 DEF IInv, Shape
  <1>7. synced' \in SUBSET Cells /\ InPlace(gpu', file', total + chunk)
    BY <1>1, <1>2
  <1> QED BY <1>1, <1>2, <1>3, <1>4, <1>5, <1>6, <1>7, EndTurnStep

(* The interrupted chunk stays in place, not counted; the loop writes it    *)
(* again, or ends with what was synchronized before.                        *)
LEMMA LoopSyncInterruptedStep ==
  ASSUME IInv, LoopSyncInterrupted
  PROVE  IInv'
  <1>1. /\ pc = "sync" /\ UNCHANGED <<request, size, total, chunk, bounce, gpu, file, synced, errno>>
        /\ UNCHANGED <<compat, config, traits, buffer, io_type, offset, boffset, used>>
        /\ DevPos' = DevPos /\ (paramsValid(size)' <=> paramsValid(size))
    BY SameRequest DEF LoopSyncInterrupted, data
  <1>2. total \in Nat /\ total \in Counts
    <2>1. size \in 0..Extent
      BY DEF IInv, TypeOK, Counts
    <2> QED BY <1>1, <2>1, Turn DEF Counts
  <1>3. \/ pc' = "loop" /\ result' = result /\ stats' = stats
        \/ pc' = "returned" /\ result' = total /\ stats' = IF "stats" \in config THEN total ELSE 0
    <2>1. stats = 0
      BY <1>1 DEF IInv, Progress
    <2> QED BY <1>2, <2>1 DEF LoopSyncInterrupted, Return, statsAdd
  <1>4. /\ stats = 0 /\ paramsValid(size) /\ Moved(total) /\ io_type = "Write"
        /\ offset..(offset + total - 1) \subseteq synced
    BY <1>1 DEF IInv, Progress
  <1>5. TypeOK'
    <2>1. stats' \in Counts /\ result' \in Counts \cup {-1} \cup {-x : x \in OpErrors \cup HipErrors}
      <3>1. 0 \in Counts
        BY SizesAssumption DEF Counts
      <3> QED BY <1>2, <1>3, <1>4, <3>1 DEF IInv, TypeOK
    <2>2. pc' \in {"loop", "returned"}
      BY <1>3
    <2> QED BY <1>1, <2>1, <2>2 DEF IInv, TypeOK
  <1>6. Shape'
    BY <1>1 DEF IInv, Shape
  <1>7. Chosen'
    BY <1>1, <1>3 DEF IInv, Chosen
  <1>8. Memory'
    BY <1>1 DEF IInv, Memory
  <1>9. Moved(total)'
    BY <1>1, <1>4 DEF Moved, InPlace
  <1>10. Progress'
    BY <1>1, <1>3, <1>4, <1>9 DEF Progress, Early
  <1>11. Outcome'
    <2>1. pc' = "returned" => Moved(result)'
      BY <1>1, <1>3, <1>9 DEF Moved
    <2>2. StatsMatchReturns'
      BY <1>1, <1>2, <1>3 DEF StatsMatchReturns
    <2> QED BY <1>1, <1>3, <1>4, <2>1, <2>2 DEF Outcome, FallbackWriteIsDurable, Success
  <1> QED BY <1>5, <1>6, <1>7, <1>8, <1>10, <1>11 DEF IInv

-----------------------------------------------------------------------------
(* The theorems *)

(* IInv is an invariant: along every path of a call the bytes in place are  *)
(* those the loop or the driver accounts for, and they lie in a request     *)
(* that was checked against the Buffer.                                     *)
THEOREM Invariant == Spec => []IInv
  <1>1. Init => IInv
    BY InitStep
  <1>2. IInv /\ [Next]_vars => IInv'
    <2> SUFFICES ASSUME IInv, [Next]_vars PROVE IInv'
      OBVIOUS
    <2>1. ASSUME NEW env \in Environments, NEW symbols \in SUBSET {"hipAmdFileRead", "hipAmdFileWrite"},
                 Configure(env, symbols)
          PROVE  IInv'
      BY <2>1, ConfigureStep
    <2>2. ASSUME NEW f \in OpenFiles(DioAligns), RegisterFile(f) PROVE IInv'
      BY <2>2, RegisterFileStep
    <2>3. ASSUME NEW ptr \in Pointers,
                 TemporaryBuffer(ptr) \/ \E length \in Lengths : RegisterBuffer(ptr, length)
          PROVE  IInv'
      BY <2>3, BufferStep
    <2>4. ASSUME NEW t \in {"Read", "Write"}, NEW n \in Sizes, NEW fo \in FileOffsets,
                 NEW bo \in BufferOffsets, hipFileIo(t, n, fo, bo)
          PROVE  IInv'
      BY <2>4, hipFileIoStep
    <2>5. CASE FastpathInvalid
      <3>1. hipFileInvalidValue \in {1} \cup OpErrors \cup HipErrors /\ errno' \in BOOLEAN
            /\ pc # "returned"
        BY <2>5 DEF FastpathInvalid, OpErrors, IInv, TypeOK
      <3> QED BY <2>5, <3>1, Failing DEF FastpathInvalid
    <2>6. ASSUME NEW n \in Counts, FastpathDone(n) PROVE IInv'
      BY <2>6, FastpathDoneStep
    <2>7. ASSUME NEW e \in SysErrors, NEW n \in Counts, FastpathSystemError(e, n) PROVE IInv'
      BY <2>7, FastpathSystemErrorStep
    <2>8. ASSUME NEW h \in HipErrors, FastpathHipError(h) PROVE IInv'
      <3>1. errno' \in BOOLEAN /\ pc # "returned"
        BY <2>8 DEF FastpathHipError, IInv, TypeOK
      <3> QED BY <2>8, <3>1, Failing DEF FastpathHipError
    <2>9. CASE FallbackBegin
      BY <2>9, FallbackBeginStep
    <2>10. ASSUME NEW n \in Counts, LoopRead(n) \/ LoopWrite(n) PROVE IInv'
      BY <2>10, LoopReadStep, LoopWriteStep
    <2>11. CASE LoopSync
      BY <2>11, LoopSyncStep
    <2>12. CASE LoopSyncInterrupted
      BY <2>12, LoopSyncInterruptedStep
    <2>13. CASE LoopSystemError
      <3>1. errno' \in BOOLEAN /\ pc # "returned" /\ 1 \in {1} \cup OpErrors \cup HipErrors
        BY <2>13 DEF LoopSystemError
      <3> QED BY <2>13, <3>1, Failing DEF LoopSystemError
    <2>14. ASSUME NEW h \in HipErrors, LoopHipError(h) PROVE IInv'
      <3>1. errno' \in BOOLEAN /\ pc # "returned"
        BY <2>14 DEF LoopHipError, IInv, TypeOK
      <3> QED BY <2>14, <3>1, Failing DEF LoopHipError
    <2>15. CASE UNCHANGED vars
      <3> USE <2>15 DEF vars, request, inputs, setup, data
      <3>1. TypeOK' /\ Shape' /\ Chosen'
        BY DEF IInv, TypeOK, Shape, Chosen
      <3>2. Memory' /\ Progress'
        BY DEF IInv, Memory, Progress, paramsValid, DevPos, Moved, InPlace
      <3>3. Outcome'
        BY DEF IInv, Outcome, FallbackWriteIsDurable, StatsMatchReturns, Success, DevPos, Moved, InPlace
      <3> QED BY <3>1, <3>2, <3>3 DEF IInv
    <2> QED BY <2>1, <2>2, <2>3, <2>4, <2>5, <2>6, <2>7, <2>8, <2>9, <2>10, <2>11, <2>12, <2>13,
               <2>14, <2>15 DEF Next
  <1> QED BY <1>1, <1>2, PTL DEF Spec

(* The variables of a call keep their types: sizes, counts and error codes  *)
(* are in range on every path.                                              *)
THEOREM TypeCorrect == Spec => []TypeOK
  <1>1. IInv => TypeOK
    BY DEF IInv
  <1> QED BY <1>1, Invariant, PTL

(* The count hipFileRead or hipFileWrite returns is what arrived, whichever *)
(* backend, retry or interruption it went through.                          *)
THEOREM Arrived == Spec => []ReturnedWasMoved
  <1>1. IInv => ReturnedWasMoved
    BY DEF IInv, Outcome, Success, ReturnedWasMoved, Moved, InPlace, ReadData, WriteData
  <1> QED BY <1>1, Invariant, PTL

(* What a write through the fallback returns was synchronized after it was  *)
(* written.                                                                 *)
THEOREM Durable == Spec => []FallbackWriteIsDurable
  <1>1. IInv => FallbackWriteIsDurable
    BY DEF IInv, Outcome
  <1> QED BY <1>1, Invariant, PTL

(* No path reads or writes GPU memory outside the Buffer and its allocation,*)
(* for every size and offset the application passes.                        *)
THEOREM InsideBuffer == Spec => []StaysInBuffer
  <1> DEFINE Inside(i) == i \in buffer.ptr..(buffer.ptr + buffer.length - 1) /\ i < AllocLen
  <1>1. IInv => StaysInBuffer
    <2> SUFFICES ASSUME IInv, NEW i \in Cells
                 PROVE  /\ ~Inside(i) => gpu[i] = <<"gpu", i>>
                        /\ file[i][1] = "gpu" => Inside(file[i][2])
      BY DEF StaysInBuffer
    <2>1. CASE Untouched(gpu, file)
      BY <2>1 DEF Untouched
    <2>2. CASE paramsValid(size) /\ Contained(gpu, file, DevPos, offset, size)
      <3>1. /\ DevPos \in Nat /\ offset \in Nat /\ size \in Nat /\ buffer.ptr \in Nat
            /\ buffer.length \in Nat /\ AllocLen \in Nat
            /\ DevPos >= buffer.ptr /\ DevPos + size <= buffer.ptr + buffer.length
            /\ buffer.ptr + buffer.length <= AllocLen
        BY <2>2, Bounds, Numbers, AllocationAssumption DEF IInv
      <3>2. \A j \in DevPos..(DevPos + size - 1) : Inside(j)
        BY <3>1
      <3>3. ~Inside(i) => gpu[i] = <<"gpu", i>>
        BY <2>2, <3>2 DEF Contained
      <3>4. ASSUME file[i][1] = "gpu" PROVE Inside(file[i][2])
        <4>1. i \in offset..(offset + size - 1) /\ file[i] = <<"gpu", DevPos + (i - offset)>>
          BY <2>2, <3>4 DEF Contained
        <4>2. DevPos + (i - offset) \in DevPos..(DevPos + size - 1)
          BY <3>1, <4>1
        <4>3. file[i][2] = DevPos + (i - offset)
          BY <4>1
        <4> QED BY <3>2, <4>2, <4>3
      <3> QED BY <3>3, <3>4
    <2> QED BY <2>1, <2>2 DEF IInv, Memory
  <1> QED BY <1>1, Invariant, PTL

(* HIPFILE_FORCE_COMPAT_MODE and HIPFILE_ALLOW_COMPAT_MODE bind the choice  *)
(* of the backend and the retry of the fast path.                           *)
THEOREM CompatMode == Spec => []CompatModeRespected
  <1>1. IInv => CompatModeRespected
    BY DEF IInv, Chosen, CompatModeRespected
  <1> QED BY <1>1, Invariant, PTL

(* The statistics count the bytes of successful calls, once.                *)
THEOREM Statistics == Spec => []StatsMatchReturns
  <1>1. IInv => StatsMatchReturns
    BY DEF IInv, Outcome
  <1> QED BY <1>1, Invariant, PTL

=============================================================================
