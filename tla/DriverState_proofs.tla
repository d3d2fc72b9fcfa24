-------------------------- MODULE DriverState_proofs --------------------------
(***************************************************************************)
(* Proofs about DriverState, for any number of threads, operations, files, *)
(* buffers and streams and any bound on the reference count.               *)
(***************************************************************************)
EXTENDS DriverState, FiniteSetTheorems, TLAPS

(* A thread outside an I/O call references no file. *)
IdleHoldsNothing ==
    \A t \in Threads : pc[t] \notin {"io", "async_io"} => file_of[t] = NoFile

(* There are finitely many opens, and the count is theirs. *)
Ledger == IsFiniteSet(Outstanding) /\ OpenersCounted

(* The inductive invariant: the registry invariants, the ledger, and what   *)
(* ties a thread's references to its program counter.                      *)
IInv ==
    /\ TypeOK
    /\ RegistryConsistent
    /\ ClosedMeansEmpty
    /\ IdleHoldsNothing
    /\ Ledger
    /\ PinnedStaysRegistered

-----------------------------------------------------------------------------
(* deregisterFile's test is exact: with the two maps consistent, a          *)
(* registered file that passes 2 < use_count == FALSE has no I/O left.      *)
LEMMA DeregisterFileExact ==
    ASSUME TypeOK, RegistryConsistent,
           NEW h \in Handles, from_fh[h] # NoFd, ~FileOperationsOutstanding(h)
    PROVE  FileHolders(h) = {}
<1>1. from_fh[h] \in Fds /\ h # NoFile
  BY NullAssumption DEF TypeOK
<1>2. {fd \in Fds : from_fd[fd] = h} = {from_fh[h]}
  BY <1>1 DEF RegistryConsistent, RegisteredHandles
<1>3. Cardinality({fd \in Fds : from_fd[fd] = h}) = 1
  BY <1>2, FS_Singleton
<1>4. {h} \cap RegisteredHandles = {h}
  BY DEF RegisteredHandles
<1>5. Cardinality({h} \cap RegisteredHandles) = 1
  BY <1>4, FS_Singleton
<1>6. IsFiniteSet(Holders)
  BY FiniteAssumption, FS_Union DEF Holders
<1>7. IsFiniteSet(FileHolders(h))
  BY <1>6, FS_Subset DEF FileHolders
<1>8. Cardinality(FileHolders(h)) \in Nat
  BY <1>7, FS_CardinalityType
<1>9. Cardinality(FileHolders(h)) = 0
  BY <1>3, <1>5, <1>8 DEF FileOperationsOutstanding, FileUseCount
<1>. QED
  BY <1>7, <1>9, FS_EmptySet

(* deregisterBuffer's test is exact in the same sense: the map's own        *)
(* reference is counted, so a use count of one leaves no I/O.               *)
LEMMA DeregisterBufferExact ==
    ASSUME TypeOK,
           NEW p \in Bufs, from_ptr[p] # NoBuf, ~BufferOperationsOutstanding(p)
    PROVE  BufferHolders(from_ptr[p]) = {}
<1>. DEFINE b == from_ptr[p]
            M == {q \in Bufs : from_ptr[q] = b}
<1>1. IsFiniteSet(M)
  BY FiniteAssumption, FS_Subset
<1>2. Cardinality(M) \in Nat /\ Cardinality(M) # 0
  <2>1. M # {}
    OBVIOUS
  <2>. QED BY <1>1, <2>1, FS_CardinalityType, FS_EmptySet
<1>3. IsFiniteSet(BufferHolders(b))
  BY FiniteAssumption, FS_Union, FS_Subset DEF Holders, BufferHolders
<1>4. Cardinality(BufferHolders(b)) \in Nat
  BY <1>3, FS_CardinalityType
<1>5. ~(1 < Cardinality(M) + Cardinality(BufferHolders(b)))
  BY DEF BufferOperationsOutstanding, BufferUseCount
<1>6. Cardinality(BufferHolders(b)) = 0
  <2>. HIDE DEF M, b
  <2>. QED BY <1>2, <1>4, <1>5
<1>. QED
  BY <1>3, <1>6, FS_EmptySet

-----------------------------------------------------------------------------
(* Type correctness: every call keeps the maps, the reference count and the *)
(* references in their types; the count never goes below zero               *)
(* ("negative state reference count, should never get here").               *)
LEMMA TypeInit == Init => TypeOK
<1>. SUFFICES ASSUME Init PROVE TypeOK
  OBVIOUS
<1>1. last \in [call : Calls, result : Results]
  BY DEF Init, Calls, Results
<1>2. pc \in [Threads -> PCs] /\ opens \in [Threads -> Nat] /\ excess \in Nat
  BY DEF Init, PCs
<1>. QED
  BY <1>1, <1>2 DEF Init, TypeOK

(* Every call keeps the types. *)
LEMMA TypeStep == TypeOK /\ [Next]_vars => TypeOK'
<1>. SUFFICES ASSUME TypeOK, [Next]_vars PROVE TypeOK'
  OBVIOUS
<1>. USE DEF TypeOK, registry, ledger, Holders, Returns, Calls, Results, PCs
<1>1. ASSUME NEW t \in Threads, DriverOpen(t) PROVE TypeOK'
  BY <1>1 DEF DriverOpen, incrRefCount
<1>2. ASSUME NEW t \in Threads, DriverCloseCheck(t) PROVE TypeOK'
  BY <1>2 DEF DriverCloseCheck
<1>3. ASSUME NEW t \in Threads, DriverCloseDecr(t) PROVE TypeOK'
  BY <1>3 DEF DriverCloseDecr, decrRefCount, ClearFiles, ClearBuffers
<1>4. ASSUME NEW t \in Threads, HandleRegisterFails(t) PROVE TypeOK'
  BY <1>4 DEF HandleRegisterFails
<1>5. ASSUME NEW t \in Threads, NEW fd \in Fds, HandleRegister(t, fd) PROVE TypeOK'
  BY <1>5 DEF HandleRegister, registerFile, ensureInitialized, ImplicitOpen
<1>6. ASSUME NEW t \in Threads, NEW h \in Handles, HandleDeregister(t, h) PROVE TypeOK'
  BY <1>6 DEF HandleDeregister
<1>7. ASSUME NEW t \in Threads, NEW p \in Bufs, BufRegister(t, p) PROVE TypeOK'
  BY <1>7 DEF BufRegister, registerBuffer, ensureInitialized, ImplicitOpen
<1>8. ASSUME NEW t \in Threads, NEW p \in Bufs, BufDeregister(t, p) PROVE TypeOK'
  BY <1>8 DEF BufDeregister, deregisterBuffer
<1>9. ASSUME NEW t \in Threads, NEW s \in Streams, StreamRegister(t, s) PROVE TypeOK'
  BY <1>9 DEF StreamRegister, registerStream
<1>10. ASSUME NEW t \in Threads, NEW s \in Streams, StreamDeregister(t, s) PROVE TypeOK'
  BY <1>10 DEF StreamDeregister
<1>11. ASSUME NEW t \in Threads, NEW h \in Handles, NEW p \in Bufs, IoBegin(t, h, p)
       PROVE  TypeOK'
  BY <1>11 DEF IoBegin, Lookup, LookupThrows, getBuffer
<1>12. ASSUME NEW t \in Threads, IoEnd(t) PROVE TypeOK'
  BY <1>12 DEF IoEnd
<1>13. ASSUME NEW t \in Threads, IOAsyncCheck(t) PROVE TypeOK'
  BY <1>13 DEF IOAsyncCheck
<1>14. ASSUME NEW t \in Threads, IOAsyncInit(t) PROVE TypeOK'
  BY <1>14 DEF IOAsyncInit, ensureInitialized, ImplicitOpen
<1>15. ASSUME NEW t \in Threads, NEW h \in Handles, NEW p \in Bufs, NEW s \in Streams,
              IOAsyncLookup(t, h, p, s)
       PROVE  TypeOK'
  BY <1>15 DEF IOAsyncLookup, Lookup, LookupThrows, getBuffer
<1>16. ASSUME NEW t \in Threads, IOAsyncSubmit(t) PROVE TypeOK'
  BY <1>16 DEF IOAsyncSubmit
<1>17. ASSUME NEW o \in Ops, completeOp(o) PROVE TypeOK'
  BY <1>17 DEF completeOp
<1>18. CASE UNCHANGED vars
  BY <1>18 DEF vars
<1>. QED
  BY <1>1, <1>2, <1>3, <1>4, <1>5, <1>6, <1>7, <1>8, <1>9, <1>10, <1>11, <1>12, <1>13,
     <1>14, <1>15, <1>16, <1>17, <1>18 DEF Next

(* Every DriverState method keeps the maps, the count and the references    *)
(* held by I/O in their types; decrRefCount never goes below zero.          *)
THEOREM TypeCorrect == Spec => []TypeOK
  BY TypeInit, TypeStep, PTL DEF Spec

-----------------------------------------------------------------------------
(* One more open of a thread is one more outstanding. *)
LEMMA OpenOne ==
  ASSUME NEW o \in [Threads -> Nat], NEW t \in Threads, IsFiniteSet(OutstandingOf(o))
  PROVE  LET p == [o EXCEPT ![t] = @ + 1]
         IN  /\ IsFiniteSet(OutstandingOf(p))
             /\ Cardinality(OutstandingOf(p)) = Cardinality(OutstandingOf(o)) + 1
<1>. DEFINE p == [o EXCEPT ![t] = @ + 1]
            x == <<t, o[t] + 1>>
<1>1. \A u \in Threads : u # t => p[u] = o[u]
  OBVIOUS
<1>2. p[t] = o[t] + 1 /\ o[t] \in Nat
  OBVIOUS
<1>3. 1..(o[t] + 1) = (1..o[t]) \cup {o[t] + 1}
  BY <1>2
<1>4. OutstandingOf(p) = OutstandingOf(o) \cup {x}
  <2>. HIDE DEF p
  <2>1. ASSUME NEW y \in OutstandingOf(p) PROVE y \in OutstandingOf(o) \cup {x}
    <3>1. PICK u \in Threads : y \in {u} \X (1..p[u])
      BY DEF OutstandingOf
    <3>2. CASE u = t
      BY <1>2, <1>3, <3>1, <3>2 DEF OutstandingOf
    <3>3. CASE u # t
      BY <1>1, <3>1, <3>3 DEF OutstandingOf
    <3>. QED BY <3>2, <3>3
  <2>2. ASSUME NEW y \in OutstandingOf(o) PROVE y \in OutstandingOf(p)
    <3>1. PICK u \in Threads : y \in {u} \X (1..o[u])
      BY DEF OutstandingOf
    <3>2. y \in {u} \X (1..p[u])
      BY <1>1, <1>2, <1>3, <3>1
    <3>. QED BY <3>2 DEF OutstandingOf
  <2>3. x \in OutstandingOf(p)
    <3>1. x \in {t} \X (1..p[t])
      BY <1>2
    <3>. QED BY <3>1 DEF OutstandingOf
  <2>. QED BY <2>1, <2>2, <2>3
<1>5. x \notin OutstandingOf(o)
  BY <1>2 DEF OutstandingOf
<1>. QED
  <2>. HIDE DEF p, x
  <2>1. /\ IsFiniteSet(OutstandingOf(o) \cup {x})
        /\ Cardinality(OutstandingOf(o) \cup {x}) = Cardinality(OutstandingOf(o)) + 1
    BY <1>5, FS_AddElement
  <2>. QED BY <1>4, <2>1 DEF p

(* A close of a thread with an open left is one less outstanding. *)
LEMMA CloseOne ==
  ASSUME NEW o \in [Threads -> Nat], NEW t \in Threads, o[t] > 0,
         IsFiniteSet(OutstandingOf(o))
  PROVE  LET p == [o EXCEPT ![t] = @ - 1]
         IN  /\ IsFiniteSet(OutstandingOf(p))
             /\ Cardinality(OutstandingOf(p)) = Cardinality(OutstandingOf(o)) - 1
<1>. DEFINE p == [o EXCEPT ![t] = @ - 1]
<1>1. p \in [Threads -> Nat] /\ o = [p EXCEPT ![t] = @ + 1]
  <2>1. p \in [Threads -> Nat]
    OBVIOUS
  <2>2. p[t] = o[t] - 1 /\ \A u \in Threads : u # t => p[u] = o[u]
    OBVIOUS
  <2>. HIDE DEF p
  <2>3. [p EXCEPT ![t] = @ + 1] \in [Threads -> Nat]
    BY <2>1
  <2>4. \A u \in Threads : [p EXCEPT ![t] = @ + 1][u] = o[u]
    BY <2>1, <2>2
  <2>. QED BY <2>1, <2>3, <2>4
<1>2. OutstandingOf(p) \subseteq OutstandingOf(o)
  BY DEF OutstandingOf
<1>3. IsFiniteSet(OutstandingOf(p))
  BY <1>2, FS_Subset
<1>4. Cardinality(OutstandingOf(o)) = Cardinality(OutstandingOf(p)) + 1
  <2>. HIDE DEF p
  <2>. QED BY <1>1, <1>3, OpenOne
<1>5. Cardinality(OutstandingOf(p)) \in Nat
  BY <1>3, FS_CardinalityType
<1>. QED BY <1>3, <1>4, <1>5

(* No thread has more opens than there are. *)
LEMMA OpensWithin ==
  ASSUME NEW o \in [Threads -> Nat], NEW t \in Threads, IsFiniteSet(OutstandingOf(o))
  PROVE  o[t] <= Cardinality(OutstandingOf(o))
<1>1. {t} \X (1..o[t]) \subseteq OutstandingOf(o)
  BY DEF OutstandingOf
<1>2. IsFiniteSet({t}) /\ Cardinality({t}) = 1
  BY FS_Singleton
<1>3. IsFiniteSet(1..o[t]) /\ Cardinality(1..o[t]) = o[t]
  <2>1. o[t] \in Int /\ 1 \in Int
    OBVIOUS
  <2>. QED BY <2>1, FS_Interval
<1>4. Cardinality({t} \X (1..o[t])) = 1 * o[t]
  <2>. DEFINE S == {t}
              T == 1..o[t]
  <2>1. IsFiniteSet(S) /\ Cardinality(S) = 1 /\ IsFiniteSet(T) /\ Cardinality(T) = o[t]
    BY <1>2, <1>3
  <2>2. Cardinality(S \X T) = Cardinality(S) * Cardinality(T)
    <3>. HIDE DEF S, T
    <3>. QED BY ONLY <2>1, FS_Product, Zenon
  <2>. QED BY <2>1, <2>2, Zenon
<1>5. Cardinality({t} \X (1..o[t])) <= Cardinality(OutstandingOf(o))
  BY <1>1, FS_Subset
<1>. QED BY <1>4, <1>5

(* Every step keeps the ledger: an open, explicit or implicit, adds one to  *)
(* the count and to the opens, a close takes one from both or is an excess  *)
(* close, and no other step touches them.                                   *)
LEMMA LedgerStep == TypeOK /\ Ledger /\ [Next]_vars => Ledger'
<1>. SUFFICES ASSUME TypeOK, Ledger, [Next]_vars PROVE Ledger'
  OBVIOUS
<1>1. /\ IsFiniteSet(OutstandingOf(opens)) /\ Cardinality(OutstandingOf(opens)) \in Nat
      /\ ref_count <= Cardinality(OutstandingOf(opens))
      /\ Cardinality(OutstandingOf(opens)) <= ref_count + excess
  BY FS_CardinalityType DEF Ledger, Outstanding, OpenersCounted
<1>2. ref_count \in Nat /\ excess \in Nat /\ opens \in [Threads -> Nat]
  BY DEF TypeOK
<1>3. ASSUME NEW t \in Threads, opens' = [opens EXCEPT ![t] = @ + 1],
             ref_count' = ref_count + 1, excess' = excess
      PROVE  Ledger'
  <2>1. /\ IsFiniteSet(OutstandingOf(opens'))
        /\ Cardinality(OutstandingOf(opens')) = Cardinality(OutstandingOf(opens)) + 1
    BY <1>1, <1>2, <1>3, OpenOne
  <2>. QED BY <1>1, <1>2, <1>3, <2>1 DEF Ledger, Outstanding, OpenersCounted
<1>4. ASSUME NEW t \in Threads, DriverCloseDecr(t) PROVE Ledger'
  <2>1. CASE opens[t] > 0
    <3>1. opens' = [opens EXCEPT ![t] = @ - 1] /\ excess' = excess
      BY <1>2, <1>4, <2>1 DEF DriverCloseDecr
    <3>2. /\ IsFiniteSet(OutstandingOf(opens'))
          /\ Cardinality(OutstandingOf(opens')) = Cardinality(OutstandingOf(opens)) - 1
      BY <1>1, <1>2, <2>1, <3>1, CloseOne
    <3>3. Cardinality(OutstandingOf(opens')) \in Nat
      BY <3>2, FS_CardinalityType
    <3>4. ref_count' = IF ref_count > 0 THEN ref_count - 1 ELSE 0
      BY <1>4 DEF DriverCloseDecr, decrRefCount
    <3>. QED BY <1>1, <1>2, <3>1, <3>2, <3>3, <3>4 DEF Ledger, Outstanding, OpenersCounted
  <2>2. CASE ~(opens[t] > 0)
    <3>1. opens' = opens /\ excess' = excess + 1
      BY <1>2, <1>4, <2>2 DEF DriverCloseDecr
    <3>2. ref_count' = IF ref_count > 0 THEN ref_count - 1 ELSE 0
      BY <1>4 DEF DriverCloseDecr, decrRefCount
    <3>. QED BY <1>1, <1>2, <3>1, <3>2 DEF Ledger, Outstanding, OpenersCounted
  <2>. QED BY <2>1, <2>2
<1>5. ASSUME UNCHANGED <<ref_count, ledger>> PROVE Ledger'
  BY <1>1, <1>5 DEF ledger, Ledger, Outstanding, OpenersCounted
<1>6. ASSUME NEW t \in Threads, ensureInitialized, ImplicitOpen(t) PROVE Ledger'
  <2>1. CASE ref_count = 0
    <3>1. /\ opens' = [opens EXCEPT ![t] = @ + 1]
          /\ ref_count' = ref_count + 1 /\ excess' = excess
      BY <1>6, <2>1 DEF ensureInitialized, ImplicitOpen
    <3>. QED BY <1>3, <3>1
  <2>2. CASE ref_count # 0
    <3>1. UNCHANGED <<ref_count, ledger>>
      BY <1>6, <2>2 DEF ensureInitialized, ImplicitOpen, ledger
    <3>. QED BY <1>5, <3>1
  <2>. QED BY <2>1, <2>2
<1>7. ASSUME NEW t \in Threads, DriverOpen(t) PROVE Ledger'
  <2>1. /\ opens' = [opens EXCEPT ![t] = @ + 1]
        /\ ref_count' = ref_count + 1 /\ excess' = excess
    BY <1>7 DEF DriverOpen, incrRefCount
  <2>. QED BY <1>3, <2>1
<1>. QED
  <2>1. ASSUME NEW t \in Threads, NEW fd \in Fds, HandleRegister(t, fd) PROVE Ledger'
    BY <1>6, <2>1 DEF HandleRegister
  <2>2. ASSUME NEW t \in Threads, NEW p \in Bufs, BufRegister(t, p) PROVE Ledger'
    BY <1>6, <2>2 DEF BufRegister
  <2>3. ASSUME NEW t \in Threads, IOAsyncInit(t) PROVE Ledger'
    BY <1>6, <2>3 DEF IOAsyncInit
  <2>. QED
    BY <1>4, <1>5, <1>7, <2>1, <2>2, <2>3
       DEF Next, vars, ledger, DriverCloseCheck, HandleRegisterFails, HandleDeregister,
           BufDeregister, StreamRegister, StreamDeregister, IoBegin, IoEnd, IOAsyncCheck,
           IOAsyncLookup, IOAsyncSubmit, completeOp

(* The inductive invariant holds initially. *)
LEMMA InvInit == Init => IInv
<1>. SUFFICES ASSUME Init PROVE IInv
  OBVIOUS
<1>1. Outstanding = {}
  BY DEF Init, Outstanding, OutstandingOf
<1>2. Ledger
  <2>1. IsFiniteSet(Outstanding) /\ Cardinality(Outstanding) = 0
    BY <1>1, FS_EmptySet
  <2>. QED BY <2>1 DEF Init, Ledger, OpenersCounted
<1>3. RegistryConsistent /\ ClosedMeansEmpty
  BY DEF Init, RegistryConsistent, ClosedMeansEmpty, RegisteredHandles
<1>4. IdleHoldsNothing /\ PinnedStaysRegistered
  BY DEF Init, IdleHoldsNothing, PinnedStaysRegistered, Holders
<1>. QED
  BY <1>2, <1>3, <1>4, TypeInit DEF IInv

(* Every step preserves it. *)
LEMMA InvStep == IInv /\ [Next]_vars => IInv'
<1>. SUFFICES ASSUME IInv, [Next]_vars PROVE IInv'
  OBVIOUS
<1>. DEFINE Rest == /\ RegistryConsistent /\ ClosedMeansEmpty
                    /\ IdleHoldsNothing /\ PinnedStaysRegistered
<1>0. TypeOK /\ TypeOK' /\ RegistryConsistent /\ ClosedMeansEmpty /\ IdleHoldsNothing
      /\ PinnedStaysRegistered
  BY TypeStep DEF IInv
<1>a. Ledger'
  BY LedgerStep DEF IInv
<1>. USE <1>0, NullAssumption DEF registry, ledger
<1>1. ASSUME NEW t \in Threads, DriverOpen(t) PROVE Rest'
  <2>. USE <1>1 DEF DriverOpen, incrRefCount
  <2>1. RegistryConsistent' /\ ClosedMeansEmpty' /\ IdleHoldsNothing'
    BY DEF TypeOK, RegistryConsistent, ClosedMeansEmpty, IdleHoldsNothing, RegisteredHandles
  <2>2. PinnedStaysRegistered'
    BY DEF TypeOK, PinnedStaysRegistered, IdleHoldsNothing, RegisteredHandles
  <2>. QED BY <2>1, <2>2
<1>2. ASSUME NEW t \in Threads, DriverCloseCheck(t) PROVE Rest'
  BY <1>2 DEF DriverCloseCheck, TypeOK, RegistryConsistent, ClosedMeansEmpty, IdleHoldsNothing,
              PinnedStaysRegistered, RegisteredHandles
<1>3. ASSUME NEW t \in Threads, DriverCloseDecr(t) PROVE Rest'
  <2>. USE <1>3 DEF DriverCloseDecr, decrRefCount, ClearFiles, ClearBuffers
  <2>1. RegistryConsistent' /\ ClosedMeansEmpty'
    BY DEF TypeOK, RegistryConsistent, ClosedMeansEmpty, RegisteredHandles
  <2>2. IdleHoldsNothing'
    BY DEF TypeOK, IdleHoldsNothing
  <2>3. PinnedStaysRegistered'
    <3>. SUFFICES ASSUME NEW u \in Threads, opens'[u] > excess', file_of[u] # NoFile
                  PROVE  file_of[u] \in RegisteredHandles'
      BY DEF PinnedStaysRegistered
    <3>1. u # t
      BY DEF IdleHoldsNothing
    <3>2. opens[u] > excess
      BY <3>1 DEF TypeOK
    <3>3. file_of[u] \in RegisteredHandles
      BY <3>2 DEF PinnedStaysRegistered
    <3>4. ref_count' # 0
      <4>1. opens' \in [Threads -> Nat] /\ excess' \in Nat /\ ref_count' \in Nat
        BY DEF TypeOK
      <4>2. /\ IsFiniteSet(OutstandingOf(opens'))
            /\ Cardinality(OutstandingOf(opens')) <= ref_count' + excess'
        BY <1>a DEF Ledger, Outstanding, OpenersCounted
      <4>3. opens'[u] <= Cardinality(OutstandingOf(opens'))
        BY <4>1, <4>2, OpensWithin
      <4>4. Cardinality(OutstandingOf(opens')) \in Nat
        BY <4>2, FS_CardinalityType
      <4>. QED BY <4>1, <4>2, <4>3, <4>4
    <3>. QED BY <3>3, <3>4 DEF RegisteredHandles
  <2>. QED BY <2>1, <2>2, <2>3
<1>5. ASSUME NEW t \in Threads, NEW fd \in Fds, HandleRegister(t, fd) PROVE Rest'
  <2>. USE <1>5 DEF HandleRegister, registerFile, ensureInitialized, ImplicitOpen
  <2>1. RegistryConsistent'
    BY DEF TypeOK, RegistryConsistent, RegisteredHandles, FreeFile
  <2>2. ClosedMeansEmpty' /\ IdleHoldsNothing'
    BY DEF TypeOK, ClosedMeansEmpty, IdleHoldsNothing
  <2>3. PinnedStaysRegistered'
    BY DEF TypeOK, PinnedStaysRegistered, IdleHoldsNothing, RegisteredHandles
  <2>. QED BY <2>1, <2>2, <2>3
<1>6. ASSUME NEW t \in Threads, NEW h \in Handles, HandleDeregister(t, h) PROVE Rest'
  <2>. USE <1>6 DEF HandleDeregister
  <2>1. RegistryConsistent' /\ ClosedMeansEmpty'
    BY DEF TypeOK, RegistryConsistent, ClosedMeansEmpty, RegisteredHandles
  <2>2. IdleHoldsNothing'
    BY DEF IdleHoldsNothing
  <2>3. PinnedStaysRegistered'
    <3>1. CASE UNCHANGED from_fh
      BY <3>1 DEF PinnedStaysRegistered, RegisteredHandles
    <3>2. CASE from_fh[h] # NoFd /\ ~FileOperationsOutstanding(h)
                 /\ from_fh' = [from_fh EXCEPT ![h] = NoFd]
      <4>1. \A x \in Holders : file_of[x] # h
        BY <3>2, DeregisterFileExact DEF FileHolders
      <4>. QED BY <3>2, <4>1 DEF TypeOK, PinnedStaysRegistered, RegisteredHandles, Holders
    <3>. QED BY <3>1, <3>2
  <2>. QED BY <2>1, <2>2, <2>3
<1>4. ASSUME NEW t \in Threads, HandleRegisterFails(t) PROVE Rest'
  BY <1>4 DEF HandleRegisterFails, Returns, TypeOK, RegistryConsistent, ClosedMeansEmpty,
       IdleHoldsNothing, PinnedStaysRegistered, RegisteredHandles
<1>7. ASSUME NEW t \in Threads, NEW p \in Bufs, BufRegister(t, p) PROVE Rest'
  BY <1>7 DEF BufRegister, registerBuffer, ensureInitialized, ImplicitOpen, TypeOK,
                    RegistryConsistent, ClosedMeansEmpty,
       IdleHoldsNothing, PinnedStaysRegistered, RegisteredHandles
<1>8. ASSUME NEW t \in Threads, NEW p \in Bufs, BufDeregister(t, p) PROVE Rest'
  BY <1>8 DEF BufDeregister, deregisterBuffer, TypeOK, RegistryConsistent, ClosedMeansEmpty,
       IdleHoldsNothing, PinnedStaysRegistered, RegisteredHandles
<1>9. ASSUME NEW t \in Threads, NEW s \in Streams, StreamRegister(t, s) PROVE Rest'
  BY <1>9 DEF StreamRegister, registerStream, TypeOK, RegistryConsistent, ClosedMeansEmpty,
       IdleHoldsNothing, PinnedStaysRegistered, RegisteredHandles
<1>10. ASSUME NEW t \in Threads, NEW s \in Streams, StreamDeregister(t, s) PROVE Rest'
  BY <1>10 DEF StreamDeregister, TypeOK, RegistryConsistent, ClosedMeansEmpty,
       IdleHoldsNothing, PinnedStaysRegistered, RegisteredHandles
<1>11. ASSUME NEW t \in Threads, NEW h \in Handles, NEW p \in Bufs, IoBegin(t, h, p) PROVE Rest'
  BY <1>11 DEF IoBegin, Lookup, LookupThrows, TypeOK, RegistryConsistent, ClosedMeansEmpty,
       IdleHoldsNothing, Holders, PinnedStaysRegistered, RegisteredHandles
<1>12. ASSUME NEW t \in Threads, IoEnd(t) PROVE Rest'
  BY <1>12 DEF IoEnd, TypeOK, RegistryConsistent, ClosedMeansEmpty,
       IdleHoldsNothing, PinnedStaysRegistered, RegisteredHandles
<1>13. ASSUME NEW t \in Threads, IOAsyncCheck(t) PROVE Rest'
  BY <1>13 DEF IOAsyncCheck, TypeOK, RegistryConsistent, ClosedMeansEmpty,
       IdleHoldsNothing, PinnedStaysRegistered, RegisteredHandles
<1>14. ASSUME NEW t \in Threads, IOAsyncInit(t) PROVE Rest'
  BY <1>14 DEF IOAsyncInit, ensureInitialized, ImplicitOpen, TypeOK, RegistryConsistent, ClosedMeansEmpty,
       IdleHoldsNothing, PinnedStaysRegistered, RegisteredHandles
<1>15. ASSUME NEW t \in Threads, NEW h \in Handles, NEW p \in Bufs, NEW s \in Streams,
              IOAsyncLookup(t, h, p, s) PROVE Rest'
  BY <1>15 DEF IOAsyncLookup, Lookup, LookupThrows, TypeOK, RegistryConsistent, ClosedMeansEmpty,
       IdleHoldsNothing, Holders, PinnedStaysRegistered, RegisteredHandles
<1>16. ASSUME NEW t \in Threads, IOAsyncSubmit(t) PROVE Rest'
  BY <1>16, FiniteAssumption DEF IOAsyncSubmit, TypeOK, RegistryConsistent, ClosedMeansEmpty,
       IdleHoldsNothing, Holders, PinnedStaysRegistered, RegisteredHandles
<1>17. ASSUME NEW o \in Ops, completeOp(o) PROVE Rest'
  BY <1>17 DEF completeOp, TypeOK, RegistryConsistent, ClosedMeansEmpty,
       IdleHoldsNothing, PinnedStaysRegistered, RegisteredHandles
<1>18. ASSUME UNCHANGED vars PROVE Rest'
  BY <1>18 DEF vars, RegistryConsistent, ClosedMeansEmpty, IdleHoldsNothing,
               PinnedStaysRegistered, RegisteredHandles
<1>19. Rest'
  <2>. HIDE DEF Rest
  <2>. QED
    BY <1>1, <1>2, <1>3, <1>4, <1>5, <1>6, <1>7, <1>8, <1>9, <1>10, <1>11, <1>12, <1>13,
       <1>14, <1>15, <1>16, <1>17, <1>18 DEF Next
<1>. QED
  BY <1>a, <1>19 DEF IInv

(* The inductive invariant holds in every reachable state. *)
LEMMA Inductive == Spec => []IInv
  BY InvInit, InvStep, PTL DEF Spec

-----------------------------------------------------------------------------
(* FileMap's two maps always describe the same set of files, for any number *)
(* of threads, descriptors and handles.                                     *)
THEOREM RegistryTheorem == Spec => []RegistryConsistent
  BY Inductive, PTL DEF IInv

(* A closed driver is empty: no interleaving of implicit opens, closes and  *)
(* registrations leaves a file or buffer behind at reference count zero.    *)
THEOREM ClosedTheorem == Spec => []ClosedMeansEmpty
  BY Inductive, PTL DEF IInv

(* Every open counts until its thread closes it: the reference count is     *)
(* that of the opens outstanding, explicit and implicit ones, less one at   *)
(* most for each close by a thread that had none left.  It holds with any   *)
(* number of excess closes and whatever happens between the check and the   *)
(* decrement of hipFileDriverClose.                                         *)
THEOREM OpenersTheorem == Spec => []OpenersCounted
  BY Inductive, PTL DEF IInv, Ledger

(* The file a thread is doing I/O on stays registered while the thread has  *)
(* more opens than there were excess closes: deregistration and other       *)
(* threads' closes cannot take it away.                                     *)
THEOREM PinnedTheorem == Spec => []PinnedStaysRegistered
  BY Inductive, PTL DEF IInv

(* Files and buffers in use leave the registry only when a close takes the  *)
(* count to zero: the use_count tests of deregisterFile and                 *)
(* deregisterBuffer are exact in every reachable state.                     *)
THEOREM InUseTheorem == Spec => InUseLeavesOnlyByClose
<1>1. IInv /\ [Next]_vars => [ref_count' # 0 => LosesNothingInUse]_vars
  <2>. SUFFICES ASSUME IInv, Next, ref_count' # 0 PROVE LosesNothingInUse
    OBVIOUS
  <2>. USE DEF IInv, registry, LosesNothingInUse, RegisteredHandles
  <2>1. ASSUME NEW t \in Threads, DriverCloseDecr(t) PROVE LosesNothingInUse
    BY <2>1 DEF DriverCloseDecr, decrRefCount, ClearFiles, ClearBuffers
  <2>2. ASSUME NEW t \in Threads, NEW fd \in Fds, HandleRegister(t, fd) PROVE LosesNothingInUse
    BY <2>2 DEF HandleRegister, registerFile, FreeFile, TypeOK
  <2>3. ASSUME NEW t \in Threads, NEW h \in Handles, HandleDeregister(t, h)
        PROVE  LosesNothingInUse
    BY <2>3, DeregisterFileExact DEF HandleDeregister, TypeOK
  <2>4. ASSUME NEW t \in Threads, NEW p \in Bufs, BufRegister(t, p) PROVE LosesNothingInUse
    BY <2>4 DEF BufRegister, registerBuffer, TypeOK
  <2>5. ASSUME NEW t \in Threads, NEW p \in Bufs, BufDeregister(t, p) PROVE LosesNothingInUse
    BY <2>5, DeregisterBufferExact DEF BufDeregister, deregisterBuffer, TypeOK
  <2>6. ASSUME UNCHANGED <<from_fh, from_ptr>> PROVE LosesNothingInUse
    BY <2>6
  <2>. QED
    BY <2>1, <2>2, <2>3, <2>4, <2>5, <2>6
       DEF Next, DriverOpen, incrRefCount, DriverCloseCheck, HandleRegisterFails,
           StreamRegister, registerStream,
           StreamDeregister, IoBegin, IoEnd, IOAsyncCheck, IOAsyncInit, IOAsyncLookup,
           IOAsyncSubmit, completeOp
<1>. QED
  BY <1>1, Inductive, PTL DEF Spec, InUseLeavesOnlyByClose

=============================================================================
