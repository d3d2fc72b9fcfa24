----------------------------- MODULE Batch_proofs -----------------------------
(***************************************************************************)
(* Batch contexts stay within their capacity and accept a submission as a  *)
(* whole, for any number of threads, contexts and requests.                *)
(***************************************************************************)
EXTENDS Batch, FiniteSetTheorems, TLAPS

(* A thread's pending operations exist only while it holds its context, and *)
(* belong to nobody else.                                                   *)
PendingPrivate ==
    /\ \A t \in Threads : pc[t] # "filling" => pending[t] = {}
    /\ \A t, u \in Threads : t # u => pending[t] \cap pending[u] = {}
    /\ \A t \in Threads, c \in Contexts : pending[t] \cap outstanding[c] = {}

(* The context's mutex admits one submission at a time. *)
ContextExclusive ==
    \A t, u \in Threads, c \in Contexts : HoldsContext(t, c) /\ HoldsContext(u, c) => t = u

(* What was checked when the mutex was taken still holds while it is held. *)
StillFits ==
    \A t \in Threads :
      /\ pc[t] # "idle" => context[t] \in Contexts
      /\ pc[t] = "filling" =>
           /\ Cardinality(pending[t]) <= nr[t]
           /\ nr[t] + Cardinality(outstanding[context[t]]) <= capacity[context[t]]

IInv == TypeOK /\ WithinCapacity /\ PendingPrivate /\ ContextExclusive /\ StillFits

-----------------------------------------------------------------------------
(* A small remainder is the number itself. *)
LEMMA ModSmall == ASSUME NEW a \in Nat, NEW m \in Nat, a < m PROVE a % m = a
  OBVIOUS

(* Sets of operations are finite. *)
LEMMA OpsFinite ==
  ASSUME NEW S \in SUBSET BatchOps
  PROVE  IsFiniteSet(S) /\ Cardinality(S) \in Nat
  BY BatchAssumption, FS_Subset, FS_CardinalityType

(* Below capacity the unsigned difference is the true one. *)
LEMMA RoomExact ==
  ASSUME TypeOK, WithinCapacity, NEW c \in Contexts
  PROVE  Room(c) = capacity[c] - Cardinality(outstanding[c])
  <1>1. capacity[c] \in 0..MAX_SIZE /\ outstanding[c] \in SUBSET BatchOps
    BY DEF TypeOK
  <1>2. Cardinality(outstanding[c]) \in Nat
    BY <1>1, OpsFinite
  <1>3. capacity[c] - Cardinality(outstanding[c]) \in Nat
    BY <1>1, <1>2, BatchAssumption DEF WithinCapacity
  <1>4. capacity[c] - Cardinality(outstanding[c]) < SizeMod
    BY <1>1, <1>2, BatchAssumption
  <1> QED BY <1>3, <1>4, ModSmall, BatchAssumption DEF Room

(* An accepted submission adds exactly its requests. *)
LEMMA AcceptExact ==
  ASSUME IInv, NEW t \in Threads, SubmitAccept(t)
  PROVE  /\ context[t] \in Contexts
         /\ Cardinality(outstanding[context[t]] \cup pending[t])
              = Cardinality(outstanding[context[t]]) + nr[t]
  <1>1. pc[t] = "filling" /\ Cardinality(pending[t]) = nr[t]
    BY DEF SubmitAccept
  <1>2. context[t] \in Contexts
    BY <1>1 DEF IInv, StillFits
  <1> DEFINE A == outstanding[context[t]]
             B == pending[t]
  <1>3. A \in SUBSET BatchOps /\ B \in SUBSET BatchOps
    BY <1>2 DEF IInv, TypeOK
  <1>4. A \cap B = {}
    BY <1>2 DEF IInv, PendingPrivate
  <1>5. IsFiniteSet(A) /\ IsFiniteSet(B) /\ Cardinality(A) \in Nat /\ Cardinality(B) \in Nat
    BY <1>3, OpsFinite
  <1> HIDE DEF A, B
  <1>6. Cardinality(A \cup B) = Cardinality(A) + Cardinality(B) - Cardinality(A \cap B)
    BY <1>5, FS_Union
  <1>7. Cardinality(A \cap B) = 0
    BY <1>4, FS_EmptySet
  <1>8. Cardinality(A \cup B) = Cardinality(A) + Cardinality(B)
    BY <1>5, <1>6, <1>7
  <1> QED BY <1>1, <1>2, <1>8 DEF A, B

-----------------------------------------------------------------------------
(* The invariant holds initially. *)
LEMMA InvInit == Init => IInv
  <1> SUFFICES ASSUME Init PROVE IInv
    OBVIOUS
  <1>1. TypeOK
    BY BatchAssumption DEF Init, TypeOK, Results
  <1>2. WithinCapacity
    BY FS_EmptySet DEF Init, WithinCapacity
  <1>3. PendingPrivate /\ ContextExclusive /\ StillFits
    BY DEF Init, PendingPrivate, ContextExclusive, StillFits, HoldsContext
  <1> QED BY <1>1, <1>2, <1>3 DEF IInv

(* Every step of a thread or of the application keeps the types.            *)
LEMMA TypeStep == IInv /\ [Next]_vars => TypeOK'
  <1> SUFFICES ASSUME IInv, [Next]_vars PROVE TypeOK'
    OBVIOUS
  <1> USE BatchAssumption DEF IInv, TypeOK, Results
  <1>1. ASSUME NEW t \in Threads, NEW n \in 0..(MAX_SIZE + 1), BatchIOSetUp(t, n)
        PROVE  TypeOK'
    BY <1>1 DEF BatchIOSetUp, createContext, CapacityValid, Return
  <1>2. ASSUME NEW t \in Threads, NEW c \in Contexts, NEW n \in 0..MaxNr, BatchIOSubmit(t, c, n)
        PROVE  TypeOK'
    BY <1>2 DEF BatchIOSubmit, ContextExists, Return
  <1>3. ASSUME NEW t \in Threads, SubmitLock(t) PROVE TypeOK'
    BY <1>3 DEF SubmitLock, Return
  <1>4. ASSUME NEW t \in Threads, NEW r \in Requests, SubmitOne(t, r) PROVE TypeOK'
    BY <1>4 DEF SubmitOne, FreeOps
  <1>5. ASSUME NEW t \in Threads, NEW r \in Requests, SubmitThrows(t, r) PROVE TypeOK'
    BY <1>5 DEF SubmitThrows, Return
  <1>6. ASSUME NEW t \in Threads, SubmitAccept(t) PROVE TypeOK'
    <2>1. context[t] \in Contexts /\ outstanding[context[t]] \cup pending[t] \in SUBSET BatchOps
      BY <1>6 DEF SubmitAccept, StillFits
    <2>2. outstanding' \in [Contexts -> SUBSET BatchOps]
      BY <1>6, <2>1 DEF SubmitAccept
    <2> QED BY <1>6, <2>2 DEF SubmitAccept, Return
  <1>7. ASSUME NEW f \in Files, HandleRegister(f) \/ HandleDeregister(f) PROVE TypeOK'
    BY <1>7 DEF HandleRegister, HandleDeregister
  <1>8. CASE DriverClose
    BY <1>8 DEF DriverClose
  <1>9. CASE UNCHANGED vars
    BY <1>9 DEF vars
  <1> QED BY <1>1, <1>2, <1>3, <1>4, <1>5, <1>6, <1>7, <1>8, <1>9 DEF Next

(* The parts of the invariant other than typing, for a step of thread t that *)
(* leaves every context alone and drops t's submission.                     *)
LEMMA ReturnKeeps ==
  ASSUME IInv, NEW t \in Threads, NEW r, Return(t, r), UNCHANGED outstanding,
         \A c \in Contexts : capacity'[c] = capacity[c] \/ (capacity[c] = 0 /\ capacity'[c] \in Nat)
  PROVE  PendingPrivate' /\ ContextExclusive' /\ StillFits' /\ WithinCapacity'
  <1> USE DEF IInv, TypeOK, Return
  <1>1. PendingPrivate'
    BY DEF PendingPrivate
  <1>2. ContextExclusive'
    BY DEF ContextExclusive, HoldsContext
  <1>3. \A c \in Contexts : capacity[c] \in Nat /\ capacity'[c] \in Nat /\ capacity[c] <= capacity'[c]
    BY BatchAssumption
  <1>4. \A c \in Contexts : Cardinality(outstanding[c]) \in Nat
    BY OpsFinite
  <1>5. WithinCapacity'
    BY <1>3, <1>4 DEF WithinCapacity
  <1>6. ASSUME NEW u \in Threads, pc'[u] # "idle"
        PROVE  /\ u # t /\ pc[u] = pc'[u] /\ context'[u] = context[u]
               /\ nr'[u] = nr[u] /\ pending'[u] = pending[u]
    BY <1>6
  <1>7. StillFits'
    BY <1>3, <1>4, <1>6 DEF StillFits
  <1> QED BY <1>1, <1>2, <1>5, <1>7

(* Every step preserves the invariant. *)
LEMMA InvStep == IInv /\ [Next]_vars => IInv'
  <1> SUFFICES ASSUME IInv, [Next]_vars
               PROVE  PendingPrivate' /\ ContextExclusive' /\ StillFits' /\ WithinCapacity'
    BY TypeStep DEF IInv
  <1>1. ASSUME NEW t \in Threads, NEW n \in 0..(MAX_SIZE + 1), BatchIOSetUp(t, n)
        PROVE  PendingPrivate' /\ ContextExclusive' /\ StillFits' /\ WithinCapacity'
    <2>1. \A c \in Contexts : capacity'[c] = capacity[c] \/ (capacity[c] = 0 /\ capacity'[c] \in Nat)
      BY <1>1, BatchAssumption DEF BatchIOSetUp, createContext, CapacityValid, IInv, TypeOK
    <2>2. UNCHANGED outstanding /\ (Return(t, "Success") \/ Return(t, "InvalidValue"))
      BY <1>1 DEF BatchIOSetUp, createContext, CapacityValid
    <2> QED BY <2>1, <2>2, ReturnKeeps
  <1>2. ASSUME NEW t \in Threads, NEW c \in Contexts, NEW n \in 0..MaxNr, BatchIOSubmit(t, c, n)
        PROVE  PendingPrivate' /\ ContextExclusive' /\ StillFits' /\ WithinCapacity'
    <2>1. CASE capacity[c] = 0
      <3>1. Return(t, "InvalidValue") /\ UNCHANGED outstanding
        BY <1>2, <2>1 DEF BatchIOSubmit, ContextExists
      <3>2. \A d \in Contexts : capacity'[d] = capacity[d] \/ (capacity[d] = 0 /\ capacity'[d] \in Nat)
        <4>1. capacity' = capacity
          BY <1>2 DEF BatchIOSubmit, ContextExists
        <4> QED BY <4>1
      <3> QED BY <3>1, <3>2, ReturnKeeps
    <2>2. CASE capacity[c] # 0
      BY <1>2, <2>2 DEF BatchIOSubmit, ContextExists, IInv, TypeOK,
                        PendingPrivate, ContextExclusive,
         HoldsContext, StillFits, WithinCapacity
    <2> QED BY <2>1, <2>2
  <1>3. ASSUME NEW t \in Threads, SubmitLock(t)
        PROVE  PendingPrivate' /\ ContextExclusive' /\ StillFits' /\ WithinCapacity'
    <2>1. CASE Return(t, "InvalidValue")
      <3>1. UNCHANGED outstanding
        BY <1>3 DEF SubmitLock
      <3>2. \A d \in Contexts : capacity'[d] = capacity[d] \/ (capacity[d] = 0 /\ capacity'[d] \in Nat)
        <4>1. capacity' = capacity
          BY <1>3 DEF SubmitLock
        <4> QED BY <4>1
      <3> QED BY <2>1, <3>1, <3>2, ReturnKeeps
    <2>2. CASE /\ nr[t] <= Room(context[t])
               /\ pc' = [pc EXCEPT ![t] = "filling"]
               /\ UNCHANGED <<pending, context, nr, result>>
      <3> UNCHANGED <<capacity, outstanding, pending, context, nr>>
        BY <1>3, <2>2 DEF SubmitLock
      <3>1. pc[t] = "submitting" /\ context[t] \in Contexts
        BY <1>3 DEF SubmitLock, IInv, StillFits
      <3>2. pending[t] = {} /\ Cardinality(pending[t]) = 0
        BY <3>1, FS_EmptySet DEF IInv, PendingPrivate
      <3>3. Cardinality(outstanding[context[t]]) \in Nat /\ capacity[context[t]] \in Nat
             /\ nr[t] \in Nat
        BY <3>1, OpsFinite, BatchAssumption DEF IInv, TypeOK
      <3>4. nr[t] + Cardinality(outstanding[context[t]]) <= capacity[context[t]]
        BY <2>2, <3>1, <3>3, RoomExact DEF IInv
      <3>5. PendingPrivate'
        BY <2>2, <3>2 DEF IInv, TypeOK, PendingPrivate
      <3>6. ContextExclusive'
        BY <1>3, <2>2 DEF SubmitLock, IInv, TypeOK, ContextExclusive, HoldsContext
      <3>7. StillFits'
        <4>1. pc'[t] = "filling" /\ \A u \in Threads : u # t => pc'[u] = pc[u]
          BY <2>2 DEF IInv, TypeOK
        <4>2. Cardinality(pending[t]) <= nr[t]
          BY <3>2, <3>3
        <4> QED BY <3>1, <3>4, <4>1, <4>2 DEF IInv, StillFits
      <3>8. WithinCapacity'
        BY DEF IInv, WithinCapacity
      <3> QED BY <3>5, <3>6, <3>7, <3>8
    <2> QED BY <1>3, <2>1, <2>2 DEF SubmitLock
  <1>4. ASSUME NEW t \in Threads, NEW r \in Requests, SubmitOne(t, r)
        PROVE  PendingPrivate' /\ ContextExclusive' /\ StillFits' /\ WithinCapacity'
    <2> UNCHANGED <<capacity, outstanding, pc, context, nr>>
      BY <1>4 DEF SubmitOne
    <2>1. PICK o \in FreeOps : pending' = [pending EXCEPT ![t] = @ \cup {o}]
      BY <1>4 DEF SubmitOne
    <2>2. pc[t] = "filling" /\ Cardinality(pending[t]) < nr[t]
      BY <1>4 DEF SubmitOne
    <2>3. PendingPrivate'
      BY <2>1, <2>2 DEF IInv, TypeOK, PendingPrivate, FreeOps
    <2>4. pending[t] \in SUBSET BatchOps /\ o \notin pending[t]
      BY <2>1 DEF IInv, TypeOK, FreeOps
    <2>5. IsFiniteSet(pending[t]) /\ Cardinality(pending[t]) \in Nat
      BY <2>4, OpsFinite
    <2>6. Cardinality(pending[t] \cup {o}) = Cardinality(pending[t]) + 1
      BY <2>4, <2>5, FS_AddElement
    <2>7. nr[t] \in Nat
      BY BatchAssumption DEF IInv, TypeOK
    <2>8. Cardinality(pending'[t]) <= nr'[t]
      BY <2>1, <2>2, <2>5, <2>6, <2>7 DEF IInv, TypeOK
    <2>9. \A u \in Threads : u # t => pending'[u] = pending[u]
      BY <2>1 DEF IInv, TypeOK
    <2>10. StillFits'
      BY <2>8, <2>9 DEF IInv, StillFits
    <2>11. ContextExclusive' /\ WithinCapacity'
      BY DEF IInv, ContextExclusive, HoldsContext, WithinCapacity
    <2> QED BY <2>3, <2>10, <2>11
  <1>5. ASSUME NEW t \in Threads, NEW r \in Requests, SubmitThrows(t, r)
        PROVE  PendingPrivate' /\ ContextExclusive' /\ StillFits' /\ WithinCapacity'
    <2>1. Return(t, "Error") \/ Return(t, "InvalidValue")
      BY <1>5 DEF SubmitThrows
    <2>2. UNCHANGED outstanding
      BY <1>5 DEF SubmitThrows
    <2>3. \A d \in Contexts : capacity'[d] = capacity[d] \/ (capacity[d] = 0 /\ capacity'[d] \in Nat)
      <3>1. capacity' = capacity
        BY <1>5 DEF SubmitThrows
      <3> QED BY <3>1
    <2> QED BY <2>1, <2>2, <2>3, ReturnKeeps
  <1>6. ASSUME NEW t \in Threads, SubmitAccept(t)
        PROVE  PendingPrivate' /\ ContextExclusive' /\ StillFits' /\ WithinCapacity'
    <2> USE DEF IInv
    <2> DEFINE c == context[t]
    <2>1. c \in Contexts /\ pc[t] = "filling"
      BY <1>6 DEF SubmitAccept, StillFits
    <2>2. UNCHANGED capacity /\ Return(t, "Success")
            /\ outstanding' = [outstanding EXCEPT ![c] = @ \cup pending[t]]
      BY <1>6 DEF SubmitAccept
    <2>3. \A d \in Contexts : d # c => outstanding'[d] = outstanding[d]
      BY <2>2 DEF TypeOK
    <2>4. outstanding'[c] = outstanding[c] \cup pending[t]
      BY <2>1, <2>2 DEF TypeOK
    <2>5. Cardinality(outstanding'[c]) = Cardinality(outstanding[c]) + nr[t]
      BY <1>6, <2>4, AcceptExact
    <2>6. WithinCapacity'
      <3>1. Cardinality(outstanding[c]) \in Nat /\ capacity[c] \in Nat /\ nr[t] \in Nat
        BY <2>1, OpsFinite, BatchAssumption DEF TypeOK
      <3>2. nr[t] + Cardinality(outstanding[c]) <= capacity[c]
        BY <2>1 DEF StillFits
      <3>3. Cardinality(outstanding'[c]) <= capacity'[c]
        BY <2>2, <2>5, <3>1, <3>2
      <3> QED BY <2>2, <2>3, <3>3 DEF WithinCapacity
    <2>7. PendingPrivate'
      BY <2>2, <2>3, <2>4 DEF PendingPrivate, Return, TypeOK
    <2>8. ContextExclusive'
      BY <2>2 DEF ContextExclusive, HoldsContext, Return, TypeOK
    <2>9. ASSUME NEW u \in Threads, pc'[u] # "idle"
          PROVE  /\ u # t /\ pc[u] = pc'[u] /\ context'[u] = context[u]
                 /\ nr'[u] = nr[u] /\ pending'[u] = pending[u]
      BY <2>2, <2>9 DEF Return, TypeOK
    <2>10. \A u \in Threads : (u # t /\ pc[u] = "filling") => context[u] \in Contexts /\ context[u] # c
      BY <2>1 DEF ContextExclusive, HoldsContext, StillFits
    <2>11. StillFits'
      BY <2>2, <2>3, <2>9, <2>10 DEF StillFits
    <2> QED BY <2>6, <2>7, <2>8, <2>11
  <1>7. CASE \/ \E f \in Files : HandleRegister(f) \/ HandleDeregister(f)
             \/ DriverClose
             \/ UNCHANGED vars
    BY <1>7 DEF HandleRegister, HandleDeregister, DriverClose, vars, IInv, PendingPrivate,
       ContextExclusive, HoldsContext, StillFits, WithinCapacity
  <1> QED BY <1>1, <1>2, <1>3, <1>4, <1>5, <1>6, <1>7 DEF Next

-----------------------------------------------------------------------------
(* The invariant holds in every reachable state. *)
LEMMA Inductive == Spec => []IInv
  BY InvInit, InvStep, PTL DEF Spec

(* Type correctness of the batch contexts and of the submissions in flight. *)
THEOREM TypeCorrect == Spec => []TypeOK
  <1>1. IInv => TypeOK
    BY DEF IInv
  <1> QED BY <1>1, Inductive, PTL

(* submit_operations never takes a context over its capacity, whatever      *)
(* submissions race, so its unsigned subtraction never wraps around.        *)
THEOREM CapacityTheorem == Spec => []WithinCapacity
  <1>1. IInv => WithinCapacity
    BY DEF IInv
  <1> QED BY <1>1, Inductive, PTL

(* submit_operations is all or none: a context changes only in the step     *)
(* that ends a successful submission, by exactly the requests submitted.    *)
THEOREM AllOrNoneTheorem == Spec => AllOrNone
  <1> DEFINE Step ==
        \A c \in Contexts : outstanding'[c] # outstanding[c] =>
          \E t \in Threads :
            /\ HoldsContext(t, c) /\ pc'[t] = "idle" /\ result'[t] = "Success"
            /\ Cardinality(outstanding'[c]) = Cardinality(outstanding[c]) + nr[t]
  <1>1. IInv /\ [Next]_vars => [Step]_vars
    <2> SUFFICES ASSUME IInv, Next, NEW c \in Contexts, outstanding'[c] # outstanding[c]
                 PROVE  \E t \in Threads :
                          /\ HoldsContext(t, c) /\ pc'[t] = "idle" /\ result'[t] = "Success"
                          /\ Cardinality(outstanding'[c]) = Cardinality(outstanding[c]) + nr[t]
      OBVIOUS
    <2>1. PICK t \in Threads : SubmitAccept(t)
      BY DEF Next, BatchIOSetUp, createContext, CapacityValid, BatchIOSubmit, ContextExists,
             SubmitLock, SubmitOne, SubmitThrows,
         HandleRegister, HandleDeregister, DriverClose
    <2>2. context[t] \in Contexts
      BY <2>1, AcceptExact
    <2>3. outstanding' = [outstanding EXCEPT ![context[t]] = @ \cup pending[t]]
      BY <2>1 DEF SubmitAccept
    <2>4. c = context[t] /\ outstanding'[c] = outstanding[c] \cup pending[t]
      BY <2>2, <2>3 DEF IInv, TypeOK
    <2>5. Cardinality(outstanding'[c]) = Cardinality(outstanding[c]) + nr[t]
      BY <2>1, <2>4, AcceptExact
    <2>6. HoldsContext(t, c) /\ pc'[t] = "idle" /\ result'[t] = "Success"
      BY <2>1, <2>4 DEF SubmitAccept, Return, HoldsContext, IInv, TypeOK
    <2> QED BY <2>5, <2>6
  <1> QED BY <1>1, Inductive, PTL DEF Spec, AllOrNone
-----------------------------------------------------------------------------
(* An operation in a set was made for a request the constructor accepts. *)
MadeValid(S) == \A o \in S : op[o] \in Requests /\ RequestValid(op[o])

(* Every operation that is accepted or being accepted was validated when it *)
(* was made, and nobody has touched it since.                               *)
Validated ==
    /\ \A c \in Contexts : MadeValid(outstanding[c])
    /\ \A t \in Threads : MadeValid(pending[t])

(* A valid request lies inside its buffer. *)
LEMMA ValidInside ==
  ASSUME NEW r \in Requests, RequestValid(r)
  PROVE  r.devPtr_offset >= 0 /\ r.devPtr_offset + r.size <= BufLen /\ r.file_offset >= 0
  <1>1. r.devPtr_offset \in Int /\ r.size \in Int
    BY BatchAssumption DEF Requests
  <1> QED BY <1>1, BatchAssumption DEF RequestValid

(* A step that keeps the contexts and the requests, and gives no thread an  *)
(* operation it did not have, keeps operations validated.                   *)
LEMMA ValidatedKept ==
  ASSUME Validated, UNCHANGED <<outstanding, op>>,
         \A t \in Threads : pending'[t] \subseteq pending[t]
  PROVE  Validated'
  BY DEF Validated, MadeValid, RequestValid

(* Every step keeps operations validated. *)
LEMMA ValidatedStep == IInv /\ Validated /\ [Next]_vars => Validated'
  <1> SUFFICES ASSUME IInv, Validated, [Next]_vars PROVE Validated'
    OBVIOUS
  <1>0. ASSUME NEW t \in Threads, NEW r, Return(t, r)
        PROVE  pending'[t] = {} /\ \A u \in Threads : u # t => pending'[u] = pending[u]
    BY <1>0 DEF Return, IInv, TypeOK
  <1>1. ASSUME NEW t \in Threads, NEW n \in 0..(MAX_SIZE + 1), BatchIOSetUp(t, n)
        PROVE  Validated'
    <2>1. Return(t, "Success") \/ Return(t, "InvalidValue")
      BY <1>1 DEF BatchIOSetUp
    <2>2. UNCHANGED <<outstanding, op>>
      BY <1>1 DEF BatchIOSetUp
    <2>3. \A u \in Threads : pending'[u] \subseteq pending[u]
      BY <1>0, <2>1
    <2> QED BY <2>2, <2>3, ValidatedKept
  <1>2. ASSUME NEW t \in Threads, NEW c \in Contexts, NEW n \in 0..MaxNr, BatchIOSubmit(t, c, n)
        PROVE  Validated'
    <2>1. Return(t, "InvalidValue") \/ UNCHANGED pending
      BY <1>2 DEF BatchIOSubmit
    <2>2. UNCHANGED <<outstanding, op>>
      BY <1>2 DEF BatchIOSubmit
    <2>3. \A u \in Threads : pending'[u] \subseteq pending[u]
      BY <1>0, <2>1
    <2> QED BY <2>2, <2>3, ValidatedKept
  <1>3. ASSUME NEW t \in Threads, SubmitLock(t) PROVE Validated'
    <2>1. Return(t, "InvalidValue") \/ UNCHANGED pending
      BY <1>3 DEF SubmitLock
    <2>2. UNCHANGED <<outstanding, op>>
      BY <1>3 DEF SubmitLock
    <2>3. \A u \in Threads : pending'[u] \subseteq pending[u]
      BY <1>0, <2>1
    <2> QED BY <2>2, <2>3, ValidatedKept
  <1>4. ASSUME NEW t \in Threads, NEW r \in Requests, SubmitOne(t, r) PROVE Validated'
    <2>1. PICK o \in FreeOps : /\ pending' = [pending EXCEPT ![t] = @ \cup {o}]
                               /\ op' = [op EXCEPT ![o] = r]
      BY <1>4 DEF SubmitOne
    <2>2. RequestValid(r) /\ UNCHANGED outstanding
      BY <1>4 DEF SubmitOne
    <2>3. o \in BatchOps /\ op'[o] = r
      BY <2>1 DEF FreeOps, IInv, TypeOK
    <2>4. \A p \in BatchOps : p # o => op'[p] = op[p]
      BY <2>1 DEF IInv, TypeOK
    <2>5. ASSUME NEW c \in Contexts, NEW p \in outstanding'[c]
          PROVE  op'[p] \in Requests /\ RequestValid(op'[p])
      <3>1. p \in BatchOps /\ p \in outstanding[c] /\ p # o
        BY <2>1, <2>2, <2>5 DEF FreeOps, IInv, TypeOK
      <3> QED BY <2>4, <3>1 DEF Validated, MadeValid
    <2>6. ASSUME NEW u \in Threads, NEW p \in pending'[u]
          PROVE  op'[p] \in Requests /\ RequestValid(op'[p])
      <3>1. p = o \/ (p \in pending[u] /\ p \in BatchOps /\ p # o)
        BY <2>1, <2>6 DEF FreeOps, IInv, TypeOK
      <3> QED BY <2>2, <2>3, <2>4, <3>1 DEF Validated, MadeValid
    <2> QED BY <2>5, <2>6 DEF Validated, MadeValid, RequestValid
  <1>5. ASSUME NEW t \in Threads, NEW r \in Requests, SubmitThrows(t, r) PROVE Validated'
    <2>1. Return(t, "Error") \/ Return(t, "InvalidValue")
      BY <1>5 DEF SubmitThrows
    <2>2. UNCHANGED outstanding /\ \A p \in BatchOps \ pending[t] : op'[p] = op[p]
      BY <1>5 DEF SubmitThrows
    <2>3. pending'[t] = {} /\ \A u \in Threads : u # t => pending'[u] = pending[u]
      BY <1>0, <2>1
    <2>4. ASSUME NEW c \in Contexts, NEW p \in outstanding'[c]
          PROVE  op'[p] \in Requests /\ RequestValid(op'[p])
      <3>1. p \in BatchOps \ pending[t] /\ p \in outstanding[c]
        BY <2>2, <2>4 DEF IInv, TypeOK, PendingPrivate
      <3> QED BY <2>2, <3>1 DEF Validated, MadeValid
    <2>5. ASSUME NEW u \in Threads, NEW p \in pending'[u]
          PROVE  op'[p] \in Requests /\ RequestValid(op'[p])
      <3>1. p \in BatchOps \ pending[t] /\ p \in pending[u]
        BY <2>3, <2>5 DEF IInv, TypeOK, PendingPrivate
      <3> QED BY <2>2, <3>1 DEF Validated, MadeValid
    <2> QED BY <2>4, <2>5 DEF Validated, MadeValid, RequestValid
  <1>6. ASSUME NEW t \in Threads, SubmitAccept(t) PROVE Validated'
    <2>1. /\ outstanding' = [outstanding EXCEPT ![context[t]] = @ \cup pending[t]]
          /\ Return(t, "Success") /\ UNCHANGED op
      BY <1>6 DEF SubmitAccept
    <2>2. \A u \in Threads : pending'[u] \subseteq pending[u]
      BY <1>0, <2>1
    <2>3. \A c \in Contexts : outstanding'[c] \subseteq outstanding[c] \cup pending[t]
      BY <2>1 DEF IInv, TypeOK
    <2> QED BY <2>1, <2>2, <2>3 DEF Validated, MadeValid, RequestValid
  <1>7. CASE \/ \E f \in Files : HandleRegister(f) \/ HandleDeregister(f)
             \/ DriverClose
             \/ UNCHANGED vars
    BY <1>7 DEF HandleRegister, HandleDeregister, DriverClose, vars, Validated, MadeValid,
       RequestValid
  <1> QED BY <1>1, <1>2, <1>3, <1>4, <1>5, <1>6, <1>7 DEF Next

(* Whatever good and bad requests are submitted together, and whatever       *)
(* submissions race for the addresses of the operations dropped, what        *)
(* submit_operations accepted lies inside its buffer.                        *)
THEOREM AcceptedTheorem == Spec => []AcceptedAreValid
  <1>1. Init => Validated
    BY DEF Init, Validated, MadeValid
  <1>2. Validated => AcceptedAreValid
    BY ValidInside DEF Validated, MadeValid, AcceptedAreValid
  <1> QED BY <1>1, <1>2, Inductive, ValidatedStep, PTL DEF Spec

=============================================================================
