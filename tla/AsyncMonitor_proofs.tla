-------------------------- MODULE AsyncMonitor_proofs --------------------------
(***************************************************************************)
(* Proofs about AsyncMonitor, for any number of operations, HIP streams    *)
(* and Stream objects: who owns an AsyncOp at every moment, that nobody    *)
(* touches it once it is freed, and that the threads together implement    *)
(* AsyncLifecycle.                                                         *)
(***************************************************************************)
EXTENDS AsyncMonitor, SequenceTheorems, TLAPS

(* The task at place i of the stream s is the task k of operation o. *)
Task(s, i, k, o) == i \in 1..Len(queue[s]) /\ queue[s][i] = <<k, o>>

(* completeOp has run for the task at place i, which is still running. *)
Started(s, i) == i = 1 /\ host[s] # "none"

(* Before its construction, and when that throws, nobody knows of an        *)
(* operation; from then on its memory is there until it is freed.           *)
Born ==
    \A o \in Ops :
      /\ sub[o] = "start" => mem[o] = "none" /\ next_task[o] = 1
      /\ sub[o] = "built" => o \notin submitted_ops
      /\ sub[o] \in {"built", "added", "ready", "locked", "catch"} => o \in pins
      /\ mem[o] = "none" =>
           /\ sub[o] \in {"start", "done"} /\ o \notin pins /\ o \notin published
           /\ o \notin submitted_ops /\ ct_op # o
      /\ o \in pins =>
           /\ mem[o] = "live" /\ sub[o] # "freeing"
           /\ o \in submitted_ops \/ sub[o] = "built"

(* Who owns an operation besides its submitter. *)
Owned ==
    /\ \A i, j \in 1..Len(completed_ops) : completed_ops[i] = completed_ops[j] => i = j
    /\ \A i \in 1..Len(completed_ops) :
         completed_ops[i] \in submitted_ops /\ completed_ops[i] \notin pins
    /\ \A o \in submitted_ops : mem[o] = "live" /\ ct_op # o /\ sub[o] # "freeing"
    /\ ct_op # NoOp <=> ct \in {"drop", "freeing"}
    /\ ct_op # NoOp =>
         /\ mem[ct_op] = "live" /\ ct_op \notin pins
         /\ sub[ct_op] \notin {"start", "built", "freeing"}
    /\ ct = "freeing" => sub[ct_op] = "done"
    /\ \A o \in Ops : sub[o] = "freeing" => mem[o] = "live"
    /\ \A o \in Ops : mem[o] = "freed" => sub[o] = "done"

(* Tasks are in their operation's stream, enqueued by a submitter that      *)
(* holds the lock or has held it, for memory that is there.                 *)
TasksOfLive ==
    \A s \in HipStreams, i \in Nat, k \in TaskKinds, o \in Ops : Task(s, i, k, o) =>
      /\ s = hip_stream[o] /\ mem[o] = "live"
      /\ sub[o] \notin {"start", "built", "added", "ready"}

(* There is one cleanup at most, which ends the references of its           *)
(* operation, then publishes, then is gone.                                 *)
Cleanups ==
    /\ \A s \in HipStreams, i \in Nat, o \in Ops : Task(s, i, "cleanup", o) =>
         /\ sub[o] \in {"returning", "freeing", "done"} /\ ret[o] # "leaked" /\ o \notin published
         /\ o \in pins <=> ~Started(s, i)
         /\ \A j \in Nat : Task(s, j, "cleanup", o) => i = j
    /\ \A s \in HipStreams : host[s] # "none" => \E o \in Ops : Task(s, 1, "cleanup", o)

(* What completed is published, except while its cleanup still runs; what   *)
(* was given up never completes.                                            *)
Told ==
    \A o \in Ops :
      /\ o \in published => o \notin pins
      /\ mem[o] # "none" /\ o \notin pins /\ o \notin published =>
           Task(hip_stream[o], 1, "cleanup", o) /\ host[hip_stream[o]] # "none"
      /\ ret[o] = "leaked" => o \in pins
      /\ ret[o] = "none" <=> sub[o] \notin {"returning", "freeing", "done"}

(* A caller of hipHostFree waits for every task of the operation it frees. *)
Drained ==
    \A s \in HipStreams, i \in Nat, k \in TaskKinds, o \in Ops : Task(s, i, k, o) =>
      /\ sub[o] = "freeing" => <<k, o>> \in draining[o]
      /\ ct = "freeing" /\ ct_op = o => <<k, o>> \in draining[COMPLETION]

IInv == TypeOK /\ Born /\ Owned /\ TasksOfLive /\ Cleanups /\ Told /\ Drained


-----------------------------------------------------------------------------
(* The tasks async_io enqueues: three or four, the cleanup last.            *)
LEMMA TasksShape ==
  ASSUME NEW o \in Ops
  PROVE  /\ Len(Tasks(o)) \in {3, 4}
         /\ \A n \in 1..Len(Tasks(o)) :
              Tasks(o)[n] \in TaskKinds /\ (Tasks(o)[n] = "cleanup" <=> n = Len(Tasks(o)))
  <1>1. CASE stream[o] \in FixedObjs
    <2>1. Tasks(o) = <<"copy1", "copy2", "cleanup">>
      BY <1>1 DEF Tasks
    <2> QED BY <2>1 DEF TaskKinds
  <1>2. CASE stream[o] \notin FixedObjs
    <2>1. Tasks(o) = <<"bind">> \o <<"copy1", "copy2", "cleanup">>
      BY <1>2 DEF Tasks
    <2>2. /\ Len(Tasks(o)) = 4 /\ Tasks(o)[1] = "bind" /\ Tasks(o)[2] = "copy1"
          /\ Tasks(o)[3] = "copy2" /\ Tasks(o)[4] = "cleanup"
      BY <2>1
    <2> QED BY <2>2 DEF TaskKinds
  <1> QED BY <1>1, <1>2

(* Enqueue adds one task, at the end of its operation's stream. *)
LEMMA EnqueueAdds ==
  ASSUME TypeOK, NEW k \in TaskKinds, NEW o \in Ops, Enqueue(k, o)
  PROVE  /\ queue' \in [HipStreams -> Seq(TaskKinds \X Ops)]
         /\ \A s \in HipStreams, i \in Nat, k2 \in TaskKinds, o2 \in Ops :
              Task(s, i, k2, o2)' <=>
                \/ Task(s, i, k2, o2)
                \/ s = hip_stream[o] /\ i = Len(queue[s]) + 1 /\ k2 = k /\ o2 = o
  <1>1. hip_stream[o] \in HipStreams /\ <<k, o>> \in TaskKinds \X Ops
    BY DEF TypeOK
  <1>2. \A s \in HipStreams : queue[s] \in Seq(TaskKinds \X Ops)
    BY DEF TypeOK
  <1>3. queue' = [queue EXCEPT ![hip_stream[o]] = Append(@, <<k, o>>)]
    BY DEF Enqueue
  <1>4. queue' \in [HipStreams -> Seq(TaskKinds \X Ops)]
    BY <1>1, <1>2, <1>3 DEF TypeOK
  <1>5. ASSUME NEW s \in HipStreams, NEW i \in Nat, NEW k2 \in TaskKinds, NEW o2 \in Ops
        PROVE  Task(s, i, k2, o2)' <=>
                \/ Task(s, i, k2, o2)
                \/ s = hip_stream[o] /\ i = Len(queue[s]) + 1 /\ k2 = k /\ o2 = o
    <2>1. CASE s = hip_stream[o]
      <3>1. queue'[s] = Append(queue[s], <<k, o>>)
        BY <1>1, <1>3, <2>1 DEF TypeOK
      <3> QED BY <1>1, <1>2, <2>1, <3>1 DEF Task
    <2>2. CASE s # hip_stream[o]
      <3>1. queue'[s] = queue[s]
        BY <1>3, <2>2 DEF TypeOK
      <3> QED BY <2>2, <3>1 DEF Task
    <2> QED BY <2>1, <2>2
  <1> QED BY <1>4, <1>5

(* An enqueued task can be told from a launch that threw.                   *)
LEMMA EnqueueChanges ==
  ASSUME TypeOK, NEW k \in TaskKinds, NEW o \in Ops, Enqueue(k, o)
  PROVE  queue' # queue
  <1>1. hip_stream[o] \in HipStreams /\ queue[hip_stream[o]] \in Seq(TaskKinds \X Ops)
    BY DEF TypeOK
  <1>2. Len(queue'[hip_stream[o]]) = Len(queue[hip_stream[o]]) + 1
    BY <1>1 DEF Enqueue, TypeOK
  <1> QED BY <1>1, <1>2

(* The places of the tail of a sequence. *)
LEMMA TailPlaces ==
  ASSUME NEW S, NEW q \in Seq(S), q # << >>
  PROVE  /\ Len(q) \in Nat \ {0} /\ Len(Tail(q)) = Len(q) - 1
         /\ \A i \in 1..(Len(q) - 1) : Tail(q)[i] = q[i + 1]
  OBVIOUS

(* The places of all but the last element of a sequence. *)
LEMMA FrontPlaces ==
  ASSUME NEW S, NEW q \in Seq(S), q # << >>
  PROVE  /\ Len(Front(q)) = Len(q) - 1
         /\ \A i \in 1..(Len(q) - 1) : Front(q)[i] = q[i]
  <1>1. Len(q) \in Nat /\ Len(q) # 0
    OBVIOUS
  <1>2. Front(q) = SubSeq(q, 1, Len(q) - 1)
    BY DEF Front
  <1>3. \A i \in 1..(Len(q) - 1) : q[i] \in S
    BY <1>1
  <1>4. /\ Len(SubSeq(q, 1, Len(q) - 1)) = Len(q) - 1
        /\ \A i \in 1..(Len(q) - 1) : SubSeq(q, 1, Len(q) - 1)[i] = q[i]
    <2> DEFINE n == Len(q) - 1
    <2>1. n \in Nat /\ \A i \in 1..n : q[i] \in S
      BY <1>1, <1>3
    <2> HIDE DEF n
    <2>2. /\ Len(SubSeq(q, 1, n)) = IF 1 <= n THEN n - 1 + 1 ELSE 0
          /\ \A i \in 1..(n - 1 + 1) : SubSeq(q, 1, n)[i] = q[1 + i - 1]
      BY <2>1, SubSeqProperties
    <2>3. Len(SubSeq(q, 1, n)) = n
      BY <2>1, <2>2
    <2>4. \A i \in 1..n : SubSeq(q, 1, n)[i] = q[i]
      BY <2>1, <2>2
    <2> QED BY <2>3, <2>4 DEF n
  <1> QED BY <1>2, <1>4

(* A task that returns leaves the head of its stream; the others move up.   *)
LEMMA TailRemoves ==
  ASSUME TypeOK, NEW s \in HipStreams, queue[s] # << >>,
         queue' = [queue EXCEPT ![s] = Tail(@)]
  PROVE  /\ queue' \in [HipStreams -> Seq(TaskKinds \X Ops)]
         /\ \A i \in Nat, k \in TaskKinds, o \in Ops :
              Task(s, i, k, o)' <=> i # 0 /\ Task(s, i + 1, k, o)
         /\ \A s2 \in HipStreams, i \in Nat, k \in TaskKinds, o \in Ops :
              s2 # s => (Task(s2, i, k, o)' <=> Task(s2, i, k, o))
  <1>1. \A x \in HipStreams : queue[x] \in Seq(TaskKinds \X Ops)
    BY DEF TypeOK
  <1>2. queue'[s] = Tail(queue[s]) /\ \A x \in HipStreams : x # s => queue'[x] = queue[x]
    BY DEF TypeOK
  <1>3. queue' \in [HipStreams -> Seq(TaskKinds \X Ops)]
    BY <1>1 DEF TypeOK
  <1>4. ASSUME NEW i \in Nat, NEW k \in TaskKinds, NEW o \in Ops
        PROVE  Task(s, i, k, o)' <=> i # 0 /\ Task(s, i + 1, k, o)
    <2>1. /\ Len(queue[s]) \in Nat \ {0} /\ Len(queue'[s]) = Len(queue[s]) - 1
          /\ \A j \in 1..(Len(queue[s]) - 1) : queue'[s][j] = queue[s][j + 1]
      BY <1>1, <1>2, TailPlaces
    <2>2. CASE i \in 1..(Len(queue[s]) - 1)
      BY <2>1, <2>2 DEF Task
    <2>3. CASE i \notin 1..(Len(queue[s]) - 1)
      BY <2>1, <2>3 DEF Task
    <2> QED BY <2>2, <2>3
  <1> QED BY <1>2, <1>3, <1>4 DEF Task

(* The pending tasks, by their places. *)
LEMMA PendingTasks ==
  ASSUME TypeOK, NEW k \in TaskKinds, NEW o \in Ops
  PROVE  <<k, o>> \in Pending <=> \E s \in HipStreams, i \in Nat : Task(s, i, k, o)
  <1>1. \A s \in HipStreams : DOMAIN queue[s] = 1..Len(queue[s]) /\ Len(queue[s]) \in Nat
    BY DEF TypeOK
  <1> QED BY <1>1 DEF Pending, ToSet, Task

(* The running task is the first of its stream. *)
LEMMA RunningIsFirst ==
  ASSUME TypeOK, NEW s \in HipStreams, NEW k, NEW o, Running(s, k, o)
  PROVE  Task(s, 1, k, o) /\ queue[s] # << >>
  BY DEF TypeOK, Running, Task

-----------------------------------------------------------------------------
(* The invariant holds initially. *)
LEMMA InvInit == Init => IInv
  <1> SUFFICES ASSUME Init PROVE IInv
    OBVIOUS
  <1>1. TypeOK
    <2>1. \A o \in Ops : next_task[o] = 1 /\ Len(Tasks(o)) \in {3, 4}
      BY TasksShape DEF Init
    <2>2. ASSUME NEW o \in Ops PROVE next_task[o] <= Len(Tasks(o))
      <3>1. \A n \in {3, 4} : 1 <= n
        OBVIOUS
      <3> QED BY <2>1, <3>1, Zenon
    <2>3. next_task \in [Ops -> 1..4] /\ queue \in [HipStreams -> Seq(TaskKinds \X Ops)]
      BY DEF Init
    <2>4. completed_ops \in Seq(Ops)
      BY DEF Init
    <2>5. /\ registered \in [HipStreams -> StreamObjs \cup {NoStream}]
          /\ host \in [HipStreams -> {"none", "notify", "publish"}]
          /\ draining \in [Ops \cup {COMPLETION} -> SUBSET (TaskKinds \X Ops)]
      BY DEF Init
    <2> QED BY <2>2, <2>3, <2>4, <2>5 DEF Init, TypeOK
  <1>2. \A s \in HipStreams, i \in Nat, k \in TaskKinds, o \in Ops : ~Task(s, i, k, o)
    BY DEF Init, Task
  <1>3. Born /\ Told
    BY ConstantsAssumption DEF Init, Born, Told
  <1>6. Owned
    BY ConstantsAssumption DEF Init, Owned
  <1>4. TasksOfLive /\ Drained
    BY <1>2 DEF TasksOfLive, Drained
  <1>5. Cleanups
    BY <1>2 DEF Init, Cleanups, TaskKinds
  <1> QED BY <1>1, <1>3, <1>4, <1>5, <1>6 DEF IInv

(* A function stays one when one of its values changes. *)
LEMMA Update ==
  ASSUME NEW A, NEW B, NEW f \in [A -> B], NEW a \in A, NEW b \in B
  PROVE  [f EXCEPT ![a] = b] \in [A -> B]
  OBVIOUS

(* Every step keeps the types; the places of the queues come from the       *)
(* lemmas above.                                                            *)
LEMMA TypeStep == IInv /\ [Next]_vars => TypeOK'
  <1> SUFFICES ASSUME IInv, [Next]_vars PROVE TypeOK'
    OBVIOUS
  <1> TypeOK
    BY DEF IInv
  <1> USE DEF TypeOK, mapVars, subVars, monVars, ctVars, opVars
  <1>1. ASSUME NEW o \in Ops, Construct(o) PROVE TypeOK'
    <2>1. next_task[o] = 1
      BY <1>1 DEF Construct, IInv, Born
    <2>2. \A x \in Ops : x # o => Tasks(x)' = Tasks(x)
      BY <1>1 DEF Construct, Tasks
    <2>3. \A x \in Ops : next_task'[x] <= Len(Tasks(x))'
      <3>2. Len(Tasks(o))' >= 1
        BY DEF Tasks
      <3> QED BY <1>1, <2>1, <2>2, <3>2 DEF Construct
    <2> QED BY <1>1, <2>3 DEF Construct, getStream
  <1>2. ASSUME NEW o \in Ops, ConstructThrows(o) PROVE TypeOK'
    BY <1>2 DEF ConstructThrows, Tasks
  <1>3. ASSUME NEW o \in Ops, addOp(o) PROVE TypeOK'
    BY <1>3 DEF addOp, Tasks
  <1>4. ASSUME NEW o \in Ops, DevPtr(o) PROVE TypeOK'
    BY <1>4 DEF DevPtr, Tasks
  <1>5. ASSUME NEW o \in Ops, getLock(o) PROVE TypeOK'
    BY <1>5 DEF getLock, Tasks
  <1>6. ASSUME NEW o \in Ops, EnqueueTask(o) PROVE TypeOK'
    <2>1. Len(Tasks(o)) \in {3, 4} /\ Tasks(o)[next_task[o]] \in TaskKinds
      BY TasksShape
    <2>2. queue' \in [HipStreams -> Seq(TaskKinds \X Ops)]
      BY <1>6, <2>1, EnqueueAdds DEF EnqueueTask
    <2>3. \A x \in Ops : Tasks(x)' = Tasks(x)
      BY <1>6 DEF EnqueueTask, Tasks
    <2>4. next_task' \in [Ops -> 1..4] /\ \A x \in Ops : next_task'[x] <= Len(Tasks(x))
      <3>1. CASE UNCHANGED next_task
        BY <3>1
      <3>2. CASE ~LastTask(o) /\ next_task' = [next_task EXCEPT ![o] = @ + 1]
        <4>1. next_task[o] \in 1..4 /\ next_task[o] <= Len(Tasks(o)) /\ next_task[o] # Len(Tasks(o))
          BY <3>2 DEF LastTask
        <4>2. next_task[o] + 1 \in 1..4 /\ next_task[o] + 1 <= Len(Tasks(o))
          <5> DEFINE n == next_task[o]
                     m == Len(Tasks(o))
          <5>1. n \in 1..4 /\ n <= m /\ n # m /\ m \in {3, 4}
            BY <2>1, <4>1
          <5> HIDE DEF n, m
          <5>2. n + 1 \in 1..4 /\ n + 1 <= m
            BY <5>1
          <5> QED BY <5>2 DEF n, m
        <4> QED BY <3>2, <4>2
      <3> QED BY <1>6, <3>1, <3>2 DEF EnqueueTask
    <2> QED BY <1>6, <2>2, <2>3, <2>4 DEF EnqueueTask
  <1>7. ASSUME NEW o \in Ops, Catch(o) PROVE TypeOK'
    <2>1. queue' \in [HipStreams -> Seq(TaskKinds \X Ops)]
      BY <1>7, EnqueueAdds DEF Catch, TaskKinds
    <2> QED BY <1>7, <2>1 DEF Catch, Tasks
  <1>8. ASSUME NEW o \in Ops, Return(o) PROVE TypeOK'
    <2>1. Pending \in SUBSET (TaskKinds \X Ops)
      BY DEF Pending, ToSet
    <2>2. draining' \in [Ops \cup {COMPLETION} -> SUBSET (TaskKinds \X Ops)]
      <3>1. draining' = draining \/ draining' = [draining EXCEPT ![o] = Pending]
        BY <1>8 DEF Return, hipHostFreeBegin
      <3>2. /\ draining \in [Ops \cup {COMPLETION} -> SUBSET (TaskKinds \X Ops)]
            /\ o \in Ops \cup {COMPLETION}
        OBVIOUS
      <3>3. [draining EXCEPT ![o] = Pending] \in [Ops \cup {COMPLETION} -> SUBSET (TaskKinds \X Ops)]
        BY <2>1, <3>2, Update
      <3> QED BY <3>1, <3>2, <3>3
    <2>3. sub' \in [Ops -> {"start", "built", "added", "ready", "locked", "catch",
                            "returning", "freeing", "done"}]
      <3>1. sub' = [sub EXCEPT ![o] = "done"] \/ sub' = [sub EXCEPT ![o] = "freeing"]
        BY <1>8 DEF Return
      <3> QED BY <3>1
    <2>4. UNCHANGED <<registered, ret, hip_stream, stream, next_task, queue, host, monVars,
                      ctVars, opVars>>
      BY <1>8 DEF Return, mapVars
    <2> QED BY <2>2, <2>3, <2>4 DEF Tasks
  <1>9. ASSUME NEW o \in Ops, SubmitterFrees(o) PROVE TypeOK'
    BY <1>9 DEF SubmitterFrees, Tasks
  <1>10. ASSUME NEW s \in HipStreams, NEW o \in Ops, RunTask(s, o) PROVE TypeOK'
    <2>1. queue' \in [HipStreams -> Seq(TaskKinds \X Ops)]
      BY <1>10, TailRemoves DEF RunTask, Running
    <2> QED BY <1>10, <2>1 DEF RunTask, Tasks
  <1>11. ASSUME NEW s \in HipStreams, NEW o \in Ops, completeOp(s, o) PROVE TypeOK'
    <2>1. queue' \in [HipStreams -> Seq(TaskKinds \X Ops)]
      BY <1>11, TailRemoves DEF completeOp, Running
    <2>2. completed_ops' \in Seq(Ops)
      <3>1. completed_ops' = Append(completed_ops, o) \/ completed_ops' = completed_ops
        BY <1>11 DEF completeOp
      <3>2. completed_ops \in Seq(Ops)
        OBVIOUS
      <3> HIDE DEF TypeOK
      <3> QED BY <3>1, <3>2
    <2>4. host' \in [HipStreams -> {"none", "notify", "publish"}]
      <3>1. host' = [host EXCEPT ![s] = "notify"] \/ host' = host
        BY <1>11 DEF completeOp
      <3> QED BY <3>1
    <2>3. pins' \in SUBSET Ops /\ published' \in SUBSET Ops
      BY <1>11 DEF completeOp, resetReferences
    <2> QED BY <1>11, <2>1, <2>2, <2>3, <2>4 DEF completeOp, Tasks
  <1>12. ASSUME NEW s \in HipStreams, NEW o \in Ops, async_io_cleanup(s, o) PROVE TypeOK'
    <2>1. queue' \in [HipStreams -> Seq(TaskKinds \X Ops)]
      BY <1>12, TailRemoves DEF async_io_cleanup, Running
    <2> QED BY <1>12, <2>1 DEF async_io_cleanup, Tasks
  <1>13. ASSUME NEW s \in HipStreams, completeOpNotify(s) PROVE TypeOK'
    BY <1>13 DEF completeOpNotify, notify_one, Tasks
  <1>14. ASSUME NEW s \in HipStreams, StreamRegister(s) \/ StreamDeregister(s) PROVE TypeOK'
    BY <1>14 DEF StreamRegister, StreamDeregister, Tasks
  <1>15. CASE CtTake
    <2>1. Last(completed_ops) \in Ops /\ Front(completed_ops) \in Seq(Ops)
      BY <1>15 DEF CtTake, Last, Front
    <2> QED BY <1>15, <2>1 DEF CtTake, Tasks
  <1>16. CASE CtLock \/ CtWait \/ CtExit
    BY <1>16 DEF CtLock, CtWait, CtExit, Tasks
  <1>17. CASE CtDrop
    <2>1. Pending \in SUBSET (TaskKinds \X Ops)
      BY DEF Pending, ToSet
    <2> QED BY <1>17, <2>1 DEF CtDrop, hipHostFreeBegin, Tasks
  <1>18. CASE CtFree
    BY <1>18 DEF CtFree, Tasks
  <1>19. CASE Finish \/ FinishNotify
    BY <1>19 DEF Finish, FinishNotify, notify_one, Tasks
  <1>20. CASE UNCHANGED vars
    BY <1>20 DEF vars, Tasks
  <1> QED BY <1>1, <1>2, <1>3, <1>4, <1>5, <1>6, <1>7, <1>8, <1>9, <1>10, <1>11, <1>12, <1>13,
             <1>14, <1>15, <1>16, <1>17, <1>18, <1>19, <1>20
          DEF Next, Submitter, HipStream, CompletionThread

-----------------------------------------------------------------------------
(* The parts of the invariant besides the types. *)
Parts == Born /\ Owned /\ TasksOfLive /\ Cleanups /\ Told /\ Drained

(* A step that moves no operation, at most the mutex, the completion thread *)
(* while it owns nothing, or a host function past its notify_one.           *)
LEMMA QuietKeeps ==
  ASSUME IInv,
         UNCHANGED <<sub, ret, hip_stream, next_task, queue, submitted_ops, completed_ops,
                     ct_op, draining, mem, pins, published>>,
         \A s \in HipStreams : host'[s] = "none" <=> host[s] = "none",
         ct' = ct \/ {ct, ct'} \cap {"drop", "freeing"} = {}
  PROVE  Parts'
  <1>1. \A s \in HipStreams, i \in Nat, k \in TaskKinds, o \in Ops :
          Task(s, i, k, o)' <=> Task(s, i, k, o)
    BY DEF Task
  <1>2. Born'
    BY DEF IInv, Born
  <1>3. Owned'
    BY DEF IInv, Owned
  <1>4. TasksOfLive'
    BY <1>1 DEF IInv, TasksOfLive
  <1>5. Cleanups'
    BY <1>1 DEF IInv, Cleanups, Started, TaskKinds
  <1>6. Told'
    BY <1>1 DEF IInv, TypeOK, Told, TaskKinds
  <1>7. Drained'
    BY <1>1 DEF IInv, Drained
  <1> QED BY <1>2, <1>3, <1>4, <1>5, <1>6, <1>7 DEF Parts

(* A step of the submitter o before it enqueues anything: the other         *)
(* operations stay as they are, and o has no tasks.                         *)
LEMMA SubmitterKeeps ==
  ASSUME IInv, NEW o \in Ops,
         Construct(o) \/ ConstructThrows(o) \/ addOp(o) \/ DevPtr(o) \/ getLock(o)
  PROVE  Parts'
  <1> USE DEF IInv
  <1>1. /\ UNCHANGED <<hip_stream, next_task, queue, host, completed_ops, ct, ct_op, draining, published>>
        /\ submitted_ops' \in SUBSET Ops
        /\ \A x \in Ops : x # o =>
             /\ sub'[x] = sub[x] /\ ret'[x] = ret[x] /\ mem'[x] = mem[x]
             /\ x \in pins' <=> x \in pins
             /\ x \in submitted_ops' <=> x \in submitted_ops
    BY DEF TypeOK, Construct, ConstructThrows, addOp, DevPtr, getLock, mapVars, monVars, ctVars, opVars
  <1>2. sub[o] \in {"start", "built", "added", "ready"}
    BY DEF Construct, ConstructThrows, addOp, DevPtr, getLock
  <1>3. sub[o] = "start" =>
          /\ submitted_ops' = submitted_ops
          /\ \/ sub'[o] = "built" /\ ret'[o] = ret[o] /\ mem'[o] = "live" /\ o \in pins'
             \/ sub'[o] = "done" /\ ret'[o] = "error" /\ mem'[o] = mem[o] /\ pins' = pins
    BY DEF TypeOK, Construct, ConstructThrows, addOp, DevPtr, getLock, monVars, opVars
  <1>4. sub[o] # "start" =>
          /\ mem' = mem /\ pins' = pins
          /\ \/ sub[o] = "built" /\ sub'[o] = "added" /\ o \in submitted_ops' /\ ret'[o] = ret[o]
             \/ /\ sub[o] # "built" /\ submitted_ops' = submitted_ops
                /\ \/ sub'[o] \in {"ready", "locked", "catch"} /\ ret'[o] = ret[o]
                   \/ sub'[o] = "returning" /\ ret'[o] = "leaked"
    BY DEF TypeOK, Construct, ConstructThrows, addOp, DevPtr, getLock, monVars, opVars
  <1>5. \A s \in HipStreams, i \in Nat, k \in TaskKinds, x \in Ops :
          Task(s, i, k, x)' <=> Task(s, i, k, x)
    BY <1>1 DEF Task
  <1>6. \A s \in HipStreams, i \in Nat, k \in TaskKinds : ~Task(s, i, k, o)
    BY <1>2 DEF TasksOfLive
  <1>7. Born'
    BY <1>1, <1>2, <1>3, <1>4 DEF Born
  <1>8. Owned'
    <2>1. \A i \in 1..Len(completed_ops) : completed_ops[i] \in Ops /\ completed_ops[i] # o
      BY <1>2, <1>3, <1>4 DEF Owned, Born, TypeOK
    <2>2. ct_op # o /\ ct_op \in Ops \cup {NoOp}
      BY <1>2, ConstantsAssumption DEF Owned, Born, TypeOK
    <2>3. \A x \in submitted_ops' : mem'[x] = "live" /\ ct_op' # x /\ sub'[x] # "freeing"
      BY <1>1, <1>2, <1>3, <1>4, <2>2 DEF Owned, Born, TypeOK
    <2>4. \A x \in Ops :
            /\ sub'[x] = "freeing" => mem'[x] = "live"
            /\ mem'[x] = "freed" => sub'[x] = "done"
      BY <1>1, <1>2, <1>3, <1>4 DEF Owned, Born
    <2>5. \A i \in 1..Len(completed_ops) :
            completed_ops[i] \in submitted_ops' /\ completed_ops[i] \notin pins'
      BY <1>1, <2>1 DEF Owned
    <2>6. ct_op # NoOp =>
            /\ sub'[ct_op] = sub[ct_op] /\ mem'[ct_op] = mem[ct_op]
            /\ ct_op \in pins' <=> ct_op \in pins
      BY <1>1, <2>2
    <2>7. UNCHANGED <<completed_ops, ct_op, ct>>
      BY <1>1
    <2> QED BY <2>3, <2>4, <2>5, <2>6, <2>7 DEF Owned
  <1>9. TasksOfLive'
    BY <1>1, <1>5, <1>6 DEF TasksOfLive
  <1>10. Cleanups'
    BY <1>1, <1>5, <1>6 DEF Cleanups, Started, TaskKinds
  <1>11. Told'
    <2>1. ASSUME NEW x \in Ops, x # o
          PROVE  /\ x \in published' => x \notin pins'
                 /\ mem'[x] # "none" /\ x \notin pins' /\ x \notin published' =>
                      Task(hip_stream[x], 1, "cleanup", x)' /\ host'[hip_stream[x]] # "none"
                 /\ ret'[x] = "leaked" => x \in pins'
                 /\ ret'[x] = "none" <=> sub'[x] \notin {"returning", "freeing", "done"}
      BY <1>1, <1>5, <2>1 DEF Told, TaskKinds, TypeOK
    <2>2. /\ o \in published' => o \notin pins'
          /\ mem'[o] # "none" => o \in pins'
          /\ ret'[o] = "leaked" => o \in pins'
          /\ ret'[o] = "none" <=> sub'[o] \notin {"returning", "freeing", "done"}
      BY <1>1, <1>2, <1>3, <1>4 DEF Told, Born, TypeOK
    <2> QED BY <1>1, <2>1, <2>2 DEF Told
  <1>12. Drained'
    BY <1>1, <1>5, <1>6 DEF Drained
  <1> QED BY <1>7, <1>8, <1>9, <1>10, <1>11, <1>12 DEF Parts

(* What is known of an operation whose submitter is in the try block or in  *)
(* its handler: it is submitted, nothing has completed it, and its cleanup  *)
(* is not enqueued.                                                         *)
LEMMA WhileSubmitting ==
  ASSUME IInv, NEW o \in Ops, sub[o] \in {"locked", "catch"}
  PROVE  /\ o \in pins /\ o \in submitted_ops /\ o \notin published
         /\ mem[o] = "live" /\ ct_op # o /\ ret[o] = "none"
         /\ \A i \in 1..Len(completed_ops) : completed_ops[i] # o
         /\ \A s \in HipStreams, i \in Nat : ~Task(s, i, "cleanup", o)
  <1>1. o \in pins /\ o \in submitted_ops /\ mem[o] = "live" /\ ct_op # o
    BY DEF IInv, Born, Owned
  <1>2. ret[o] = "none" /\ o \notin published
    BY <1>1 DEF IInv, Told
  <1>3. \A i \in 1..Len(completed_ops) : completed_ops[i] # o
    BY <1>1 DEF IInv, Owned
  <1>4. \A s \in HipStreams, i \in Nat : ~Task(s, i, "cleanup", o)
    BY DEF IInv, Cleanups
  <1> QED BY <1>1, <1>2, <1>3, <1>4

(* The submitter moves on, and enqueues a task or does not. *)
LEMMA EnqueueKeeps ==
  ASSUME IInv, NEW o \in Ops, sub[o] \in {"locked", "catch"},
         NEW v, NEW r, NEW k \in TaskKinds,
         sub' = [sub EXCEPT ![o] = v], ret' = [ret EXCEPT ![o] = r],
         UNCHANGED <<hip_stream, host, submitted_ops, completed_ops, ct, ct_op, draining, opVars>>,
         \A x \in Ops : x # o => next_task'[x] = next_task[x],
         \/ Enqueue(k, o) /\ k # "cleanup" /\ v = "locked" /\ r = "none"
         \/ Enqueue(k, o) /\ k = "cleanup" /\ v = "returning" /\ r \in {"success", "error"}
         \/ queue' = queue /\ v = "catch" /\ r = "none"
         \/ queue' = queue /\ v = "returning" /\ r = "leaked"
  PROVE  Parts'
  <1> DEFINE New(s, i, k2, x) == /\ queue' # queue /\ s = hip_stream[o] /\ i = Len(queue[s]) + 1
                                 /\ k2 = k /\ x = o
  <1>1. UNCHANGED <<mem, pins, published>>
    BY DEF opVars
  <1>2. /\ sub'[o] = v /\ ret'[o] = r
        /\ \A x \in Ops : x # o => sub'[x] = sub[x] /\ ret'[x] = ret[x]
    BY DEF IInv, TypeOK
  <1>3. \A s \in HipStreams, i \in Nat, k2 \in TaskKinds, x \in Ops :
          Task(s, i, k2, x)' <=> Task(s, i, k2, x) \/ New(s, i, k2, x)
    <2>1. CASE queue' = queue
      BY <2>1 DEF Task
    <2>2. CASE Enqueue(k, o)
      <3>1. queue' # queue
        BY <2>2, EnqueueChanges DEF IInv
      <3> QED BY <2>2, <3>1, EnqueueAdds DEF IInv
    <2> QED BY <2>1, <2>2
  <1>4. /\ o \in pins /\ o \in submitted_ops /\ o \notin published
        /\ mem[o] = "live" /\ ct_op # o /\ ret[o] = "none"
        /\ \A i \in 1..Len(completed_ops) : completed_ops[i] # o
        /\ \A s \in HipStreams, i \in Nat : ~Task(s, i, "cleanup", o)
    BY WhileSubmitting
  <1>5. v \in {"locked", "catch", "returning"}
    OBVIOUS
  <1>6. Born'
    BY <1>1, <1>2, <1>4, <1>5 DEF IInv, Born
  <1>7. Owned'
    <2>1. \A x \in submitted_ops : x \in Ops
      BY DEF IInv, TypeOK
    <2>2. ct_op # NoOp => ct_op \in Ops /\ ct_op # o
      BY <1>4 DEF IInv, TypeOK
    <2> QED BY <1>1, <1>2, <1>4, <1>5, <2>1, <2>2 DEF IInv, Owned
  <1>8. TasksOfLive'
    BY <1>1, <1>2, <1>3, <1>4, <1>5 DEF IInv, TasksOfLive
  <1>9. Cleanups'
    <2>1. \A s \in HipStreams : host'[s] # "none" => \E x \in Ops : Task(s, 1, "cleanup", x)'
      BY <1>3 DEF IInv, Cleanups, TaskKinds
    <2>2. ASSUME NEW s \in HipStreams, NEW i \in Nat, NEW x \in Ops, Task(s, i, "cleanup", x), x # o
          PROVE  /\ sub'[x] \in {"returning", "freeing", "done"} /\ ret'[x] # "leaked"
                 /\ x \notin published' /\ (x \in pins' <=> ~Started(s, i)')
                 /\ \A j \in Nat : Task(s, j, "cleanup", x)' => i = j
      BY <1>1, <1>2, <1>3, <2>2 DEF IInv, Cleanups, TaskKinds, Started
    <2>3. ASSUME NEW s \in HipStreams, NEW i \in Nat, New(s, i, "cleanup", o)
          PROVE  /\ sub'[o] \in {"returning", "freeing", "done"} /\ ret'[o] # "leaked"
                 /\ o \notin published' /\ (o \in pins' <=> ~Started(s, i)')
                 /\ \A j \in Nat : Task(s, j, "cleanup", o)' => i = j
      <3>1. v = "returning" /\ r # "leaked"
        BY <2>3
      <3>2. ~Started(s, i)
        <4>1. SUFFICES ASSUME i = 1, host[s] # "none" PROVE FALSE
          BY DEF Started
        <4>2. Len(queue[s]) = 0
          BY <2>3, <4>1 DEF IInv, TypeOK
        <4> QED BY <4>1, <4>2 DEF IInv, Cleanups, Task
      <3>3. \A j \in Nat : Task(s, j, "cleanup", o)' => i = j
        BY <1>3, <1>4, <2>3 DEF TaskKinds
      <3> QED BY <1>1, <1>2, <1>4, <3>1, <3>2, <3>3 DEF Started
    <2>4. \A s \in HipStreams, i \in Nat, x \in Ops :
            Task(s, i, "cleanup", x)' => \/ Task(s, i, "cleanup", x) /\ x # o
                                         \/ New(s, i, "cleanup", o) /\ x = o
      BY <1>3, <1>4 DEF TaskKinds
    <2> HIDE DEF New
    <2> QED BY <2>1, <2>2, <2>3, <2>4 DEF Cleanups
  <1>10. Told'
    <2>1. \A x \in Ops : Task(hip_stream[x], 1, "cleanup", x) => Task(hip_stream[x], 1, "cleanup", x)'
      BY <1>3 DEF IInv, TypeOK, TaskKinds
    <2> QED BY <1>1, <1>2, <1>4, <2>1 DEF IInv, Told
  <1>11. Drained'
    BY <1>2, <1>3, <1>4, <1>5 DEF IInv, Drained
  <1> QED BY <1>6, <1>7, <1>8, <1>9, <1>10, <1>11 DEF Parts

(* async_io returns: the reference goes, and with the last one the caller   *)
(* becomes the one that frees.                                              *)
LEMMA ReturnKeeps ==
  ASSUME IInv, NEW o \in Ops, Return(o)
  PROVE  Parts'
  <1>1. /\ sub[o] = "returning"
        /\ UNCHANGED <<ret, hip_stream, next_task, queue, host, submitted_ops, completed_ops, ct, ct_op,
                       mem, pins, published>>
    BY DEF Return, mapVars, monVars, ctVars, opVars
  <1>2. /\ sub'[o] \in {"freeing", "done"}
        /\ \A x \in Ops : x # o => sub'[x] = sub[x]
        /\ sub'[o] = "freeing" => o \notin submitted_ops /\ ct_op # o
    BY DEF Return, IInv, TypeOK
  <1>3. /\ \A x \in Ops : x # o => draining'[x] = draining[x]
        /\ draining'[COMPLETION] = draining[COMPLETION]
        /\ sub'[o] = "freeing" => draining'[o] = Pending
    BY ConstantsAssumption DEF Return, hipHostFreeBegin, IInv, TypeOK
  <1>4. \A s \in HipStreams, i \in Nat, k \in TaskKinds, x \in Ops :
          Task(s, i, k, x)' <=> Task(s, i, k, x)
    BY <1>1 DEF Task
  <1>5. mem[o] = "live" /\ (sub'[o] = "freeing" => o \notin pins)
    BY <1>1, <1>2 DEF IInv, TypeOK, Born, Owned
  <1>6. Born'
    BY <1>1, <1>2, <1>5 DEF IInv, Born
  <1>7. Owned'
    <2>1. \A x \in submitted_ops : x \in Ops
      BY DEF IInv, TypeOK
    <2>2. ct_op # NoOp => ct_op \in Ops
      BY DEF IInv, TypeOK
    <2> QED BY <1>1, <1>2, <1>5, <2>1, <2>2 DEF IInv, Owned
  <1>8. TasksOfLive'
    BY <1>1, <1>2, <1>4 DEF IInv, TasksOfLive
  <1>9. Cleanups'
    BY <1>1, <1>2, <1>4 DEF IInv, Cleanups, Started, TaskKinds
  <1>10. Told'
    BY <1>1, <1>2, <1>4 DEF IInv, TypeOK, Told, TaskKinds
  <1>11. Drained'
    <2>1. \A s \in HipStreams, i \in Nat, k \in TaskKinds : Task(s, i, k, o) => <<k, o>> \in Pending
      BY PendingTasks DEF IInv
    <2> QED BY <1>1, <1>2, <1>3, <1>4, <2>1 DEF IInv, Drained
  <1> QED BY <1>6, <1>7, <1>8, <1>9, <1>10, <1>11 DEF Parts

(* What is freed was published: no task of it is left.                      *)
LEMMA NothingPending ==
  ASSUME IInv, NEW o \in Ops, NEW c,
         \/ c = o /\ sub[o] = "freeing"
         \/ c = COMPLETION /\ ct = "freeing" /\ ct_op = o,
         hipHostFreeReady(c)
  PROVE  /\ \A s \in HipStreams, i \in Nat, k \in TaskKinds : ~Task(s, i, k, o)
         /\ mem[o] = "live" /\ o \notin pins /\ o \in published
  <1>1. \A s \in HipStreams, i \in Nat, k \in TaskKinds : Task(s, i, k, o) =>
          <<k, o>> \in Pending /\ <<k, o>> \in draining[c]
    BY PendingTasks DEF IInv, Drained
  <1>2. \A s \in HipStreams, i \in Nat, k \in TaskKinds : ~Task(s, i, k, o)
    BY <1>1 DEF hipHostFreeReady
  <1>3. mem[o] = "live" /\ o \notin pins
    BY ConstantsAssumption DEF IInv, Born, Owned
  <1>4. o \in published
    BY <1>2, <1>3 DEF IInv, Told, TypeOK, TaskKinds
  <1> QED BY <1>2, <1>3, <1>4

(* hipHostFree returns, in the submitter or in the completion thread. *)
LEMMA FreeKeeps ==
  ASSUME IInv, NEW o \in Ops,
         \/ SubmitterFrees(o)
         \/ CtFree /\ o = ct_op
  PROVE  Parts'
  <1>1. /\ UNCHANGED <<ret, hip_stream, next_task, queue, host, submitted_ops, completed_ops, pins, published>>
        /\ mem'[o] = "freed" /\ sub'[o] = "done"
        /\ \A x \in Ops : x # o => mem'[x] = mem[x] /\ sub'[x] = sub[x]
    BY DEF SubmitterFrees, CtFree, mapVars, subVars, monVars, IInv, TypeOK, Owned
  <1>2. \/ sub[o] = "freeing" /\ hipHostFreeReady(o) /\ ct' = ct /\ ct_op' = ct_op
        \/ ct = "freeing" /\ ct_op = o /\ hipHostFreeReady(COMPLETION) /\ ct' = "loop" /\ ct_op' = NoOp
    BY DEF SubmitterFrees, CtFree, ctVars
  <1>3. /\ \A s \in HipStreams, i \in Nat, k \in TaskKinds : ~Task(s, i, k, o)
        /\ mem[o] = "live" /\ o \notin pins /\ o \in published
    BY <1>2, NothingPending
  <1>4. o \notin submitted_ops /\ (ct_op' # NoOp => ct_op' # o /\ ct_op' = ct_op)
    BY <1>2, ConstantsAssumption DEF IInv, Owned
  <1>5. \A s \in HipStreams, i \in Nat, k \in TaskKinds, x \in Ops :
          Task(s, i, k, x)' <=> Task(s, i, k, x)
    BY <1>1 DEF Task
  <1>6. \A x \in Ops : x # o =>
          /\ sub[x] = "freeing" => draining'[x] = draining[x]
          /\ ct' = "freeing" => ct = "freeing" /\ draining'[COMPLETION] = draining[COMPLETION]
    BY ConstantsAssumption DEF SubmitterFrees, CtFree, ctVars, IInv, TypeOK
  <1>7. Born'
    BY <1>1, <1>3, <1>4, ConstantsAssumption DEF IInv, Born
  <1>8. Owned'
    <2>1. \A x \in submitted_ops : x \in Ops /\ x # o
      BY <1>4 DEF IInv, TypeOK
    <2>2. ct_op # NoOp => ct_op \in Ops
      BY DEF IInv, TypeOK
    <2>3. ct_op' # NoOp <=> ct' \in {"drop", "freeing"}
      BY <1>2 DEF IInv, Owned
    <2>4. \A x \in submitted_ops : ct_op' # x
      BY <1>2, <2>1, ConstantsAssumption DEF IInv, Owned
    <2> QED BY <1>1, <1>2, <1>4, <2>1, <2>2, <2>3, <2>4 DEF IInv, Owned
  <1>9. TasksOfLive'
    BY <1>1, <1>3, <1>5 DEF IInv, TasksOfLive
  <1>10. Cleanups'
    BY <1>1, <1>3, <1>5 DEF IInv, Cleanups, Started, TaskKinds
  <1>11. Told'
    <2>1. \A x \in Ops : Task(hip_stream[x], 1, "cleanup", x) => Task(hip_stream[x], 1, "cleanup", x)'
      BY <1>1, <1>5 DEF IInv, TypeOK, TaskKinds
    <2>2. ret[o] \notin {"none", "leaked"}
      BY <1>2, <1>3 DEF IInv, Told, Owned
    <2> QED BY <1>1, <1>3, <2>1, <2>2 DEF IInv, Told
  <1>12. Drained'
    BY <1>1, <1>2, <1>3, <1>4, <1>5, <1>6 DEF IInv, Drained
  <1> QED BY <1>7, <1>8, <1>9, <1>10, <1>11, <1>12 DEF Parts

(* A bind or copy task returns: the stream goes on to the next one.         *)
LEMMA RunTaskKeeps ==
  ASSUME IInv, NEW s \in HipStreams, NEW o \in Ops, RunTask(s, o)
  PROVE  Parts'
  <1>1. /\ UNCHANGED <<sub, ret, hip_stream, next_task, host, submitted_ops, completed_ops, ct, ct_op,
                       draining, mem, pins, published>>
        /\ queue[s] # << >> /\ queue' = [queue EXCEPT ![s] = Tail(@)]
    BY DEF RunTask, Running, mapVars, subVars, monVars, ctVars, opVars
  <1>2. PICK k0 \in {"bind", "copy1", "copy2"} : Task(s, 1, k0, o)
    BY RunningIsFirst DEF RunTask, IInv
  <1>3. /\ \A i \in Nat, k \in TaskKinds, x \in Ops : Task(s, i, k, x)' <=> i # 0 /\ Task(s, i + 1, k, x)
        /\ \A s2 \in HipStreams, i \in Nat, k \in TaskKinds, x \in Ops :
             s2 # s => (Task(s2, i, k, x)' <=> Task(s2, i, k, x))
    BY <1>1, TailRemoves DEF IInv
  <1>4. \A s2 \in HipStreams, i \in Nat, k \in TaskKinds, x \in Ops :
          Task(s2, i, k, x)' => \E j \in Nat : Task(s2, j, k, x)
    BY <1>3
  <1>5. host[s] = "none"
    <2>1. \A x \in Ops : ~Task(s, 1, "cleanup", x)
      BY <1>2 DEF Task
    <2> QED BY <2>1 DEF IInv, Cleanups
  <1>6. Born' /\ Owned'
    BY <1>1 DEF IInv, Born, Owned
  <1>7. TasksOfLive'
    BY <1>1, <1>4 DEF IInv, TasksOfLive
  <1>8. Cleanups'
    <2>1. \A s2 \in HipStreams : host'[s2] # "none" => \E x \in Ops : Task(s2, 1, "cleanup", x)'
      BY <1>1, <1>3, <1>5 DEF IInv, Cleanups, TaskKinds
    <2>2. ASSUME NEW s2 \in HipStreams, NEW i \in Nat, NEW x \in Ops, Task(s2, i, "cleanup", x)'
          PROVE  /\ sub[x] \in {"returning", "freeing", "done"} /\ ret[x] # "leaked"
                 /\ x \notin published /\ (x \in pins <=> ~Started(s2, i))
                 /\ \A j \in Nat : Task(s2, j, "cleanup", x)' => i = j
      <3>1. CASE s2 = s
        <4>1. i # 0 /\ Task(s, i + 1, "cleanup", x)
          BY <1>3, <2>2, <3>1 DEF TaskKinds
        <4>2. ~Started(s, i) /\ ~Started(s, i + 1)
          BY <1>5 DEF Started
        <4>3. \A j \in Nat : Task(s, j, "cleanup", x)' => i = j
          <5>1. \A m \in Nat : Task(s, m, "cleanup", x) => m = i + 1
            BY <4>1 DEF IInv, Cleanups
          <5>2. \A j \in Nat : Task(s, j, "cleanup", x)' => Task(s, j + 1, "cleanup", x)
            BY <1>3 DEF TaskKinds
          <5>3. \A j \in Nat : j + 1 \in Nat /\ (j + 1 = i + 1 => i = j)
            OBVIOUS
          <5> QED BY <5>1, <5>2, <5>3
        <4> QED BY <3>1, <4>1, <4>2, <4>3 DEF IInv, Cleanups
      <3>2. CASE s2 # s
        BY <1>3, <2>2, <3>2 DEF IInv, Cleanups, TaskKinds
      <3> QED BY <3>1, <3>2
    <2> QED BY <1>1, <2>1, <2>2 DEF Cleanups, Started
  <1>9. Told'
    <2>1. \A x \in Ops : host[hip_stream[x]] # "none" /\ Task(hip_stream[x], 1, "cleanup", x)
            => Task(hip_stream[x], 1, "cleanup", x)'
      BY <1>1, <1>3, <1>5 DEF IInv, TypeOK, TaskKinds
    <2> QED BY <1>1, <2>1 DEF IInv, Told
  <1>10. Drained'
    BY <1>1, <1>4 DEF IInv, Drained
  <1> QED BY <1>6, <1>7, <1>8, <1>9, <1>10 DEF Parts

(* A cleanup that has not run completeOp finds its operation submitted: the *)
(* internal error of completeOp is never reported.                          *)
LEMMA CompleteFinds ==
  ASSUME IInv, NEW s \in HipStreams, NEW o \in Ops, Running(s, "cleanup", o), host[s] = "none"
  PROVE  /\ Task(s, 1, "cleanup", o) /\ o \in pins /\ o \in submitted_ops /\ mem[o] = "live"
         /\ sub[o] \in {"returning", "done"} /\ ret[o] # "leaked" /\ s = hip_stream[o]
  <1>1. Task(s, 1, "cleanup", o)
    BY RunningIsFirst DEF IInv
  <1>2. /\ o \in pins /\ sub[o] \in {"returning", "freeing", "done"} /\ ret[o] # "leaked"
        /\ s = hip_stream[o]
    BY <1>1 DEF IInv, Cleanups, Started, TasksOfLive, TaskKinds
  <1> QED BY <1>1, <1>2 DEF IInv, Born

(* completeOp hands the operation over and drops its references. *)
LEMMA CompleteKeeps ==
  ASSUME IInv, NEW s \in HipStreams, NEW o \in Ops, completeOp(s, o)
  PROVE  Parts'
  <1>1. /\ Task(s, 1, "cleanup", o) /\ o \in pins /\ o \in submitted_ops /\ mem[o] = "live"
        /\ sub[o] \in {"returning", "done"} /\ ret[o] # "leaked" /\ s = hip_stream[o]
        /\ host[s] = "none"
    BY CompleteFinds DEF completeOp
  <1>2. /\ UNCHANGED <<sub, ret, hip_stream, next_task, queue, submitted_ops, ct, ct_op, draining, mem,
                       published>>
        /\ pins' = pins \ {o} /\ completed_ops' = Append(completed_ops, o)
        /\ host' = [host EXCEPT ![s] = "notify"]
    BY <1>1 DEF completeOp, resetReferences, mapVars, subVars, ctVars
  <1>3. \A s2 \in HipStreams, i \in Nat, k \in TaskKinds, x \in Ops :
          Task(s2, i, k, x)' <=> Task(s2, i, k, x)
    BY <1>2 DEF Task
  <1>4. host'[s] # "none" /\ \A s2 \in HipStreams : s2 # s => host'[s2] = host[s2]
    BY <1>2 DEF IInv, TypeOK
  <1>5. /\ Len(completed_ops') = Len(completed_ops) + 1 /\ Len(completed_ops) \in Nat
        /\ completed_ops'[Len(completed_ops) + 1] = o
        /\ \A i \in 1..Len(completed_ops) :
             completed_ops'[i] = completed_ops[i] /\ completed_ops[i] # o
    <2>1. completed_ops \in Seq(Ops) /\ \A i \in 1..Len(completed_ops) : completed_ops[i] # o
      BY <1>1 DEF IInv, TypeOK, Owned
    <2> QED BY <1>2, <2>1
  <1>6. Born'
    BY <1>1, <1>2 DEF IInv, Born
  <1>7. Owned'
    <2>1. \A i, j \in 1..Len(completed_ops') : completed_ops'[i] = completed_ops'[j] => i = j
      <3>1. \A i \in 1..Len(completed_ops') : i \in 1..Len(completed_ops) \/ i = Len(completed_ops) + 1
        BY <1>5
      <3> QED BY <1>5, <3>1 DEF IInv, Owned
    <2>2. \A i \in 1..Len(completed_ops') :
            completed_ops'[i] \in submitted_ops /\ completed_ops'[i] \notin pins'
      BY <1>1, <1>2, <1>5 DEF IInv, Owned
    <2>3. ct_op # o
      BY <1>1, ConstantsAssumption DEF IInv, Owned
    <2> QED BY <1>2, <2>1, <2>2, <2>3 DEF IInv, Owned
  <1>8. TasksOfLive'
    BY <1>2, <1>3 DEF IInv, TasksOfLive
  <1>9. Cleanups'
    <2>1. \A s2 \in HipStreams : host'[s2] # "none" => \E x \in Ops : Task(s2, 1, "cleanup", x)'
      BY <1>1, <1>3, <1>4 DEF IInv, Cleanups, TaskKinds
    <2>2. ASSUME NEW s2 \in HipStreams, NEW i \in Nat, NEW x \in Ops, Task(s2, i, "cleanup", x)
          PROVE  x \in pins' <=> ~Started(s2, i)'
      <3>1. CASE x = o
        <4>1. s2 = s /\ i = 1
          BY <1>1, <2>2, <3>1 DEF IInv, Cleanups, TasksOfLive, TaskKinds
        <4> QED BY <1>2, <1>4, <3>1, <4>1 DEF Started
      <3>2. CASE x # o
        <4>1. ~(s2 = s /\ i = 1)
          BY <1>1, <2>2, <3>2 DEF Task
        <4>2. Started(s2, i)' <=> Started(s2, i)
          BY <1>1, <1>4, <4>1 DEF Started
        <4> QED BY <1>2, <2>2, <3>2, <4>2 DEF IInv, Cleanups
      <3> QED BY <3>1, <3>2
    <2> QED BY <1>2, <1>3, <2>1, <2>2 DEF IInv, Cleanups, TaskKinds
  <1>10. Told'
    <2>1. o \in published <=> FALSE
      BY <1>1 DEF IInv, Told
    <2>2. \A x \in Ops : Task(hip_stream[x], 1, "cleanup", x)' <=> Task(hip_stream[x], 1, "cleanup", x)
      BY <1>2, <1>3 DEF IInv, TypeOK, TaskKinds
    <2>3. \A x \in Ops : host[hip_stream[x]] # "none" => host'[hip_stream[x]] # "none"
      BY <1>4 DEF IInv, TypeOK
    <2> QED BY <1>1, <1>2, <1>4, <2>1, <2>2, <2>3 DEF IInv, Told
  <1>11. Drained'
    BY <1>2, <1>3 DEF IInv, Drained
  <1> QED BY <1>6, <1>7, <1>8, <1>9, <1>10, <1>11 DEF Parts

(* async_io_cleanup publishes and returns. *)
LEMMA CleanupKeeps ==
  ASSUME IInv, NEW s \in HipStreams, NEW o \in Ops, async_io_cleanup(s, o)
  PROVE  Parts'
  <1>1. /\ UNCHANGED <<sub, ret, hip_stream, next_task, submitted_ops, completed_ops, ct, ct_op,
                       draining, mem, pins>>
        /\ queue[s] # << >> /\ queue' = [queue EXCEPT ![s] = Tail(@)]
        /\ published' = published \cup {o} /\ host' = [host EXCEPT ![s] = "none"]
        /\ host[s] # "none"
    BY DEF async_io_cleanup, Running, mapVars, subVars, monVars, ctVars
  <1>2. Task(s, 1, "cleanup", o)
    BY RunningIsFirst DEF async_io_cleanup, IInv
  <1>3. /\ \A i \in Nat, k \in TaskKinds, x \in Ops : Task(s, i, k, x)' <=> i # 0 /\ Task(s, i + 1, k, x)
        /\ \A s2 \in HipStreams, i \in Nat, k \in TaskKinds, x \in Ops :
             s2 # s => (Task(s2, i, k, x)' <=> Task(s2, i, k, x))
    BY <1>1, TailRemoves DEF IInv
  <1>4. \A s2 \in HipStreams, i \in Nat, k \in TaskKinds, x \in Ops :
          Task(s2, i, k, x)' => \E j \in Nat : Task(s2, j, k, x)
    BY <1>3
  <1>5. host'[s] = "none" /\ \A s2 \in HipStreams : s2 # s => host'[s2] = host[s2]
    BY <1>1 DEF IInv, TypeOK
  <1>6. o \notin pins /\ s = hip_stream[o] /\ mem[o] = "live"
    BY <1>1, <1>2 DEF IInv, Cleanups, Started, TasksOfLive, TaskKinds
  <1>7. Born' /\ Owned'
    BY <1>1, <1>6 DEF IInv, Born, Owned
  <1>8. TasksOfLive'
    BY <1>1, <1>4 DEF IInv, TasksOfLive
  <1>9. Cleanups'
    <2>1. \A s2 \in HipStreams : host'[s2] # "none" => \E x \in Ops : Task(s2, 1, "cleanup", x)'
      BY <1>3, <1>5 DEF IInv, Cleanups, TaskKinds
    <2>2. ASSUME NEW s2 \in HipStreams, NEW i \in Nat, NEW x \in Ops, Task(s2, i, "cleanup", x)'
          PROVE  /\ sub[x] \in {"returning", "freeing", "done"} /\ ret[x] # "leaked"
                 /\ x \notin published' /\ (x \in pins <=> ~Started(s2, i)')
                 /\ \A j \in Nat : Task(s2, j, "cleanup", x)' => i = j
      <3>1. CASE s2 = s
        <4>1. i # 0 /\ i + 1 \in Nat /\ i + 1 # 1 /\ Task(s, i + 1, "cleanup", x)
          BY <1>3, <2>2, <3>1 DEF TaskKinds
        <4>2. ~Started(s, i)' /\ ~Started(s, i + 1)
          BY <1>5, <4>1 DEF Started
        <4>3. x # o
          BY <1>2, <4>1 DEF IInv, Cleanups
        <4>4. \A j \in Nat : Task(s, j, "cleanup", x)' => i = j
          <5>1. \A m \in Nat : Task(s, m, "cleanup", x) => m = i + 1
            BY <4>1 DEF IInv, Cleanups
          <5>2. \A j \in Nat : Task(s, j, "cleanup", x)' => Task(s, j + 1, "cleanup", x)
            BY <1>3 DEF TaskKinds
          <5>3. \A j \in Nat : j + 1 \in Nat /\ (j + 1 = i + 1 => i = j)
            OBVIOUS
          <5> QED BY <5>1, <5>2, <5>3
        <4> QED BY <1>1, <3>1, <4>1, <4>2, <4>3, <4>4 DEF IInv, Cleanups
      <3>2. CASE s2 # s
        <4>1. Task(s2, i, "cleanup", x) /\ (Started(s2, i)' <=> Started(s2, i))
          BY <1>3, <1>5, <2>2, <3>2 DEF TaskKinds, Started
        <4>2. x # o
          BY <1>6, <3>2, <4>1 DEF IInv, TasksOfLive, TaskKinds
        <4> QED BY <1>1, <1>3, <3>2, <4>1, <4>2 DEF IInv, Cleanups, TaskKinds
      <3> QED BY <3>1, <3>2
    <2> QED BY <1>1, <2>1, <2>2 DEF Cleanups
  <1>10. Told'
    <2>1. ASSUME NEW x \in Ops, x # o, Task(hip_stream[x], 1, "cleanup", x)
          PROVE  Task(hip_stream[x], 1, "cleanup", x)' /\ host'[hip_stream[x]] = host[hip_stream[x]]
      <3>1. hip_stream[x] # s /\ hip_stream[x] \in HipStreams
        BY <1>2, <2>1 DEF Task, IInv, TypeOK
      <3> QED BY <1>1, <1>3, <1>5, <2>1, <3>1 DEF TaskKinds
    <2> QED BY <1>1, <1>6, <2>1 DEF IInv, Told
  <1>11. Drained'
    BY <1>1, <1>4 DEF IInv, Drained
  <1> QED BY <1>7, <1>8, <1>9, <1>10, <1>11 DEF Parts

(* The completion thread takes the last completed operation. *)
LEMMA TakeKeeps ==
  ASSUME IInv, CtTake
  PROVE  Parts'
  <1> DEFINE n == Len(completed_ops)
             o == completed_ops[n]
  <1>1. completed_ops \in Seq(Ops) /\ n \in Nat /\ n # 0 /\ o \in Ops
    BY DEF IInv, TypeOK, CtTake
  <1>2. /\ UNCHANGED <<sub, ret, hip_stream, next_task, queue, host, draining, mem, pins, published>>
        /\ ct_op' = o /\ ct' = "drop" /\ submitted_ops' = submitted_ops \ {o}
        /\ ct = "locked"
    BY DEF CtTake, Last, mapVars, subVars, opVars
  <1>3. /\ Len(completed_ops') = n - 1
        /\ \A i \in 1..(n - 1) : completed_ops'[i] = completed_ops[i]
    BY <1>1, FrontPlaces DEF CtTake
  <1>4. o \in submitted_ops /\ o \notin pins /\ mem[o] = "live" /\ sub[o] # "freeing"
    BY <1>1 DEF IInv, Owned
  <1>5. \A s \in HipStreams, i \in Nat, k \in TaskKinds, x \in Ops :
          Task(s, i, k, x)' <=> Task(s, i, k, x)
    BY <1>2 DEF Task
  <1>6. sub[o] \notin {"start", "built"}
    BY <1>1, <1>4 DEF IInv, Born
  <1> HIDE DEF o, n
  <1>7. Born'
    BY <1>1, <1>2, <1>4 DEF IInv, Born
  <1>8. Owned'
    <2>1. \A i \in 1..(n - 1) : i \in 1..n /\ completed_ops[i] # o
      <3>1. n \in 1..n /\ \A i \in 1..(n - 1) : i \in 1..n /\ i # n
        BY <1>1
      <3> QED BY <3>1 DEF IInv, Owned, n, o
    <2>2. \A i, j \in 1..Len(completed_ops') : completed_ops'[i] = completed_ops'[j] => i = j
      <3>1. \A i, j \in 1..n : completed_ops[i] = completed_ops[j] => i = j
        BY DEF IInv, Owned, n
      <3> QED BY <1>3, <2>1, <3>1
    <2>3. \A i \in 1..Len(completed_ops') :
            completed_ops'[i] \in submitted_ops' /\ completed_ops'[i] \notin pins
      BY <1>2, <1>3, <2>1 DEF IInv, Owned, n
    <2>4. o # NoOp
      BY <1>1, ConstantsAssumption
    <2> QED BY <1>2, <1>4, <1>6, <2>2, <2>3, <2>4 DEF IInv, Owned
  <1>9. TasksOfLive'
    BY <1>2, <1>5 DEF IInv, TasksOfLive
  <1>10. Cleanups'
    BY <1>2, <1>5 DEF IInv, Cleanups, Started, TaskKinds
  <1>11. Told'
    BY <1>2, <1>5 DEF IInv, TypeOK, Told, TaskKinds
  <1>12. Drained'
    BY <1>2, <1>5 DEF IInv, Drained
  <1> QED BY <1>7, <1>8, <1>9, <1>10, <1>11, <1>12 DEF Parts

(* The node handle goes out of scope. *)
LEMMA DropKeeps ==
  ASSUME IInv, CtDrop
  PROVE  Parts'
  <1>1. /\ UNCHANGED <<sub, ret, hip_stream, next_task, queue, host, submitted_ops, completed_ops,
                       mem, pins, published>>
        /\ ct = "drop"
    BY DEF CtDrop, mapVars, subVars, monVars, opVars
  <1>2. ct_op \in Ops /\ mem[ct_op] = "live"
    BY <1>1 DEF IInv, TypeOK, Owned
  <1>3. \/ ct' = "loop" /\ ct_op' = NoOp /\ draining' = draining
        \/ /\ ct' = "freeing" /\ ct_op' = ct_op /\ sub[ct_op] = "done"
           /\ draining'[COMPLETION] = Pending
           /\ \A x \in Ops : draining'[x] = draining[x]
    <2>1. CASE SubmitterOwns(ct_op)
      BY <2>1 DEF CtDrop
    <2>2. CASE ~SubmitterOwns(ct_op)
      <3>1. sub[ct_op] = "done"
        BY <1>1, <1>2, <2>2 DEF SubmitterOwns, IInv, Owned, TypeOK
      <3> QED BY <2>2, <3>1, ConstantsAssumption DEF CtDrop, hipHostFreeBegin, IInv, TypeOK
    <2> QED BY <2>1, <2>2
  <1>4. \A s \in HipStreams, i \in Nat, k \in TaskKinds, x \in Ops :
          Task(s, i, k, x)' <=> Task(s, i, k, x)
    BY <1>1 DEF Task
  <1>5. Born'
    BY <1>1, <1>3, ConstantsAssumption DEF IInv, Born
  <1>6. Owned'
    <2>1. \A x \in submitted_ops : ct_op' # x
      BY <1>3, ConstantsAssumption DEF IInv, Owned, TypeOK
    <2>2. ct_op' # NoOp <=> ct' \in {"drop", "freeing"}
      BY <1>2, <1>3, ConstantsAssumption
    <2> QED BY <1>1, <1>3, <2>1, <2>2 DEF IInv, Owned
  <1>7. TasksOfLive'
    BY <1>1, <1>4 DEF IInv, TasksOfLive
  <1>8. Cleanups'
    BY <1>1, <1>4 DEF IInv, Cleanups, Started, TaskKinds
  <1>9. Told'
    BY <1>1, <1>4 DEF IInv, TypeOK, Told, TaskKinds
  <1>10. Drained'
    <2>1. \A s \in HipStreams, i \in Nat, k \in TaskKinds, x \in Ops :
            Task(s, i, k, x) => <<k, x>> \in Pending
      BY PendingTasks DEF IInv
    <2> QED BY <1>1, <1>2, <1>3, <1>4, <2>1 DEF IInv, Drained
  <1> QED BY <1>5, <1>6, <1>7, <1>8, <1>9, <1>10 DEF Parts

(* Every step keeps the invariant. *)
LEMMA InvStep == IInv /\ [Next]_vars => IInv'
  <1> SUFFICES ASSUME IInv, [Next]_vars PROVE Parts'
    BY TypeStep DEF Parts, IInv
  <1>1. ASSUME NEW o \in Ops,
               Construct(o) \/ ConstructThrows(o) \/ addOp(o) \/ DevPtr(o) \/ getLock(o)
        PROVE  Parts'
    BY <1>1, SubmitterKeeps
  <1>2. ASSUME NEW o \in Ops, EnqueueTask(o) PROVE Parts'
    <2>1. /\ UNCHANGED <<hip_stream, host, submitted_ops, completed_ops, ct, ct_op, draining, opVars>>
          /\ sub[o] = "locked" /\ ret[o] = "none"
      BY <1>2, WhileSubmitting DEF EnqueueTask, mapVars, monVars, ctVars
    <2>2. ret = [ret EXCEPT ![o] = "none"] /\ sub = [sub EXCEPT ![o] = "locked"]
      BY <2>1 DEF IInv, TypeOK
    <2>3. \A x \in Ops : x # o => next_task'[x] = next_task[x]
      BY <1>2 DEF EnqueueTask, IInv, TypeOK
    <2> DEFINE k == Tasks(o)[next_task[o]]
    <2>4. k \in TaskKinds /\ (k = "cleanup" <=> LastTask(o))
      <3>1. next_task[o] \in 1..4 /\ next_task[o] <= Len(Tasks(o)) /\ Len(Tasks(o)) \in {3, 4}
        BY TasksShape DEF IInv, TypeOK
      <3> QED BY <3>1, TasksShape DEF LastTask
    <2>5. CASE Enqueue(k, o) /\ LastTask(o)
      <3>1. sub' = [sub EXCEPT ![o] = "returning"] /\ ret' = [ret EXCEPT ![o] = "success"]
        BY <1>2, <2>4, <2>5, EnqueueChanges DEF EnqueueTask, IInv
      <3> HIDE DEF k
      <3> QED BY <2>1, <2>3, <2>4, <2>5, <3>1, EnqueueKeeps
    <2>6. CASE Enqueue(k, o) /\ ~LastTask(o)
      <3>1. sub' = sub /\ ret' = ret
        BY <1>2, <2>4, <2>6, EnqueueChanges DEF EnqueueTask, IInv
      <3> HIDE DEF k
      <3> QED BY <2>1, <2>2, <2>3, <2>4, <2>6, <3>1, EnqueueKeeps
    <2>7. CASE queue' = queue
      <3>1. sub' = [sub EXCEPT ![o] = "catch"] /\ ret' = ret
        BY <1>2, <2>4, <2>7, EnqueueChanges DEF EnqueueTask, IInv
      <3> HIDE DEF k
      <3> QED BY <2>1, <2>2, <2>3, <2>4, <2>7, <3>1, EnqueueKeeps
    <2> QED BY <1>2, <2>5, <2>6, <2>7 DEF EnqueueTask
  <1>3. ASSUME NEW o \in Ops, Catch(o) PROVE Parts'
    <2>1. /\ UNCHANGED <<hip_stream, next_task, host, submitted_ops, completed_ops, ct, ct_op, draining,
                         opVars>>
          /\ sub[o] = "catch" /\ sub' = [sub EXCEPT ![o] = "returning"] /\ "cleanup" \in TaskKinds
      BY <1>3 DEF Catch, mapVars, monVars, ctVars, TaskKinds
    <2>2. \/ Enqueue("cleanup", o) /\ ret' = [ret EXCEPT ![o] = "error"]
          \/ queue' = queue /\ ret' = [ret EXCEPT ![o] = "leaked"]
      BY <1>3 DEF Catch
    <2> QED BY <2>1, <2>2, EnqueueKeeps
  <1>4. ASSUME NEW o \in Ops, Return(o) PROVE Parts'
    BY <1>4, ReturnKeeps
  <1>5. ASSUME NEW o \in Ops, SubmitterFrees(o) PROVE Parts'
    BY <1>5, FreeKeeps
  <1>6. ASSUME NEW s \in HipStreams, NEW o \in Ops, RunTask(s, o) PROVE Parts'
    BY <1>6, RunTaskKeeps
  <1>7. ASSUME NEW s \in HipStreams, NEW o \in Ops, completeOp(s, o) PROVE Parts'
    BY <1>7, CompleteKeeps
  <1>8. ASSUME NEW s \in HipStreams, NEW o \in Ops, async_io_cleanup(s, o) PROVE Parts'
    BY <1>8, CleanupKeeps
  <1> USE DEF mapVars, subVars, monVars, ctVars, opVars
  <1>9. ASSUME NEW s \in HipStreams, completeOpNotify(s) PROVE Parts'
    <2>1. \A s2 \in HipStreams : host'[s2] = "none" <=> host[s2] = "none"
      BY <1>9 DEF completeOpNotify, IInv, TypeOK
    <2> QED BY <1>9, <2>1, QuietKeeps DEF completeOpNotify, notify_one
  <1>10. ASSUME NEW s \in HipStreams, StreamRegister(s) \/ StreamDeregister(s) PROVE Parts'
    BY <1>10, QuietKeeps DEF StreamRegister, StreamDeregister
  <1>11. CASE CtTake
    BY <1>11, TakeKeeps
  <1>12. CASE CtDrop
    BY <1>12, DropKeeps
  <1>13. CASE CtFree
    <2>1. ct_op \in Ops
      BY <1>13 DEF CtFree, IInv, Owned, TypeOK
    <2> QED BY <1>13, <2>1, FreeKeeps
  <1>14. CASE CtLock \/ CtWait \/ CtExit
    BY <1>14, QuietKeeps DEF CtLock, CtWait, CtExit
  <1>15. CASE Finish \/ FinishNotify
    BY <1>15, QuietKeeps DEF Finish, FinishNotify, notify_one
  <1>16. CASE UNCHANGED vars
    BY <1>16, QuietKeeps DEF vars
  <1> QED BY <1>1, <1>2, <1>3, <1>4, <1>5, <1>6, <1>7, <1>8, <1>9, <1>10, <1>11, <1>12, <1>13,
             <1>14, <1>15, <1>16
          DEF Next, Submitter, HipStream, CompletionThread

-----------------------------------------------------------------------------
(* The task at place i of the stream s is a bind or copy task of o. *)
Copying(s, i, o) == \E k \in TaskKinds : k # "cleanup" /\ Task(s, i, k, o)

(* One operation at most holds the lock of a Stream. *)
LockExclusive ==
    \A o, o2 \in Ops :
      sub[o] = "locked" /\ sub[o2] = "locked" /\ stream[o] = stream[o2] => o = o2

(* While an operation holds the lock, no other one of its Stream follows it. *)
LockedIsLast ==
    \A s \in HipStreams, i, j \in Nat, o, o2 \in Ops :
      /\ Copying(s, i, o) /\ Copying(s, j, o2) /\ i < j
      /\ sub[o] = "locked" /\ stream[o2] = stream[o]
      => o2 = o

(* StreamSerial, by the places of the tasks. *)
Contiguous ==
    \A s \in HipStreams, i, j, m \in Nat, o, o2 \in Ops :
      /\ Copying(s, i, o) /\ Copying(s, j, o2) /\ Copying(s, m, o) /\ i < j /\ j < m
      /\ stream[o2] = stream[o]
      => o2 = o

SerialInv == LockExclusive /\ LockedIsLast /\ Contiguous

(* A step that locks nothing and enqueues no bind or copy task; streams may *)
(* lose their first task.                                                   *)
LEMMA SerialShrinks ==
  ASSUME IInv, SerialInv, NEW d \in [HipStreams -> {0, 1}],
         \A s \in HipStreams, i \in Nat, o \in Ops : Copying(s, i, o)' => Copying(s, i + d[s], o),
         \A o \in Ops : sub'[o] = "locked" => sub[o] = "locked",
         \A o \in Ops : stream'[o] = stream[o] \/ sub[o] = "start"
  PROVE  SerialInv'
  <1>1. \A s \in HipStreams, i \in Nat, o \in Ops :
          Copying(s, i, o)' => Copying(s, i + d[s], o) /\ stream'[o] = stream[o]
    BY DEF IInv, TasksOfLive, Copying
  <1>2. \A s \in HipStreams, i \in Nat : i + d[s] \in Nat
    OBVIOUS
  <1>3. \A s \in HipStreams, i, j \in Nat : i < j => i + d[s] < j + d[s]
    OBVIOUS
  <1>4. LockExclusive'
    BY DEF SerialInv, LockExclusive
  <1>5. LockedIsLast'
    BY <1>1, <1>2, <1>3 DEF SerialInv, LockedIsLast
  <1>6. Contiguous'
    BY <1>1, <1>2, <1>3 DEF SerialInv, Contiguous
  <1> QED BY <1>4, <1>5, <1>6 DEF SerialInv

(* getLock waits for the holder; its operation has no tasks yet. *)
LEMMA SerialLock ==
  ASSUME IInv, SerialInv, NEW o \in Ops, getLock(o)
  PROVE  SerialInv'
  <1>1. /\ sub[o] = "ready" /\ sub'[o] = "locked" /\ queue' = queue /\ stream' = stream
        /\ \A x \in Ops : x # o => sub'[x] = sub[x]
        /\ \A x \in Ops : sub[x] = "locked" => stream[x] # stream[o]
    BY DEF getLock, HoldsStreamLock, IInv, TypeOK
  <1>2. \A s \in HipStreams, i \in Nat, x \in Ops : Copying(s, i, x)' => Copying(s, i, x) /\ x # o
    BY <1>1 DEF Copying, Task, IInv, TasksOfLive
  <1>3. LockExclusive'
    BY <1>1 DEF SerialInv, LockExclusive
  <1>4. LockedIsLast'
    BY <1>1, <1>2 DEF SerialInv, LockedIsLast
  <1>5. Contiguous'
    BY <1>1, <1>2 DEF SerialInv, Contiguous
  <1> QED BY <1>3, <1>4, <1>5 DEF SerialInv

(* The holder of the lock appends one of its own tasks. *)
LEMMA SerialEnqueue ==
  ASSUME IInv, SerialInv, NEW o \in Ops, NEW k \in TaskKinds, sub[o] = "locked", Enqueue(k, o),
         stream' = stream, sub' = sub
  PROVE  SerialInv'
  <1>1. \A s \in HipStreams, i \in Nat, x \in Ops :
          Copying(s, i, x)' => \/ Copying(s, i, x) /\ i \in 1..Len(queue[s])
                               \/ i = Len(queue[s]) + 1 /\ x = o
    <2>1. \A s \in HipStreams, i \in Nat, x \in Ops :
            Copying(s, i, x)' => Copying(s, i, x) \/ (i = Len(queue[s]) + 1 /\ x = o)
      BY EnqueueAdds DEF IInv, Copying
    <2>2. \A s \in HipStreams, i \in Nat, x \in Ops : Copying(s, i, x) => i \in 1..Len(queue[s])
      BY DEF Copying, Task
    <2> QED BY <2>1, <2>2
  <1>2. \A s \in HipStreams : Len(queue[s]) \in Nat
    BY DEF IInv, TypeOK
  <1>3. LockExclusive'
    BY DEF SerialInv, LockExclusive
  <1>4. LockedIsLast'
    <2> SUFFICES ASSUME NEW s \in HipStreams, NEW i \in Nat, NEW j \in Nat, NEW x \in Ops, NEW y \in Ops,
                        Copying(s, i, x)', Copying(s, j, y)', i < j, sub[x] = "locked", stream[y] = stream[x]
                 PROVE  y = x
      BY DEF LockedIsLast
    <2>1. CASE y = o
      BY <2>1 DEF SerialInv, LockExclusive
    <2>2. CASE y # o
      <3>1. Copying(s, j, y) /\ j \in 1..Len(queue[s])
        BY <1>1, <2>2
      <3>2. i # Len(queue[s]) + 1
        BY <1>2, <3>1
      <3>3. Copying(s, i, x)
        BY <1>1, <3>2
      <3> QED BY <3>1, <3>3 DEF SerialInv, LockedIsLast
    <2> QED BY <2>1, <2>2
  <1>5. Contiguous'
    <2> SUFFICES ASSUME NEW s \in HipStreams, NEW i \in Nat, NEW j \in Nat, NEW m \in Nat,
                        NEW x \in Ops, NEW y \in Ops,
                        Copying(s, i, x)', Copying(s, j, y)', Copying(s, m, x)', i < j, j < m,
                        stream[y] = stream[x]
                 PROVE  y = x
      BY DEF Contiguous
    <2>1. m \in 1..(Len(queue[s]) + 1)
      BY <1>1, <1>2
    <2>2. i # Len(queue[s]) + 1 /\ j # Len(queue[s]) + 1
      BY <1>2, <2>1
    <2>3. Copying(s, i, x) /\ Copying(s, j, y)
      BY <1>1, <2>2
    <2>4. CASE x = o
      BY <2>3, <2>4 DEF SerialInv, LockedIsLast
    <2>5. CASE x # o
      <3>1. Copying(s, m, x)
        BY <1>1, <2>5
      <3> QED BY <2>3, <3>1 DEF SerialInv, Contiguous
    <2> QED BY <2>4, <2>5
  <1> QED BY <1>3, <1>4, <1>5 DEF SerialInv

(* Initially no lock is taken and no task is in a stream. *)
LEMMA SerialInit == Init => SerialInv
  BY DEF Init, SerialInv, LockExclusive, LockedIsLast, Contiguous, Copying, Task

(* Every step keeps the tasks of a Stream in order. *)
LEMMA SerialStep == IInv /\ SerialInv /\ [Next]_vars => SerialInv'
  <1> SUFFICES ASSUME IInv, SerialInv, [Next]_vars PROVE SerialInv'
    OBVIOUS
  <1> DEFINE zero == [s \in HipStreams |-> 0]
  <1> USE DEF mapVars, subVars, monVars, ctVars, opVars
  <1>1. ASSUME queue' = queue,
               \A o \in Ops : sub'[o] = "locked" => sub[o] = "locked",
               \A o \in Ops : stream'[o] = stream[o] \/ sub[o] = "start"
        PROVE  SerialInv'
    <2>1. \A s \in HipStreams, i \in Nat, o \in Ops : Copying(s, i, o)' => Copying(s, i + zero[s], o)
      BY <1>1 DEF Copying, Task
    <2>2. zero \in [HipStreams -> {0, 1}]
      OBVIOUS
    <2> HIDE DEF zero
    <2> QED BY <1>1, <2>1, <2>2, SerialShrinks
  <1>2. ASSUME NEW s \in HipStreams, queue[s] # << >>, queue' = [queue EXCEPT ![s] = Tail(@)],
               UNCHANGED subVars
        PROVE  SerialInv'
    <2> DEFINE d == [x \in HipStreams |-> IF x = s THEN 1 ELSE 0]
    <2>1. \A x \in HipStreams, i \in Nat, o \in Ops : Copying(x, i, o)' => Copying(x, i + d[x], o)
      <3>1. \A i \in Nat, o \in Ops : Copying(s, i, o)' => Copying(s, i + 1, o)
        BY <1>2, TailRemoves DEF IInv, Copying
      <3>2. \A x \in HipStreams, i \in Nat, o \in Ops : x # s /\ Copying(x, i, o)' => Copying(x, i, o)
        BY <1>2, TailRemoves DEF IInv, Copying
      <3> QED BY <3>1, <3>2
    <2>2. d \in [HipStreams -> {0, 1}]
      OBVIOUS
    <2> HIDE DEF d
    <2> QED BY <1>2, <2>1, <2>2, SerialShrinks
  <1>3. ASSUME NEW o \in Ops, Enqueue("cleanup", o), stream' = stream,
               \A x \in Ops : sub'[x] = "locked" => sub[x] = "locked"
        PROVE  SerialInv'
    <2>1. \A s \in HipStreams, i \in Nat, x \in Ops : Copying(s, i, x)' => Copying(s, i + zero[s], x)
      <3>1. \A s \in HipStreams, i \in Nat, x \in Ops : Copying(s, i, x)' => Copying(s, i, x)
        BY <1>3, EnqueueAdds DEF IInv, Copying, TaskKinds
      <3> QED BY <3>1
    <2>2. zero \in [HipStreams -> {0, 1}]
      OBVIOUS
    <2> HIDE DEF zero
    <2> QED BY <1>3, <2>1, <2>2, SerialShrinks
  <1> HIDE DEF zero
  <1>4. ASSUME NEW o \in Ops, Submitter(o) PROVE SerialInv'
    <2>1. CASE getLock(o)
      BY <2>1, SerialLock
    <2>2. CASE EnqueueTask(o)
      <3>1. sub[o] = "locked" /\ stream' = stream
        BY <2>2 DEF EnqueueTask
      <3> DEFINE k == Tasks(o)[next_task[o]]
      <3>2. k \in TaskKinds /\ (k = "cleanup" <=> LastTask(o))
        <4>1. next_task[o] \in 1..4 /\ next_task[o] <= Len(Tasks(o)) /\ Len(Tasks(o)) \in {3, 4}
          BY TasksShape DEF IInv, TypeOK
        <4> QED BY <4>1, TasksShape DEF LastTask
      <3>3. \/ Enqueue(k, o) /\ k = "cleanup" /\ sub' = [sub EXCEPT ![o] = "returning"]
            \/ Enqueue(k, o) /\ k # "cleanup" /\ sub' = sub
            \/ queue' = queue /\ sub' = [sub EXCEPT ![o] = "catch"]
        BY <2>2, <3>2 DEF EnqueueTask
      <3> HIDE DEF k
      <3>4. CASE Enqueue(k, o) /\ k = "cleanup" /\ sub' = [sub EXCEPT ![o] = "returning"]
        <4>1. \A x \in Ops : sub'[x] = "locked" => sub[x] = "locked"
          BY <3>4 DEF IInv, TypeOK
        <4> QED BY <1>3, <3>1, <3>4, <4>1
      <3>5. CASE Enqueue(k, o) /\ k # "cleanup" /\ sub' = sub
        BY <3>1, <3>2, <3>5, SerialEnqueue
      <3>6. CASE queue' = queue /\ sub' = [sub EXCEPT ![o] = "catch"]
        <4>1. \A x \in Ops : sub'[x] = "locked" => sub[x] = "locked"
          BY <3>6 DEF IInv, TypeOK
        <4> QED BY <1>1, <3>1, <3>6, <4>1
      <3> QED BY <3>3, <3>4, <3>5, <3>6
    <2>3. CASE Catch(o)
      <3>1. \A x \in Ops : sub'[x] = "locked" => sub[x] = "locked"
        BY <2>3 DEF Catch, IInv, TypeOK
      <3> QED BY <1>1, <1>3, <2>3, <3>1 DEF Catch
    <2>4. CASE Construct(o) \/ ConstructThrows(o) \/ addOp(o) \/ DevPtr(o)
      <3>1. /\ queue' = queue /\ \A x \in Ops : sub'[x] = "locked" => sub[x] = "locked"
            /\ \A x \in Ops : stream'[x] = stream[x] \/ sub[x] = "start"
        BY <2>4 DEF Construct, ConstructThrows, addOp, DevPtr, IInv, TypeOK
      <3> QED BY <1>1, <3>1
    <2>5. CASE Return(o) \/ SubmitterFrees(o)
      <3>1. /\ queue' = queue /\ stream' = stream /\ \A x \in Ops : sub'[x] = "locked" => sub[x] = "locked"
        BY <2>5 DEF Return, SubmitterFrees, IInv, TypeOK
      <3> QED BY <1>1, <3>1
    <2> QED BY <1>4, <2>1, <2>2, <2>3, <2>4, <2>5 DEF Submitter
  <1>5. ASSUME NEW s \in HipStreams, HipStream(s) PROVE SerialInv'
    BY <1>1, <1>2, <1>5 DEF HipStream, RunTask, completeOp, async_io_cleanup, completeOpNotify, Running
  <1>6. ASSUME NEW s \in HipStreams, StreamRegister(s) \/ StreamDeregister(s) PROVE SerialInv'
    BY <1>1, <1>6 DEF StreamRegister, StreamDeregister
  <1>7. CASE CompletionThread
    BY <1>1, <1>7 DEF CompletionThread, CtLock, CtTake, CtWait, CtExit, CtDrop, CtFree
  <1>8. CASE Finish \/ FinishNotify \/ UNCHANGED vars
    BY <1>1, <1>8 DEF Finish, FinishNotify, vars
  <1> QED BY <1>4, <1>5, <1>6, <1>7, <1>8 DEF Next

-----------------------------------------------------------------------------
(* What the application and the allocator see of one operation, from what   *)
(* the step did to it and to the others.                                    *)
LEMMA PhaseOf ==
  ASSUME NEW o \in Ops, \A x \in Ops : x # o => mem'[x] = mem[x] /\ (x \in pins' <=> x \in pins)
  PROVE  Phase' = [Phase EXCEPT ![o] = IF mem'[o] # "live" THEN mem'[o]
                                       ELSE IF o \in pins' THEN "submitted" ELSE "complete"]
  BY DEF Phase

(* A step of the submitter of o changes the answer of o at most. *)
LEMMA AnsweredOf ==
  ASSUME NEW o \in Ops, \A x \in Ops : x # o => sub'[x] = sub[x] /\ ret'[x] = ret[x]
  PROVE  Answered' = [Answered EXCEPT ![o] = IF sub'[o] \in {"freeing", "done"} THEN ret'[o] ELSE "none"]
  BY DEF Answered

(* A step that frees, completes, publishes and answers nothing. *)
LEMMA NothingSeen ==
  ASSUME UNCHANGED <<mem, pins, published>>,
         \A o \in Ops : sub'[o] \in {"freeing", "done"} <=> sub[o] \in {"freeing", "done"},
         \A o \in Ops : sub[o] \in {"freeing", "done"} => ret'[o] = ret[o]
  PROVE  UNCHANGED Lifecycle!vars
  <1>1. Phase' = Phase
    BY DEF Phase
  <1>2. Answered' = Answered
    BY DEF Answered
  <1> QED BY <1>1, <1>2 DEF Lifecycle!vars

(* The initial states are initial states of the abstract specification. *)
LEMMA LifecycleInit == Init => Lifecycle!Init
  BY DEF Init, Lifecycle!Init, Phase, Answered

(* Every step of the threads and of the device is one of the operation's    *)
(* life, or is not seen from outside.                                       *)
LEMMA LifecycleStep == IInv /\ [Next]_vars => [Lifecycle!Next]_(Lifecycle!vars)
  <1> SUFFICES ASSUME IInv, [Next]_vars PROVE Lifecycle!Next \/ UNCHANGED Lifecycle!vars
    OBVIOUS
  <1> USE DEF mapVars, subVars, monVars, ctVars, opVars
  <1> DEFINE Goal == Lifecycle!Next \/ UNCHANGED Lifecycle!vars
  <1>1. ASSUME NEW o \in Ops, Construct(o) PROVE Goal
    <2>1. /\ sub[o] = "start" /\ mem[o] = "none" /\ sub'[o] = "built" /\ ret' = ret
          /\ mem'[o] = "live" /\ pins' = pins \cup {o} /\ published' = published
          /\ \A x \in Ops : x # o => sub'[x] = sub[x] /\ mem'[x] = mem[x]
      BY <1>1 DEF Construct, IInv, TypeOK, Born
    <2>2. Phase[o] = "none" /\ Phase' = [Phase EXCEPT ![o] = "submitted"]
      BY <2>1, PhaseOf DEF Phase
    <2>3. Answered[o] = "none" /\ Answered' = Answered
      BY <2>1 DEF Answered
    <2>4. Lifecycle!Submit(o)
      BY <2>1, <2>2, <2>3 DEF Lifecycle!Submit, Lifecycle!Transition
    <2> QED BY <2>4 DEF Lifecycle!Next
  <1>2. ASSUME NEW o \in Ops, ConstructThrows(o) PROVE Goal
    <2>1. /\ sub[o] = "start" /\ mem[o] = "none" /\ sub'[o] = "done" /\ ret'[o] = "error"
          /\ UNCHANGED <<mem, pins, published>>
          /\ \A x \in Ops : x # o => sub'[x] = sub[x] /\ ret'[x] = ret[x]
      BY <1>2 DEF ConstructThrows, IInv, TypeOK, Born
    <2>2. Phase[o] = "none" /\ Phase' = Phase
      BY <2>1 DEF Phase
    <2>3. Answered[o] = "none" /\ Answered' = [Answered EXCEPT ![o] = "error"]
      BY <2>1, AnsweredOf DEF Answered
    <2>4. Lifecycle!Refuse(o)
      BY <2>1, <2>2, <2>3 DEF Lifecycle!Refuse
    <2> QED BY <2>4 DEF Lifecycle!Next
  <1>3. ASSUME NEW o \in Ops, addOp(o) \/ DevPtr(o) \/ getLock(o) \/ EnqueueTask(o) \/ Catch(o)
        PROVE  Goal
    <2>1. /\ UNCHANGED <<mem, pins, published>>
          /\ sub[o] \notin {"freeing", "done"} /\ sub'[o] \notin {"freeing", "done"}
          /\ \A x \in Ops : x # o => sub'[x] = sub[x] /\ ret'[x] = ret[x]
      BY <1>3 DEF addOp, DevPtr, getLock, EnqueueTask, Catch, IInv, TypeOK
    <2> QED BY <2>1, NothingSeen
  <1>4. ASSUME NEW o \in Ops, Return(o) PROVE Goal
    <2>1. /\ UNCHANGED <<mem, pins, published, ret>>
          /\ sub[o] = "returning" /\ sub'[o] \in {"freeing", "done"}
          /\ \A x \in Ops : x # o => sub'[x] = sub[x]
      BY <1>4 DEF Return, IInv, TypeOK
    <2>2. Answered[o] = "none" /\ Answered' = [Answered EXCEPT ![o] = ret[o]] /\ Phase' = Phase
      BY <2>1, AnsweredOf DEF Answered, Phase
    <2>3. mem[o] = "live" /\ ret[o] \in {"success", "error", "leaked"} /\ (ret[o] = "leaked" => o \in pins)
      BY <2>1 DEF IInv, TypeOK, Born, Owned, Told
    <2>4. Phase[o] \in (IF ret[o] = "leaked" THEN {"submitted"} ELSE {"submitted", "complete"})
      BY <2>3 DEF Phase
    <2>5. Lifecycle!Answer(o, ret[o])
      BY <2>1, <2>2, <2>4 DEF Lifecycle!Answer
    <2> QED BY <2>3, <2>5 DEF Lifecycle!Next
  <1>5. ASSUME NEW o \in Ops, SubmitterFrees(o) \/ (CtFree /\ ct_op = o) PROVE Goal
    <2>1. /\ UNCHANGED <<ret, pins, published>> /\ mem'[o] = "freed"
          /\ sub[o] \in {"freeing", "done"} /\ sub'[o] = "done"
          /\ \A x \in Ops : x # o => sub'[x] = sub[x] /\ mem'[x] = mem[x]
      BY <1>5 DEF SubmitterFrees, CtFree, IInv, TypeOK, Owned
    <2>2. mem[o] = "live" /\ o \notin pins /\ o \in published
      BY <1>5, NothingPending DEF SubmitterFrees, CtFree
    <2>3. ret[o] \in {"success", "error"}
      BY <2>1, <2>2 DEF IInv, TypeOK, Told
    <2>4. Answered[o] = ret[o] /\ Answered' = Answered
      BY <2>1 DEF Answered
    <2>5. Phase[o] = "complete" /\ Phase' = [Phase EXCEPT ![o] = "freed"]
      BY <2>1, <2>2, PhaseOf DEF Phase
    <2>6. Lifecycle!Free(o)
      BY <2>1, <2>2, <2>3, <2>4, <2>5 DEF Lifecycle!Free, Lifecycle!Transition
    <2> QED BY <2>6 DEF Lifecycle!Next
  <1>6. ASSUME NEW s \in HipStreams, NEW o \in Ops, completeOp(s, o) PROVE Goal
    <2>1. o \in pins /\ o \in submitted_ops /\ mem[o] = "live" /\ ret[o] # "leaked"
      BY <1>6, CompleteFinds DEF completeOp
    <2>2. UNCHANGED <<sub, ret, mem, published>> /\ pins' = pins \ {o}
      BY <1>6, <2>1 DEF completeOp, resetReferences
    <2>3. Phase[o] = "submitted" /\ Phase' = [Phase EXCEPT ![o] = "complete"]
      BY <2>1, <2>2, PhaseOf DEF Phase
    <2>4. Answered[o] # "leaked" /\ Answered' = Answered
      BY <2>1, <2>2 DEF Answered
    <2>5. Lifecycle!Complete(o)
      BY <2>2, <2>3, <2>4 DEF Lifecycle!Complete, Lifecycle!Transition
    <2> QED BY <2>5 DEF Lifecycle!Next
  <1>7. ASSUME NEW s \in HipStreams, NEW o \in Ops, async_io_cleanup(s, o) PROVE Goal
    <2>1. UNCHANGED <<sub, ret, mem, pins>> /\ published' = published \cup {o} /\ host[s] # "none"
      BY <1>7 DEF async_io_cleanup
    <2>2. Task(s, 1, "cleanup", o)
      BY <1>7, RunningIsFirst DEF async_io_cleanup, IInv
    <2>3. mem[o] = "live" /\ o \notin pins /\ o \notin published
      BY <2>1, <2>2 DEF IInv, TasksOfLive, Cleanups, Started, TaskKinds
    <2>4. Phase[o] = "complete" /\ Phase' = Phase /\ Answered' = Answered
      BY <2>1, <2>3 DEF Phase, Answered
    <2>5. Lifecycle!Publish(o)
      BY <2>1, <2>3, <2>4 DEF Lifecycle!Publish
    <2> QED BY <2>5 DEF Lifecycle!Next
  <1>8. ASSUME UNCHANGED <<subVars, opVars>> PROVE Goal
    BY <1>8, NothingSeen
  <1>9. CASE CtFree
    <2>1. ct_op \in Ops
      BY <1>9 DEF CtFree, IInv, Owned, TypeOK
    <2> QED BY <1>5, <1>9, <2>1
  <1>10. ASSUME NEW s \in HipStreams, HipStream(s) \/ StreamRegister(s) \/ StreamDeregister(s) PROVE Goal
    BY <1>6, <1>7, <1>8, <1>10 DEF HipStream, RunTask, completeOpNotify, StreamRegister, StreamDeregister
  <1>11. CASE CompletionThread
    BY <1>8, <1>9, <1>11 DEF CompletionThread, CtLock, CtTake, CtWait, CtExit, CtDrop
  <1>12. CASE Finish \/ FinishNotify \/ UNCHANGED vars
    BY <1>8, <1>12 DEF Finish, FinishNotify, vars
  <1> QED BY <1>1, <1>2, <1>3, <1>4, <1>5, <1>10, <1>11, <1>12 DEF Next, Submitter

-----------------------------------------------------------------------------
(* The inductive invariant holds throughout. *)
THEOREM Invariant == Spec => [](IInv /\ SerialInv)
  <1>1. Init => IInv /\ SerialInv
    BY InvInit, SerialInit
  <1>2. IInv /\ SerialInv /\ [Next]_vars => (IInv /\ SerialInv)'
    BY InvStep, SerialStep
  <1> QED BY <1>1, <1>2, PTL DEF Spec

(* Every variable of the submission, the monitor and the completion thread  *)
(* keeps its type, and no submitter runs past the last of its tasks.        *)
THEOREM TypeCorrect == Spec => []TypeOK
  <1>1. IInv => TypeOK
    BY DEF IInv
  <1> QED BY <1>1, Invariant, PTL

(* No host function, kernel or submitter touches an AsyncOp after           *)
(* ~AsyncOpFallback has freed it, whichever thread frees it.                *)
THEOREM UseAfterFree == Spec => []NoUseAfterFree
  <1>1. ASSUME IInv PROVE NoUseAfterFree
    <2> SUFFICES ASSUME NEW o \in Ops, SubmitterOwns(o) \/ \E k \in TaskKinds : <<k, o>> \in Pending
                 PROVE  mem[o] = "live"
      BY DEF NoUseAfterFree
    <2>1. CASE SubmitterOwns(o)
      BY <1>1, <2>1 DEF IInv, TypeOK, Born, Owned, SubmitterOwns
    <2>2. CASE \E k \in TaskKinds : <<k, o>> \in Pending
      BY <1>1, <2>2, PendingTasks DEF IInv, TasksOfLive
    <2> QED BY <2>1, <2>2
  <1> QED BY <1>1, Invariant, PTL

(* The submitter and the completion thread never both destroy an operation, *)
(* and a destroyed one is in no container of AsyncMonitor.                  *)
THEOREM Destroyed == Spec => []DestroyedOnce
  <1>1. ASSUME IInv PROVE DestroyedOnce
    <2>1. \A o \in Ops : o \in ToSet(completed_ops) => o \in submitted_ops
      BY <1>1 DEF IInv, TypeOK, Owned, ToSet
    <2>2. \A o \in Ops : ct_op = o => ct_op # NoOp
      BY ConstantsAssumption
    <2> QED BY <1>1, <2>1, <2>2 DEF IInv, Owned, DestroyedOnce
  <1> QED BY <1>1, Invariant, PTL

(* The byte count reaches the application only after file, buffer and       *)
(* stream have been released.                                               *)
THEOREM Released == Spec => []PublishedReleases
  <1>1. IInv => PublishedReleases
    BY DEF IInv, TypeOK, Told, PublishedReleases
  <1> QED BY <1>1, Invariant, PTL

(* The lock of a Stream keeps the bind and copy tasks of its operations     *)
(* together in the HIP stream, however many threads submit to it.           *)
THEOREM Serial == Spec => []StreamSerial
  <1>1. ASSUME IInv, SerialInv PROVE StreamSerial
    <2> SUFFICES ASSUME NEW s \in HipStreams,
                        NEW i \in {n \in DOMAIN queue[s] : queue[s][n][1] # "cleanup"},
                        NEW j \in {n \in DOMAIN queue[s] : queue[s][n][1] # "cleanup"},
                        NEW m \in {n \in DOMAIN queue[s] : queue[s][n][1] # "cleanup"},
                        i < j, j < m, queue[s][i][2] = queue[s][m][2],
                        stream[queue[s][j][2]] = stream[queue[s][i][2]]
                 PROVE  queue[s][j][2] = queue[s][i][2]
      BY DEF StreamSerial
    <2>1. queue[s] \in Seq(TaskKinds \X Ops)
      BY <1>1 DEF IInv, TypeOK
    <2>2. \A n \in 1..Len(queue[s]) :
            /\ n \in Nat /\ queue[s][n][1] \in TaskKinds /\ queue[s][n][2] \in Ops
            /\ queue[s][n] = <<queue[s][n][1], queue[s][n][2]>>
      BY <2>1
    <2>3. \A n \in 1..Len(queue[s]) : queue[s][n][1] # "cleanup" => Copying(s, n, queue[s][n][2])
      BY <2>2 DEF Copying, Task
    <2>4. {i, j, m} \subseteq 1..Len(queue[s])
      BY <2>1
    <2>5. Copying(s, i, queue[s][i][2]) /\ Copying(s, j, queue[s][j][2]) /\ Copying(s, m, queue[s][m][2])
      BY <2>3, <2>4
    <2> QED BY <1>1, <2>2, <2>4, <2>5 DEF SerialInv, Contiguous
  <1> QED BY <1>1, Invariant, PTL

(* Submitters, HIP streams and the completion thread implement the life of  *)
(* an operation: it completes once, publishes once after that, and is freed *)
(* once, only after it has published and its call has answered.             *)
THEOREM Refinement == Spec => ImplementsLifecycle
  <1>1. Init => Lifecycle!Init
    BY LifecycleInit
  <1>2. IInv /\ [Next]_vars => [Lifecycle!Next]_(Lifecycle!vars)
    BY LifecycleStep
  <1> QED BY <1>1, <1>2, Invariant, PTL DEF Spec, ImplementsLifecycle, Lifecycle!Spec

=============================================================================
