-------------------------- MODULE StatsServer_proofs --------------------------
(***************************************************************************)
(* Proofs about StatsServer, for any number of clients and counters and    *)
(* any length of the listen queue: no client waits in recvFd for a         *)
(* connection that nobody holds, and a report made after the exit is the   *)
(* final one.                                                              *)
(***************************************************************************)
EXTENDS StatsServer, TLAPS

(* There is no thread before the constructor.  Between poll and accept the  *)
(* listen queue does not run empty: only the thread takes connections out   *)
(* of it.                                                                   *)
ThreadHasWork ==
    /\ main = "start" => thread = "none"
    /\ thread = "ready" => backlog # << >>

(* What a client without -i has read is what is there: it reads only after  *)
(* the exit, and nothing is counted from then on.                           *)
ReadsAreFinal ==
    /\ seen = [c \in Clients |-> seen[c]]
    /\ \A c \in Clients :
         /\ ~imm[c] /\ client[c] = "report" => main = "dead"
         /\ ~imm[c] => \A k \in DOMAIN seen[c] : main = "dead" /\ seen[c][k] = counters[k]
         /\ outcome[c] = "Success" => DOMAIN seen[c] = Counters
         /\ ~imm[c] /\ outcome[c] = "Success" => main = "dead"

IInv == TypeOK /\ ThreadHasWork /\ ReadsAreFinal /\ NobodyForgotten

-----------------------------------------------------------------------------
(* A connection joins the listen queue ... *)
LEMMA AppendSet ==
  ASSUME NEW S, NEW q \in Seq(S), NEW c \in S
  PROVE  /\ Append(q, c) \in Seq(S) /\ Len(Append(q, c)) = Len(q) + 1
         /\ Append(q, c) # << >>
         /\ ToSet(Append(q, c)) = ToSet(q) \cup {c}
  <1>1. /\ Append(q, c) \in Seq(S) /\ Len(Append(q, c)) = Len(q) + 1 /\ Len(q) \in Nat
        /\ Append(q, c)[Len(q) + 1] = c
        /\ \A i \in 1..Len(q) : Append(q, c)[i] = q[i]
    OBVIOUS
  <1>2. DOMAIN Append(q, c) = 1..(Len(q) + 1) /\ DOMAIN q = 1..Len(q)
    BY <1>1
  <1>3. \A i \in 1..(Len(q) + 1) : i \in 1..Len(q) \/ i = Len(q) + 1
    BY <1>1
  <1>4. ToSet(Append(q, c)) \subseteq ToSet(q) \cup {c}
    BY <1>1, <1>2, <1>3 DEF ToSet
  <1>5. c \in ToSet(Append(q, c))
    <2>1. Len(q) + 1 \in 1..(Len(q) + 1)
      BY <1>1
    <2> QED BY <1>1, <1>2, <2>1 DEF ToSet
  <1>6. ToSet(q) \subseteq ToSet(Append(q, c))
    <2>1. \A i \in 1..Len(q) : i \in 1..(Len(q) + 1)
      BY <1>1
    <2> QED BY <1>1, <1>2, <2>1 DEF ToSet
  <1>7. Append(q, c) # << >>
    BY <1>1
  <1> QED BY <1>1, <1>4, <1>5, <1>6, <1>7

(* ... and leaves it. *)
LEMMA TailSet ==
  ASSUME NEW S, NEW q \in Seq(S), q # << >>
  PROVE  /\ Head(q) \in S /\ Tail(q) \in Seq(S) /\ Len(Tail(q)) = Len(q) - 1 /\ Len(q) \in Nat
         /\ ToSet(q) \subseteq ToSet(Tail(q)) \cup {Head(q)}
  <1>1. /\ Head(q) \in S /\ Tail(q) \in Seq(S) /\ Len(Tail(q)) = Len(q) - 1
        /\ Len(q) \in Nat /\ Head(q) = q[1]
        /\ \A i \in 1..(Len(q) - 1) : Tail(q)[i] = q[i + 1]
    OBVIOUS
  <1>2. DOMAIN q = 1..Len(q) /\ DOMAIN Tail(q) = 1..(Len(q) - 1)
    BY <1>1
  <1>3. ASSUME NEW i \in 1..Len(q) PROVE q[i] \in ToSet(Tail(q)) \cup {Head(q)}
    <2>1. CASE i = 1
      BY <1>1, <2>1
    <2>2. CASE i # 1
      <3>1. i - 1 \in 1..(Len(q) - 1) /\ Tail(q)[i - 1] = q[i]
        BY <1>1, <2>2
      <3> QED BY <1>2, <3>1 DEF ToSet
    <2> QED BY <2>1, <2>2
  <1> QED BY <1>1, <1>2, <1>3 DEF ToSet

(* The empty queue holds nobody. *)
LEMMA EmptySet == ToSet(<< >>) = {}
  BY DEF ToSet

-----------------------------------------------------------------------------
(* The invariant holds initially. *)
LEMMA InvInit == Init => IInv
  <1> SUFFICES ASSUME Init PROVE IInv
    OBVIOUS
  <1>1. backlog \in Seq(Clients) /\ Len(backlog) <= Backlog /\ counters \in [Counters -> 0..MaxBytes]
    BY StatsAssumption DEF Init
  <1>2. \A c \in Clients : DOMAIN seen[c] = {}
    BY DEF Init
  <1>3. TypeOK
    BY <1>1, <1>2, StatsAssumption DEF Init, TypeOK
  <1>4. ReadsAreFinal
    BY <1>2 DEF Init, ReadsAreFinal
  <1>5. ThreadHasWork /\ NobodyForgotten
    BY DEF Init, ThreadHasWork, NobodyForgotten
  <1> QED BY <1>3, <1>4, <1>5 DEF IInv

(* The process ends: every connection it holds is answered. *)
LEMMA DieKeeps ==
  ASSUME IInv, Die, UNCHANGED <<exhausted, counters, clientVars>>
  PROVE  IInv'
  <1>1. /\ main' = "dead" /\ thread' = "done" /\ revents' = {} /\ efd' = FALSE
        /\ backlog' = << >> /\ serving' = NoClient
        /\ inbox' = [c \in Clients |-> IF c \in ToSet(backlog) \cup {serving} THEN "eof" ELSE inbox[c]]
    BY DEF Die
  <1>2. UNCHANGED <<exhausted, counters, client, imm, sfd, seen, outcome>>
    BY DEF clientVars
  <1>3. backlog' \in Seq(Clients) /\ Len(backlog') <= Backlog
    BY <1>1, StatsAssumption
  <1>4. inbox' \in [Clients -> {"none", "fd", "eof"}]
    BY <1>1 DEF IInv, TypeOK
  <1>5. TypeOK'
    BY <1>1, <1>2, <1>3, <1>4 DEF IInv, TypeOK
  <1>6. ThreadHasWork' /\ ReadsAreFinal'
    BY <1>1, <1>2 DEF IInv, ThreadHasWork, ReadsAreFinal
  <1>7. NobodyForgotten'
    BY <1>1, <1>2 DEF IInv, NobodyForgotten
  <1> QED BY <1>5, <1>6, <1>7 DEF IInv

(* A step of the process other than its end. *)
LEMMA ProcessKeeps ==
  ASSUME IInv,
         \/ Construct \/ OpenOrClose \/ Destroy \/ Joined
         \/ \E k \in Counters, n \in 1..MaxBytes : statsAdd(k, n)
  PROVE  IInv'
  <1>1. /\ UNCHANGED <<revents, backlog, serving, inbox, client, imm, sfd, seen, outcome>>
        /\ main' \in {"start", "up", "joining", "stopped", "dead"}
        /\ main = "dead" => main' = "dead" /\ counters' = counters
        /\ \/ thread' = thread
           \/ thread = "none" /\ thread' = "starting"
        /\ main' = "start" => main = "start" /\ thread' = thread
        /\ efd' \in BOOLEAN /\ exhausted' \in BOOLEAN
    BY DEF Construct, OpenOrClose, Destroy, Joined, statsAdd, serverVars, clientVars, IInv, TypeOK,
           ThreadHasWork
  <1>2. counters' \in [Counters -> 0..MaxBytes]
    BY DEF Construct, OpenOrClose, Destroy, Joined, statsAdd, IInv, TypeOK
  <1>3. TypeOK'
    BY <1>1, <1>2 DEF IInv, TypeOK
  <1>4. ThreadHasWork' /\ ReadsAreFinal'
    BY <1>1 DEF IInv, ThreadHasWork, ReadsAreFinal
  <1>5. NobodyForgotten'
    BY <1>1 DEF IInv, NobodyForgotten, Listening
  <1> QED BY <1>3, <1>4, <1>5 DEF IInv

(* A step of StatsServer::threadFn.  A connection that leaves the listen    *)
(* queue is being served or has been answered.                              *)
LEMMA ThreadKeeps ==
  ASSUME IInv,
         \/ ThreadListen \/ Poll \/ PollFails \/ AcceptFails \/ Accept \/ Serve
  PROVE  IInv'
  <1>1. /\ UNCHANGED <<main, efd, exhausted, counters, client, imm, sfd, seen, outcome>>
        /\ thread \in {"starting", "poll", "ready", "serve"} /\ main # "start"
    BY DEF ThreadListen, Poll, PollFails, AcceptFails, Accept, Serve, clientVars, IInv, ThreadHasWork
  <1>2. ReadsAreFinal'
    BY <1>1 DEF IInv, ReadsAreFinal
  <1>3. backlog \in Seq(Clients) /\ Len(backlog) <= Backlog
    BY DEF IInv, TypeOK
  <1>4. << >> \in Seq(Clients) /\ Len(<< >>) <= Backlog
    BY StatsAssumption
  <1>5. CASE ThreadListen \/ Poll
    <2>1. /\ inbox' = inbox /\ serving' = NoClient /\ serving = NoClient
          /\ revents' \subseteq {"sock", "efd"}
          /\ \/ thread' = "poll" /\ backlog' = backlog
             \/ thread' = "ready" /\ backlog' = backlog /\ backlog # << >>
             \/ thread' = "done" /\ backlog' = << >>
      BY <1>5 DEF ThreadListen, Poll, ThreadReturns, IInv, TypeOK
    <2>2. TypeOK'
      BY <1>1, <1>3, <1>4, <2>1 DEF IInv, TypeOK
    <2>3. ThreadHasWork'
      BY <1>1, <2>1 DEF ThreadHasWork
    <2>4. thread' = "done" => thread = "starting" \/ backlog = << >>
      BY <1>5, <2>1 DEF ThreadListen, Poll
    <2>5. NobodyForgotten'
      BY <1>1, <2>1, <2>4, EmptySet, StatsAssumption DEF IInv, NobodyForgotten, Listening, TypeOK
    <2> QED BY <1>2, <2>2, <2>3, <2>5 DEF IInv
  <1>6. CASE PollFails
    <2>1. /\ thread' = "done" /\ revents' = {} /\ backlog' = << >> /\ serving' = NoClient
          /\ serving = NoClient
          /\ inbox' = [c \in Clients |-> IF c \in ToSet(backlog) THEN "eof" ELSE inbox[c]]
      BY <1>6 DEF PollFails, ThreadReturns, IInv, TypeOK
    <2>2. inbox' \in [Clients -> {"none", "fd", "eof"}]
      BY <2>1 DEF IInv, TypeOK
    <2>3. TypeOK'
      BY <1>1, <1>4, <2>1, <2>2 DEF IInv, TypeOK
    <2>4. ThreadHasWork'
      BY <1>1, <2>1 DEF ThreadHasWork
    <2>5. NobodyForgotten'
      BY <1>1, <2>1, StatsAssumption DEF IInv, NobodyForgotten
    <2> QED BY <1>2, <2>3, <2>4, <2>5 DEF IInv
  <1>7. CASE AcceptFails
    <2>1. thread' = "poll" /\ revents' = {} /\ UNCHANGED <<backlog, serving, inbox>> /\ thread = "ready"
      BY <1>7 DEF AcceptFails
    <2>2. TypeOK'
      BY <1>1, <2>1 DEF IInv, TypeOK
    <2>3. ThreadHasWork' /\ NobodyForgotten'
      BY <1>1, <2>1 DEF IInv, ThreadHasWork, NobodyForgotten, Listening
    <2> QED BY <1>2, <2>2, <2>3 DEF IInv
  <1>8. CASE Accept
    <2>1. /\ thread = "ready" /\ backlog # << >> /\ UNCHANGED <<revents, inbox>>
          /\ serving' = Head(backlog) /\ backlog' = Tail(backlog) /\ thread' = "serve"
      BY <1>8 DEF Accept, IInv, ThreadHasWork
    <2>2. /\ Head(backlog) \in Clients /\ Tail(backlog) \in Seq(Clients) /\ Len(Tail(backlog)) <= Backlog
          /\ ToSet(backlog) \subseteq ToSet(Tail(backlog)) \cup {Head(backlog)}
      <3>1. /\ Head(backlog) \in Clients /\ Tail(backlog) \in Seq(Clients)
            /\ Len(Tail(backlog)) = Len(backlog) - 1 /\ Len(backlog) \in Nat
            /\ ToSet(backlog) \subseteq ToSet(Tail(backlog)) \cup {Head(backlog)}
        BY <1>3, <2>1, TailSet
      <3> QED BY <1>3, <3>1, StatsAssumption
    <2>3. serving = NoClient
      BY <2>1 DEF IInv, TypeOK
    <2>4. TypeOK'
      BY <1>1, <2>1, <2>2, StatsAssumption DEF IInv, TypeOK
    <2>5. ThreadHasWork'
      BY <1>1, <2>1 DEF ThreadHasWork
    <2>6. NobodyForgotten'
      BY <1>1, <2>1, <2>2, <2>3, StatsAssumption DEF IInv, NobodyForgotten, Listening
    <2> QED BY <1>2, <2>4, <2>5, <2>6 DEF IInv
  <1>9. CASE Serve
    <2>1. PICK sent \in {"fd", "eof"} :
            inbox' = [c \in Clients |->
                        CASE c = serving -> sent
                          [] c # serving /\ "efd" \in revents /\ c \in ToSet(backlog) -> "eof"
                          [] OTHER -> inbox[c]]
      BY <1>9 DEF Serve
    <2>2. \A c \in Clients :
            /\ inbox'[c] \in {"none", "fd", "eof"} /\ (c = serving => inbox'[c] # "none")
            /\ inbox'[c] = "none" => inbox[c] = "none" /\ ~("efd" \in revents /\ c \in ToSet(backlog))
      BY <2>1 DEF IInv, TypeOK
    <2>3. /\ serving' = NoClient /\ revents' = {} /\ thread = "serve"
          /\ \/ "efd" \in revents /\ thread' = "done" /\ backlog' = << >>
             \/ "efd" \notin revents /\ thread' = "poll" /\ backlog' = backlog
      BY <1>9 DEF Serve, ThreadReturns
    <2>4. inbox' \in [Clients -> {"none", "fd", "eof"}]
      BY <2>1, <2>2
    <2>5. TypeOK'
      BY <1>1, <1>3, <1>4, <2>3, <2>4 DEF IInv, TypeOK
    <2>6. ThreadHasWork'
      BY <1>1, <2>3 DEF ThreadHasWork
    <2>7. NobodyForgotten'
      BY <1>1, <2>2, <2>3 DEF IInv, NobodyForgotten, Listening
    <2> QED BY <1>2, <2>5, <2>6, <2>7 DEF IInv
  <1> QED BY <1>5, <1>6, <1>7, <1>8, <1>9

(* A step of ais-stats.  A client waits in recvFd only after its connection *)
(* joined the queue of a listening socket, and reports without -i only once *)
(* it has seen the process exit.                                            *)
LEMMA ClientKeeps ==
  ASSUME IInv, NEW c \in Clients,
         ClientStep(c) \/ RecvInterrupted(c) \/ WaitInterrupted(c) \/ ClientKilled(c)
  PROVE  IInv'
  <1>1. UNCHANGED <<main, thread, revents, efd, serving, exhausted, counters, imm>>
    BY DEF ClientStep, CreateContext, PollProcess, Connect, RecvFd, WaitExit, ReportFails, ReadCounter,
           WriteReport, RecvInterrupted, WaitInterrupted, ClientKilled, serverVars, clientVars
  <1>2. CASE Connect(c) /\ client'[c] = "recv"
    <2>1. /\ Listening /\ Len(backlog) < Backlog /\ backlog' = Append(backlog, c)
          /\ client' = [client EXCEPT ![c] = "recv"] /\ UNCHANGED <<sfd, seen, outcome>>
          /\ inbox' = [inbox EXCEPT ![c] = "none"]
      BY <1>2 DEF Connect, Goes, IInv, TypeOK
    <2>2. backlog \in Seq(Clients)
      BY DEF IInv, TypeOK
    <2>3. /\ backlog' \in Seq(Clients) /\ Len(backlog') <= Backlog /\ backlog' # << >>
          /\ ToSet(backlog') = ToSet(backlog) \cup {c}
      BY <2>1, <2>2, AppendSet, StatsAssumption
    <2>4. /\ client' \in [Clients -> {"start", "poll", "connect", "recv", "wait", "report", "end"}]
          /\ inbox' \in [Clients -> {"none", "fd", "eof"}]
      BY <2>1 DEF IInv, TypeOK
    <2>5. TypeOK'
      BY <1>1, <2>1, <2>3, <2>4 DEF IInv, TypeOK
    <2>6. ThreadHasWork'
      BY <1>1, <2>3 DEF IInv, ThreadHasWork
    <2>7. ReadsAreFinal'
      BY <1>1, <2>1 DEF IInv, TypeOK, ReadsAreFinal
    <2>8. NobodyForgotten'
      BY <1>1, <2>1, <2>3 DEF IInv, TypeOK, NobodyForgotten, Listening
    <2> QED BY <2>5, <2>6, <2>7, <2>8 DEF IInv
  <1>3. CASE \E k \in Counters : ReadCounter(c, k)
    <2>1. PICK k \in Counters : ReadCounter(c, k)
      BY <1>3
    <2>2. /\ client[c] = "report" /\ k \notin DOMAIN seen[c] /\ UNCHANGED <<backlog, inbox, client, sfd, outcome>>
          /\ seen' = [seen EXCEPT ![c] = [j \in DOMAIN @ \cup {k} |-> IF j = k THEN counters[k] ELSE @[j]]]
      BY <2>1 DEF ReadCounter, serverVars
    <2>3. /\ seen'[c] = [j \in DOMAIN seen[c] \cup {k} |-> IF j = k THEN counters[k] ELSE seen[c][j]]
          /\ seen' = [x \in Clients |-> seen'[x]]
          /\ \A x \in Clients : x # c => seen'[x] = seen[x]
      BY <2>2 DEF IInv, ReadsAreFinal
    <2>4. /\ DOMAIN seen'[c] = DOMAIN seen[c] \cup {k}
          /\ \A j \in DOMAIN seen'[c] : seen'[c][j] = IF j = k THEN counters[k] ELSE seen[c][j]
      BY <2>3
    <2>5. TypeOK'
      BY <1>1, <2>2, <2>3, <2>4 DEF IInv, TypeOK
    <2>6. ThreadHasWork' /\ NobodyForgotten'
      BY <1>1, <2>2 DEF IInv, ThreadHasWork, NobodyForgotten, Listening
    <2>7. ReadsAreFinal'
      BY <1>1, <2>2, <2>3, <2>4 DEF IInv, ReadsAreFinal
    <2> QED BY <2>5, <2>6, <2>7 DEF IInv
  <1>4. CASE ~(\E k \in Counters : ReadCounter(c, k)) /\ ~(Connect(c) /\ client'[c] = "recv")
    <2> USE DEF Goes, Ends
    <2>1. /\ UNCHANGED <<backlog, inbox, seen>>
          /\ \A x \in Clients : x # c => client'[x] = client[x] /\ outcome'[x] = outcome[x]
          /\ client'[c] # "recv"
      BY <1>4 DEF ClientStep, CreateContext, PollProcess, Connect, RecvFd, WaitExit, ReportFails,
           WriteReport, RecvInterrupted, WaitInterrupted, ClientKilled, serverVars, clientVars, IInv, TypeOK
    <2>2. client' \in [Clients -> {"start", "poll", "connect", "recv", "wait", "report", "end"}]
      <3>1. \/ client' = client
            \/ \E s \in {"start", "poll", "connect", "recv", "wait", "report", "end"} :
                 client' = [client EXCEPT ![c] = s]
        BY <1>4 DEF ClientStep, CreateContext, PollProcess, Connect, RecvFd, WaitExit, ReportFails,
             WriteReport, RecvInterrupted, WaitInterrupted, ClientKilled, clientVars
      <3> QED BY <3>1 DEF IInv, TypeOK
    <2>3. outcome' \in [Clients -> {"none", "NotFound", "NotAccessible", "ReportFailed", "Success",
                                    "Killed"}]
      BY <1>4 DEF ClientStep, CreateContext, PollProcess, Connect, RecvFd, WaitExit, ReportFails,
           WriteReport, RecvInterrupted, WaitInterrupted, ClientKilled, serverVars, clientVars, IInv, TypeOK
    <2>4. sfd' \in [Clients -> BOOLEAN]
      BY <1>4 DEF ClientStep, CreateContext, PollProcess, Connect, RecvFd, WaitExit, ReportFails,
           WriteReport, RecvInterrupted, WaitInterrupted, ClientKilled, serverVars, clientVars, IInv, TypeOK
    <2>5. /\ client'[c] = "report" /\ ~imm[c] => main = "dead"
          /\ outcome'[c] = "Success" =>
               \/ outcome[c] = "Success"
               \/ client[c] = "report" /\ DOMAIN seen[c] = Counters
      BY <1>4 DEF ClientStep, CreateContext, PollProcess, Connect, RecvFd, WaitExit, ReportFails,
           WriteReport, RecvInterrupted, WaitInterrupted, ClientKilled, serverVars, clientVars, IInv, TypeOK
    <2>6. TypeOK'
      BY <1>1, <2>1, <2>2, <2>3, <2>4 DEF IInv, TypeOK
    <2>7. ThreadHasWork' /\ NobodyForgotten'
      BY <1>1, <2>1 DEF IInv, ThreadHasWork, NobodyForgotten, Listening
    <2>8. ReadsAreFinal'
      BY <1>1, <2>1, <2>5 DEF IInv, ReadsAreFinal
    <2> QED BY <2>6, <2>7, <2>8 DEF IInv
  <1> QED BY <1>2, <1>3, <1>4

(* Every step preserves the invariant. *)
LEMMA InvStep == IInv /\ [Next]_vars => IInv'
  <1> SUFFICES ASSUME IInv, [Next]_vars PROVE IInv'
    OBVIOUS
  <1>1. CASE Construct \/ OpenOrClose \/ Destroy \/ Joined
    BY <1>1, ProcessKeeps
  <1>2. ASSUME NEW k \in Counters, NEW n \in 1..MaxBytes, statsAdd(k, n) PROVE IInv'
    BY <1>2, ProcessKeeps
  <1>3. CASE Exited \/ Killed \/ ServeBrokenPipe
    BY <1>3, DieKeeps DEF Exited, Killed, ServeBrokenPipe
  <1>4. CASE ThreadListen \/ Poll \/ PollFails \/ AcceptFails \/ Accept \/ Serve
    BY <1>4, ThreadKeeps
  <1>5. ASSUME NEW c \in Clients,
               ClientStep(c) \/ RecvInterrupted(c) \/ WaitInterrupted(c) \/ ClientKilled(c)
        PROVE  IInv'
    BY <1>5, ClientKeeps
  <1>6. CASE UNCHANGED vars
    BY <1>6 DEF vars, serverVars, clientVars, IInv, TypeOK, ThreadHasWork, ReadsAreFinal,
                NobodyForgotten, Listening
  <1> QED BY <1>1, <1>2, <1>3, <1>4, <1>5, <1>6 DEF Next, ServerThread

-----------------------------------------------------------------------------
(* IInv is an invariant: threadFn keeps account of every connection, and a   *)
(* client that waits for the exit reads counters that no longer change.     *)
THEOREM Invariant == Spec => []IInv
  BY InvInit, InvStep, PTL DEF Spec

(* Every variable keeps its type: the listen queue stays within its length, *)
(* no counter passes its bound, and a connection is served only while the   *)
(* thread serves.                                                           *)
THEOREM TypeCorrect == Spec => []TypeOK
  <1>1. IInv => TypeOK
    BY DEF IInv
  <1> QED BY <1>1, Invariant, PTL

(* ais-stats without -i reports the final counters: it starts to read after *)
(* hipFileStatsPollTargetProcess saw the exit, and they do not change then. *)
THEOREM FinalReports == Spec => []WaitingReportIsFinal
  <1>1. IInv => WaitingReportIsFinal
    BY DEF IInv, ReadsAreFinal, WaitingReportIsFinal
  <1> QED BY <1>1, Invariant, PTL

(* A client that waits in recvFd is in the queue of a socket that still     *)
(* listens, or is being served, or has its answer: threadFn closes or       *)
(* answers every connection it takes or leaves behind.                      *)
THEOREM NoneForgotten == Spec => []NobodyForgotten
  <1>1. IInv => NobodyForgotten
    BY DEF IInv
  <1> QED BY <1>1, Invariant, PTL

=============================================================================
