----------------------------- MODULE StatsServer -----------------------------
(***************************************************************************)
(* The statistics of a process that uses hipFile and the ais-stats clients *)
(* that read them (stats.cpp, hipfile-stats.cpp, tools/ais-stats).  The    *)
(* StatsServer's thread hands the descriptor of a shared memory segment to *)
(* every client that connects; a client maps it and reads the counters, at *)
(* once or when the process has exited.                                    *)
(*                                                                         *)
(* Sockets, the eventfd and the pidfd are the kernel's (external): a       *)
(* connection waits in the backlog until it is accepted, closing the       *)
(* listening socket ends the connections in the backlog, and the process's *)
(* descriptors are closed before its exit can be polled.                   *)
(***************************************************************************)
EXTENDS Integers, Sequences, SequencesExt

CONSTANTS
    Clients,   \* runs of ais-stats
    Counters,  \* StatsCounters
    Level,     \* Stats::level
    Backlog,   \* length of the listen queue
    MaxBytes,  \* bound on a counter (a uint64_t in the code)
    NoClient   \* no connection

Levels == {"Disabled", "Basic", "Detailed", "Max"}

ASSUME StatsAssumption ==
    Level \in Levels /\ Backlog \in Nat \ {0} /\ MaxBytes \in Nat /\ NoClient \notin Clients

VARIABLES
    main,      \* the process: "start", "up", "joining", "stopped", "dead"
    thread,    \* StatsServer::threadFn: "none", "starting", "poll", "ready",
               \* "serve", "done"
    revents,   \* what its last poll reported
    efd,       \* m_efd was written
    exhausted, \* the process has no descriptor left
    backlog,   \* connections not yet accepted
    serving,   \* the connection accepted last, until it is closed
    counters,  \* Stats::counters
    client,    \* where each client is
    imm,       \* the client was given -i
    inbox,     \* what its socket delivers next: "none", "fd", "eof"
    sfd,       \* StatsClient::m_sfd is a descriptor
    seen,      \* the counters it has read so far
    outcome    \* how it ended

serverVars == <<main, thread, revents, efd, backlog, serving>>
clientVars == <<client, imm, sfd, seen, outcome>>
vars       == <<serverVars, exhausted, counters, inbox, clientVars>>

Listening == thread \in {"poll", "ready", "serve"}

-----------------------------------------------------------------------------
Init ==
    /\ main = "start" /\ thread = "none" /\ revents = {}
    /\ efd = FALSE /\ exhausted = FALSE
    /\ backlog = << >> /\ serving = NoClient
    /\ counters = [k \in Counters |-> 0]
    /\ client = [c \in Clients |-> "start"]
    /\ imm \in [Clients -> BOOLEAN]
    /\ inbox = [c \in Clients |-> "none"]
    /\ sfd = [c \in Clients |-> FALSE]
    /\ seen = [c \in Clients |-> << >>]
    /\ outcome = [c \in Clients |-> "none"]

-----------------------------------------------------------------------------
(* The process *)

(* StatsServer::StatsServer when the library is loaded.  When it throws the *)
(* process ends (Killed).                                                   *)
Construct ==
    /\ main = "start"
    /\ main' = "up"
    /\ thread' = "starting"
    /\ UNCHANGED <<revents, efd, backlog, serving, exhausted, counters, inbox, clientVars>>

(* statsAddFastPathRead and its three siblings: n bytes more, at once. *)
statsAdd(k, n) ==
    /\ main = "up"
    /\ Level # "Disabled"
    /\ counters[k] + n <= MaxBytes
    /\ counters' = [counters EXCEPT ![k] = @ + n]
    /\ UNCHANGED <<serverVars, exhausted, inbox, clientVars>>

(* The application opens its last descriptor, or closes one. *)
OpenOrClose ==
    /\ main \in {"start", "up", "joining"}
    /\ exhausted' = ~exhausted
    /\ UNCHANGED <<serverVars, counters, inbox, clientVars>>

(* ~StatsServer that joins without waking the thread. *)
Destroy_NoEvent ==
    /\ main = "up"
    /\ main' = "joining"
    /\ UNCHANGED <<thread, revents, efd, backlog, serving, exhausted, counters, inbox, clientVars>>

(* ~StatsServer when the process exits: write m_efd, join. *)
Destroy ==
    /\ main = "up"
    /\ main' = "joining"
    /\ efd' = TRUE
    /\ UNCHANGED <<thread, revents, backlog, serving, exhausted, counters, inbox, clientVars>>

Joined ==
    /\ main = "joining"
    /\ thread = "done"
    /\ main' = "stopped"
    /\ UNCHANGED <<thread, revents, efd, backlog, serving, exhausted, counters, inbox, clientVars>>

(* The kernel closes what is left and the peers see the end. *)
Die ==
    /\ main' = "dead"
    /\ thread' = "done"
    /\ revents' = {} /\ efd' = FALSE
    /\ backlog' = << >> /\ serving' = NoClient
    /\ inbox' = [c \in Clients |-> IF c \in ToSet(backlog) \cup {serving} THEN "eof" ELSE inbox[c]]

Exited ==
    main = "stopped" /\ Die /\ UNCHANGED <<exhausted, counters, clientVars>>
Killed ==
    main \in {"start", "up", "joining"} /\ Die /\ UNCHANGED <<exhausted, counters, clientVars>>

-----------------------------------------------------------------------------
(* StatsServer::threadFn *)

(* The thread returns: its listening socket is closed. *)
ThreadReturns ==
    /\ thread' = "done"
    /\ revents' = {}
    /\ backlog' = << >>
    /\ serving' = NoClient

(* socket, bind and listen, of which any may fail. *)
ThreadListen ==
    /\ thread = "starting"
    /\ \/ thread' = "poll" /\ UNCHANGED <<revents, backlog, serving>>
       \/ ThreadReturns
    /\ UNCHANGED <<main, efd, exhausted, counters, inbox, clientVars>>

(* poll returns what is ready (an interrupted poll is repeated). *)
Poll ==
    /\ thread = "poll"
    /\ backlog # << >> \/ efd
    /\ IF backlog # << >>
       THEN /\ thread' = "ready"
            /\ revents' = {"sock"} \cup (IF efd THEN {"efd"} ELSE {})
            /\ UNCHANGED <<backlog, serving, inbox>>
       ELSE ThreadReturns /\ UNCHANGED inbox
    /\ UNCHANGED <<main, efd, exhausted, counters, clientVars>>

(* "Badness": poll fails for good and the thread gives up. *)
PollFails ==
    /\ thread = "poll"
    /\ ThreadReturns
    /\ inbox' = [c \in Clients |-> IF c \in ToSet(backlog) THEN "eof" ELSE inbox[c]]
    /\ UNCHANGED <<main, efd, exhausted, counters, clientVars>>

(* accept fails: the loop starts over without a look at m_efd. *)
AcceptFails ==
    /\ thread = "ready"
    /\ exhausted
    /\ thread' = "poll"
    /\ revents' = {}
    /\ UNCHANGED <<main, efd, backlog, serving, exhausted, counters, inbox, clientVars>>

Accept ==
    /\ thread = "ready"
    /\ ~exhausted
    /\ serving' = Head(backlog)
    /\ backlog' = Tail(backlog)
    /\ thread' = "serve"
    /\ UNCHANGED <<main, revents, efd, exhausted, counters, inbox, clientVars>>

(* sendFd fails and the connection stays open. *)
Serve_LeavesOpen ==
    /\ thread = "serve"
    /\ \E sent \in {"fd", "none"} : inbox' = [inbox EXCEPT ![serving] = sent]
    /\ thread' = "poll" /\ revents' = {}
    /\ UNCHANGED <<main, efd, backlog, serving, exhausted, counters, clientVars>>

(* sendFd, which may fail, close(conn), and the look at m_efd as the poll   *)
(* found it.  What is left in the backlog is closed with the socket.        *)
Serve ==
    /\ thread = "serve"
    /\ \E sent \in {"fd", "eof"} :
         inbox' = [c \in Clients |->
                     CASE c = serving -> sent
                       [] c # serving /\ "efd" \in revents /\ c \in ToSet(backlog) -> "eof"
                       [] OTHER -> inbox[c]]
    /\ \/ "efd" \in revents /\ ThreadReturns
       \/ /\ "efd" \notin revents
          /\ thread' = "poll" /\ revents' = {} /\ serving' = NoClient
          /\ UNCHANGED backlog
    /\ UNCHANGED <<main, efd, exhausted, counters, clientVars>>

(* sendFd to a client that is gone, with SIGPIPE left at its default: the   *)
(* process ends.                                                            *)
ServeBrokenPipe ==
    /\ thread = "serve"
    /\ client[serving] # "recv"
    /\ Die
    /\ UNCHANGED <<exhausted, counters, clientVars>>

-----------------------------------------------------------------------------
(* ais-stats and StatsClient *)

(* The client goes on in state s, or ends with r. *)
Goes(c, s) == client' = [client EXCEPT ![c] = s] /\ UNCHANGED outcome
Ends(c, r) ==
    /\ client' = [client EXCEPT ![c] = "end"]
    /\ outcome' = [outcome EXCEPT ![c] = r]

(* hipFileStatsCreateContext and the socket of connectServer. *)
CreateContext(c) ==
    /\ client[c] = "start"
    /\ Goes(c, "poll") \/ Ends(c, "NotFound") \/ Ends(c, "NotAccessible")
    /\ UNCHANGED <<serverVars, exhausted, counters, inbox, imm, sfd, seen>>

(* A loop that does not look at the process. *)
PollProcess_Always(c) ==
    /\ client[c] = "poll"
    /\ Goes(c, "connect")
    /\ UNCHANGED <<serverVars, exhausted, counters, inbox, imm, sfd, seen>>

(* connectServer's loop: pollProcess with a growing timeout. *)
PollProcess(c) ==
    /\ client[c] = "poll"
    /\ IF main = "dead" THEN Ends(c, "NotAccessible") ELSE Goes(c, "connect")
    /\ UNCHANGED <<serverVars, exhausted, counters, inbox, imm, sfd, seen>>

(* connect: refused without a listener, waiting while the queue is full. *)
Connect(c) ==
    /\ client[c] = "connect"
    /\ \/ /\ ~Listening
          /\ Goes(c, "poll")
          /\ UNCHANGED <<backlog, inbox>>
       \/ /\ Listening
          /\ Len(backlog) < Backlog
          /\ Goes(c, "recv")
          /\ backlog' = Append(backlog, c)
          /\ inbox' = [inbox EXCEPT ![c] = "none"]
    /\ UNCHANGED <<main, thread, revents, efd, serving, exhausted, counters, imm, sfd, seen>>

(* recvFd: a descriptor, or -1 at the end of the connection.  connectServer *)
(* returns true in either case.                                             *)
RecvFd(c) ==
    /\ client[c] = "recv"
    /\ inbox[c] # "none"
    /\ sfd' = [sfd EXCEPT ![c] = (inbox[c] = "fd")]
    /\ Goes(c, IF imm[c] THEN "report" ELSE "wait")
    /\ UNCHANGED <<serverVars, exhausted, counters, inbox, imm, seen>>

(* recvmsg is interrupted: -1 too, and the socket is closed. *)
RecvInterrupted(c) ==
    /\ client[c] = "recv"
    /\ inbox[c] = "none"
    /\ Goes(c, IF imm[c] THEN "report" ELSE "wait")
    /\ UNCHANGED <<serverVars, exhausted, counters, inbox, imm, sfd, seen>>

(* A wait that polls once and does not block. *)
WaitExit_NoBlock(c) ==
    /\ client[c] = "wait"
    /\ Goes(c, "report")
    /\ UNCHANGED <<serverVars, exhausted, counters, inbox, imm, sfd, seen>>

(* hipFileStatsPollTargetProcess, blocking. *)
WaitExit(c) ==
    /\ client[c] = "wait"
    /\ main = "dead"
    /\ Goes(c, "report")
    /\ UNCHANGED <<serverVars, exhausted, counters, inbox, imm, sfd, seen>>

(* Its poll is interrupted: taken for a process that cannot be accessed. *)
WaitInterrupted(c) ==
    /\ client[c] = "wait"
    /\ main # "dead"
    /\ Ends(c, "NotAccessible")
    /\ UNCHANGED <<serverVars, exhausted, counters, inbox, imm, sfd, seen>>

(* generateReport: no descriptor or no mapping, no report ... *)
ReportFails(c) ==
    /\ client[c] = "report"
    /\ Ends(c, "ReportFailed")
    /\ UNCHANGED <<serverVars, exhausted, counters, inbox, imm, sfd, seen>>

(* ... else the counters one after the other (generateReportV1) ... *)
ReadCounter(c, k) ==
    /\ client[c] = "report"
    /\ sfd[c]
    /\ k \notin DOMAIN seen[c]
    /\ seen' = [seen EXCEPT ![c] = [j \in DOMAIN @ \cup {k} |-> IF j = k THEN counters[k] ELSE @[j]]]
    /\ UNCHANGED <<serverVars, exhausted, counters, inbox, client, imm, sfd, outcome>>

(* ... and the text is written (hipFileStatsGenerateReport). *)
WriteReport(c) ==
    /\ client[c] = "report"
    /\ DOMAIN seen[c] = Counters
    /\ Ends(c, "Success")
    /\ UNCHANGED <<serverVars, exhausted, counters, inbox, imm, sfd, seen>>

(* The user interrupts ais-stats. *)
ClientKilled(c) ==
    /\ client[c] \notin {"start", "end"}
    /\ Ends(c, "Killed")
    /\ UNCHANGED <<serverVars, exhausted, counters, inbox, imm, sfd, seen>>

-----------------------------------------------------------------------------
ServerThread == ThreadListen \/ Poll \/ AcceptFails \/ Accept \/ Serve \/ ServeBrokenPipe

ClientStep(c) ==
    \/ CreateContext(c)
    \/ PollProcess(c)
    \/ Connect(c)
    \/ RecvFd(c)
    \/ WaitExit(c)
    \/ ReportFails(c)
    \/ \E k \in Counters : ReadCounter(c, k)
    \/ WriteReport(c)

Next ==
    \/ Construct
    \/ \E k \in Counters, n \in 1..MaxBytes : statsAdd(k, n)
    \/ OpenOrClose
    \/ Destroy \/ Joined \/ Exited \/ Killed
    \/ ServerThread
    \/ PollFails
    \/ \E c \in Clients :
         ClientStep(c) \/ RecvInterrupted(c) \/ WaitInterrupted(c) \/ ClientKilled(c)

(* Threads that can run do, and a process that has stopped its server ends. *)
(* Whether the process exits and ais-stats is started is up to the user; no *)
(* interruption and no failure of poll is relied on.                        *)
Fairness ==
    /\ WF_vars(ServerThread)
    /\ WF_vars(Joined) /\ WF_vars(Exited)
    /\ \A c \in Clients : WF_vars(client[c] # "start" /\ ClientStep(c))

Spec == Init /\ [][Next]_vars /\ Fairness

-----------------------------------------------------------------------------
(* Properties *)

TypeOK ==
    /\ main \in {"start", "up", "joining", "stopped", "dead"}
    /\ thread \in {"none", "starting", "poll", "ready", "serve", "done"}
    /\ revents \subseteq {"sock", "efd"}
    /\ efd \in BOOLEAN /\ exhausted \in BOOLEAN
    /\ backlog \in Seq(Clients) /\ Len(backlog) <= Backlog
    /\ serving \in Clients \cup {NoClient}
    /\ (serving # NoClient) <=> (thread = "serve")
    /\ counters \in [Counters -> 0..MaxBytes]
    /\ client \in [Clients -> {"start", "poll", "connect", "recv", "wait", "report", "end"}]
    /\ imm \in [Clients -> BOOLEAN]
    /\ inbox \in [Clients -> {"none", "fd", "eof"}]
    /\ sfd \in [Clients -> BOOLEAN]
    /\ \A c \in Clients : DOMAIN seen[c] \subseteq Counters
    /\ outcome \in [Clients -> {"none", "NotFound", "NotAccessible", "ReportFailed", "Success",
                                "Killed"}]

(* A client without -i reports what the process had counted in all: its     *)
(* report comes after the exit and no counter changes once it was read.     *)
WaitingReportIsFinal ==
    \A c \in Clients : (outcome[c] = "Success" /\ ~imm[c]) =>
      main = "dead" /\ \A k \in Counters : seen[c][k] = counters[k]

(* No client is forgotten: as long as it waits for its descriptor it is in  *)
(* the backlog of a thread that still listens, or being served, or has its  *)
(* answer.  connectServer waits in recvFd without looking at the process.   *)
NobodyForgotten ==
    \A c \in Clients : (client[c] = "recv" /\ inbox[c] = "none") =>
      Listening /\ (c \in ToSet(backlog) \/ serving = c)

(* The destructor's join returns, whatever clients do meanwhile, unless the *)
(* process has run out of descriptors: threadFn skips the eventfd whenever  *)
(* accept fails.                                                            *)
EventuallyStopped == (<>[]~exhausted) => ((main = "joining") ~> (main # "joining"))

(* ais-stats ends once the process has: neither the connect loop nor recvFd *)
(* nor the wait for the exit is left hanging.                               *)
ClientFinishes ==
    \A c \in Clients : (main = "dead" /\ client[c] # "start") ~> (client[c] = "end")

=============================================================================
