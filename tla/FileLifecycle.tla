---------------------------- MODULE FileLifecycle ----------------------------
(***************************************************************************)
(* The descriptors behind a registered file (file.cpp, file-descriptor.cpp):*)
(* the client's own, and a second one the library opens on the same file   *)
(* with the opposite O_DIRECT flag.  A FileDescriptor closes what it       *)
(* manages; it is moved from the UnregisteredFile, which a thread builds   *)
(* outside all locks, into the File that FileMap owns and I/O references.  *)
(*                                                                         *)
(* The process's descriptor table is the kernel's (external).  Numbers are *)
(* reused as soon as they are closed.  The application closes a descriptor *)
(* only when the library no longer uses it, and memory does not run out.   *)
(***************************************************************************)
EXTENDS Integers

CONSTANTS
    Threads,  \* application threads
    Inodes,   \* files
    Fds,      \* descriptor numbers
    Files,    \* addresses of File objects
    NoFd,     \* -1
    NoFile,   \* no File
    Closed    \* what a number that is not open refers to

Entries == [ino : Inodes, direct : BOOLEAN, by : {"client", "library"}]

ASSUME NullAssumption == NoFd \notin Fds /\ NoFile \notin Files /\ Closed \notin Entries
ASSUME DisjointAssumption == Threads \cap Files = {}

VARIABLES
    table,    \* the descriptor table: what each number refers to, and who opened it
    pc,       \* where each thread is in its call
    uf,       \* the UnregisteredFile on its stack
    object,   \* the File at each address
    from_fd,  \* FileMap's maps: the registered File of each client descriptor
    io_file   \* the File each thread's I/O references

vars == <<table, pc, uf, object, from_fd, io_file>>

(* A FileDescriptor: a number, and whether its destructor closes it. *)
Descriptors == [fd : Fds \cup {NoFd}, managed : BOOLEAN]
Empty == [fd |-> NoFd, managed |-> FALSE]
make_managed(fd)   == [fd |-> fd, managed |-> TRUE]
make_unmanaged(fd) == [fd |-> fd, managed |-> FALSE]

(* UnregisteredFile and File carry the same three descriptors.  An         *)
(* unbuffered_fd that is not there is Empty.                               *)
Carriers == [client : Descriptors, buffered : Descriptors, unbuffered : Descriptors]
NoCarrier == [client |-> Empty, buffered |-> Empty, unbuffered |-> Empty]
Managed(x) == {d.fd : d \in {e \in {x.client, x.buffered, x.unbuffered} : e.managed}} \ {NoFd}

(* ~FileDescriptor of everything in x. *)
Destroyed(tab, numbers) == [fd \in Fds |-> IF fd \in numbers THEN Closed ELSE tab[fd]]

Registered(f) == \E fd \in Fds : from_fd[fd] = f
InUse(f)      == \E t \in Threads : io_file[t] = f
Free(f)       == object[f] = NoCarrier

-----------------------------------------------------------------------------
Init ==
    /\ table = [fd \in Fds |-> Closed]
    /\ pc = [t \in Threads |-> "idle"]
    /\ uf = [t \in Threads |-> NoCarrier]
    /\ object = [f \in Files |-> NoCarrier]
    /\ from_fd = [fd \in Fds |-> NoFile]
    /\ io_file = [t \in Threads |-> NoFile]

-----------------------------------------------------------------------------
(* The application's own descriptors *)

ClientOpen(fd, i, direct) ==
    /\ table[fd] = Closed
    /\ table' = [table EXCEPT ![fd] = [ino |-> i, direct |-> direct, by |-> "client"]]
    /\ UNCHANGED <<pc, uf, object, from_fd, io_file>>

ClientClose(fd) ==
    /\ table[fd] # Closed
    /\ table[fd].by = "client"
    /\ \A t \in Threads : uf[t].client.fd # fd
    /\ \A f \in Files : object[f].client.fd # fd
    /\ table' = [table EXCEPT ![fd] = Closed]
    /\ UNCHANGED <<pc, uf, object, from_fd, io_file>>

-----------------------------------------------------------------------------
(* hipFileHandleRegister *)

(* The UnregisteredFile's initializers: statx, fcntl, getMountInfo.  (When  *)
(* one throws nothing has happened.)                                        *)
RegisterStat(t, fd) ==
    /\ pc[t] = "idle"
    /\ table[fd] # Closed
    /\ table[fd].by = "client"
    /\ uf' = [uf EXCEPT ![t] = [NoCarrier EXCEPT !.client = make_unmanaged(fd)]]
    /\ pc' = [pc EXCEPT ![t] = "open"]
    /\ UNCHANGED <<table, object, from_fd, io_file>>

(* The open of /proc/self/fd/N gives the number n. *)
OpenAgain(fd, n, direct) ==
    /\ table[n] = Closed
    /\ table' = [table EXCEPT ![n] = [ino |-> table[fd].ino, direct |-> direct, by |-> "library"]]

(* The first asks for the client's own flags again. *)
SecondFd_SameFlags(fd, n) == OpenAgain(fd, n, table[fd].direct)

SecondFd(fd, n) == OpenAgain(fd, n, ~table[fd].direct)

(* The constructor's body: the opposite of what the client has. *)
RegisterOpen(t, n) ==
    /\ pc[t] = "open"
    /\ LET fd == uf[t].client.fd IN
         /\ SecondFd(fd, n)
         /\ uf' = [uf EXCEPT ![t] =
                     IF table[fd].direct
                     THEN [@ EXCEPT !.unbuffered = make_unmanaged(fd), !.buffered = make_managed(n)]
                     ELSE [@ EXCEPT !.buffered = make_unmanaged(fd),
                                    !.unbuffered = make_managed(n)]]
    /\ pc' = [pc EXCEPT ![t] = "register"]
    /\ UNCHANGED <<object, from_fd, io_file>>

(* open fails.  A file without O_DIRECT for which it fails with EINVAL is   *)
(* registered with its one descriptor; every other failure throws.          *)
RegisterOpenFails(t) ==
    /\ pc[t] = "open"
    /\ LET fd == uf[t].client.fd IN
         \/ /\ ~table[fd].direct
            /\ uf' = [uf EXCEPT ![t] = [@ EXCEPT !.buffered = make_unmanaged(fd)]]
            /\ pc' = [pc EXCEPT ![t] = "register"]
         \/ /\ uf' = [uf EXCEPT ![t] = NoCarrier]
            /\ pc' = [pc EXCEPT ![t] = "idle"]
    /\ UNCHANGED <<table, object, from_fd, io_file>>

(* FileDescriptor's move constructor: what stays behind.  The first leaves  *)
(* the number and the duty to close it where they were.                     *)
MovedFrom_Copied(x) == x
MovedFrom(x) == NoCarrier

(* FileMap::registerFile, under the lock: the descriptors move into a new   *)
(* File, or the descriptor is registered already.                           *)
registerFile(t) ==
    /\ pc[t] = "register"
    /\ \/ /\ from_fd[uf[t].client.fd] = NoFile
          /\ \E f \in Files :
               /\ Free(f)
               /\ object' = [object EXCEPT ![f] = uf[t]]
               /\ from_fd' = [from_fd EXCEPT ![uf[t].client.fd] = f]
          /\ uf' = [uf EXCEPT ![t] = MovedFrom(@)]
       \/ /\ from_fd[uf[t].client.fd] # NoFile
          /\ UNCHANGED <<object, from_fd, uf>>
    /\ pc' = [pc EXCEPT ![t] = "return"]
    /\ UNCHANGED <<table, io_file>>

(* An UnregisteredFile whose descriptors nobody closes. *)
RegisterReturns_NoClose(t) ==
    /\ pc[t] = "return"
    /\ uf' = [uf EXCEPT ![t] = NoCarrier]
    /\ pc' = [pc EXCEPT ![t] = "idle"]
    /\ UNCHANGED <<table, object, from_fd, io_file>>

(* ~UnregisteredFile when hipFileHandleRegister returns. *)
RegisterReturns(t) ==
    /\ pc[t] = "return"
    /\ table' = Destroyed(table, Managed(uf[t]))
    /\ uf' = [uf EXCEPT ![t] = NoCarrier]
    /\ pc' = [pc EXCEPT ![t] = "idle"]
    /\ UNCHANGED <<object, from_fd, io_file>>

-----------------------------------------------------------------------------
(* ~File: the Files of gone lost their last shared_ptr. *)
FilesDestroyed(gone) ==
    /\ object' = [f \in Files |-> IF f \in gone THEN NoCarrier ELSE object[f]]
    /\ table' = Destroyed(table, UNION {Managed(object[f]) : f \in gone})

(* FileMap::deregisterFile: refused while I/O holds a reference. *)
deregisterFile(t, f) ==
    /\ pc[t] = "idle"
    /\ Registered(f)
    /\ ~InUse(f)
    /\ from_fd' = [fd \in Fds |-> IF from_fd[fd] = f THEN NoFile ELSE from_fd[fd]]
    /\ FilesDestroyed({f})
    /\ UNCHANGED <<pc, uf, io_file>>

(* FileMap::clear by the last hipFileDriverClose: Files in use live on. *)
clear(t) ==
    /\ pc[t] = "idle"
    /\ from_fd' = [fd \in Fds |-> NoFile]
    /\ FilesDestroyed({f \in Files : Registered(f) /\ ~InUse(f)})
    /\ UNCHANGED <<pc, uf, io_file>>

(* I/O takes a reference, and drops it. *)
IoBegin(t, f) ==
    /\ pc[t] = "idle"
    /\ Registered(f)
    /\ io_file' = [io_file EXCEPT ![t] = f]
    /\ pc' = [pc EXCEPT ![t] = "io"]
    /\ UNCHANGED <<table, uf, object, from_fd>>

(* The call ends with its reference in place. *)
IoEnd_KeepsReference(t) ==
    /\ pc[t] = "io"
    /\ pc' = [pc EXCEPT ![t] = "idle"]
    /\ UNCHANGED <<table, uf, object, from_fd, io_file>>

IoEnd(t) ==
    /\ pc[t] = "io"
    /\ io_file' = [io_file EXCEPT ![t] = NoFile]
    /\ pc' = [pc EXCEPT ![t] = "idle"]
    /\ FilesDestroyed({f \in {io_file[t]} :
                         ~Registered(f) /\ \A u \in Threads \ {t} : io_file[u] # f})
    /\ UNCHANGED <<uf, from_fd>>

-----------------------------------------------------------------------------
Next ==
    \/ \E fd \in Fds : ClientClose(fd)
    \/ \E fd \in Fds, i \in Inodes, d \in BOOLEAN : ClientOpen(fd, i, d)
    \/ \E t \in Threads :
         \/ \E fd \in Fds : RegisterStat(t, fd) \/ RegisterOpen(t, fd)
         \/ RegisterOpenFails(t)
         \/ registerFile(t)
         \/ RegisterReturns(t)
         \/ \E f \in Files : deregisterFile(t, f) \/ IoBegin(t, f)
         \/ clear(t)
         \/ IoEnd(t)

Spec == Init /\ [][Next]_vars

-----------------------------------------------------------------------------
(* Properties *)

(* Types; and a thread references a File only during its I/O (hipFileIo    *)
(* and its shared_ptrs), an UnregisteredFile only during its registration. *)
TypeOK ==
    /\ table \in [Fds -> Entries \cup {Closed}]
    /\ pc \in [Threads -> {"idle", "open", "register", "return", "io"}]
    /\ uf \in [Threads -> Carriers]
    /\ object \in [Files -> Carriers]
    /\ from_fd \in [Fds -> Files \cup {NoFile}]
    /\ io_file \in [Threads -> Files \cup {NoFile}]
    /\ \A t \in Threads : (io_file[t] # NoFile) <=> (pc[t] = "io")
    /\ \A t \in Threads : pc[t] \in {"idle", "io"} => uf[t] = NoCarrier

(* A File lives as long as the map or some thread's I/O references it. *)
Alive(f) == Registered(f) \/ InUse(f)

Owners(fd) ==
    {t \in Threads : fd \in Managed(uf[t])} \cup
    {f \in Files : Alive(f) /\ fd \in Managed(object[f])}

(* Every descriptor the library opened has exactly one owner, an           *)
(* UnregisteredFile or a File that somebody still references, and every    *)
(* owner's descriptor is open: nothing leaks through a failed or duplicate *)
(* registration or a File that outlives the map, nothing is closed twice.  *)

OwnedExactlyOnce ==
    \A fd \in Fds :
      IF table[fd] # Closed /\ table[fd].by = "library"
      THEN \E x \in Owners(fd) : Owners(fd) = {x}
      ELSE Owners(fd) = {}

(* As long as a File lives, registered or only referenced by I/O, its      *)
(* buffered and its unbuffered descriptor are open on the client's file,   *)
(* without and with O_DIRECT: the two backends never reach different files. *)
BothReachTheFile ==
    \A f \in Files : Alive(f) =>
      LET ino == table[object[f].client.fd].ino
          Is(d, direct) == table[d.fd] # Closed /\ table[d.fd].ino = ino
                             /\ table[d.fd].direct = direct
      IN  /\ Is(object[f].buffered, FALSE)
          /\ object[f].unbuffered # Empty => Is(object[f].unbuffered, TRUE)

=============================================================================
