------------------------- MODULE FileLifecycle_proofs -------------------------
(***************************************************************************)
(* Proofs about FileLifecycle, for any number of threads, files,           *)
(* descriptor numbers and addresses: every descriptor the library opens is *)
(* owned by one carrier, an UnregisteredFile or a File, which is           *)
(* referenced, and the two descriptors of a File stay on the same file.    *)
(*                                                                         *)
(* The carriers of threads and Files are treated alike: what a step does   *)
(* is to put something into a carrier, to move it, or to destroy it.       *)
(***************************************************************************)
EXTENDS FileLifecycle, TLAPS

Holders == Threads \cup Files

(* What each thread's stack and each address carries. *)
carrier == [h \in Holders |-> IF h \in Threads THEN uf[h] ELSE object[h]]

(* The number fd is open in the table tab, by the client or by the library. *)
OpenBy(tab, fd, who) == tab[fd] # Closed /\ tab[fd].by = who

(* The four shapes of a carrier: after RegisterStat, with the client's      *)
(* descriptor only, and with a second one n of either kind.                 *)
Looking(fd) ==
    [client |-> make_unmanaged(fd), buffered |-> Empty, unbuffered |-> Empty]
Single(fd) ==
    [client |-> make_unmanaged(fd), buffered |-> make_unmanaged(fd), unbuffered |-> Empty]
AddsDirect(fd, n) ==
    [client |-> make_unmanaged(fd), buffered |-> make_unmanaged(fd), unbuffered |-> make_managed(n)]
AddsBuffered(fd, n) ==
    [client |-> make_unmanaged(fd), buffered |-> make_managed(n), unbuffered |-> make_unmanaged(fd)]

(* The number n is the library's, on the client's file. *)
Second(tab, fd, n, direct) ==
    OpenBy(tab, n, "library") /\ tab[n].ino = tab[fd].ino /\ tab[n].direct = direct

Sound(tab, x) ==
    \/ x = NoCarrier
    \/ \E fd \in Fds :
         /\ OpenBy(tab, fd, "client")
         /\ \/ x = Looking(fd)
            \/ x = Single(fd) /\ tab[fd].direct = FALSE
            \/ \E n \in Fds :
                 \/ x = AddsDirect(fd, n) /\ tab[fd].direct = FALSE /\ Second(tab, fd, n, TRUE)
                 \/ x = AddsBuffered(fd, n) /\ tab[fd].direct = TRUE /\ Second(tab, fd, n, FALSE)

(* All carriers are sound, no two manage the same number, and what the      *)
(* library opened is managed.                                               *)
Owned(tab, car) ==
    /\ \A h \in Holders : Sound(tab, car[h])
    /\ \A h, h2 \in Holders, n \in Fds :
         n \in Managed(car[h]) /\ n \in Managed(car[h2]) => h = h2
    /\ \A n \in Fds : OpenBy(tab, n, "library") => \E h \in Holders : n \in Managed(car[h])

(* How far each thread's UnregisteredFile is built; a File is whole. *)
Progress ==
    /\ \A t \in Threads :
         /\ pc[t] = "open" => uf[t] # NoCarrier /\ uf[t].buffered = Empty
         /\ pc[t] = "register" => uf[t] # NoCarrier /\ uf[t].buffered # Empty
         /\ pc[t] = "return" => uf[t] = NoCarrier \/ uf[t].buffered # Empty
    /\ \A f \in Files : object[f] = NoCarrier \/ object[f].buffered # Empty

(* The Files in memory are those that somebody references. *)
Referenced == \A f \in Files : Alive(f) <=> object[f] # NoCarrier

IInv == TypeOK /\ Owned(table, carrier) /\ Progress /\ Referenced

-----------------------------------------------------------------------------
(* What each shape manages. *)
LEMMA ManagedOf ==
  /\ Managed(NoCarrier) = {}
  /\ \A fd \in Fds : Managed(Looking(fd)) = {} /\ Managed(Single(fd)) = {}
  /\ \A fd, n \in Fds : Managed(AddsDirect(fd, n)) = {n} /\ Managed(AddsBuffered(fd, n)) = {n}
  <1>1. Managed(NoCarrier) = {}
    BY DEF Managed, NoCarrier, Empty
  <1>2. ASSUME NEW fd \in Fds PROVE Managed(Looking(fd)) = {} /\ Managed(Single(fd)) = {}
    BY DEF Managed, Looking, Single, Empty, make_unmanaged
  <1>3. ASSUME NEW fd \in Fds, NEW n \in Fds
        PROVE  Managed(AddsDirect(fd, n)) = {n} /\ Managed(AddsBuffered(fd, n)) = {n}
    <2>1. \A x, m : m \in Managed(x) <=>
            m # NoFd /\ \E d \in {x.client, x.buffered, x.unbuffered} : d.managed /\ m = d.fd
      BY DEF Managed
    <2>2. n # NoFd
      BY NullAssumption
    <2>3. \A m : m \in Managed(AddsDirect(fd, n)) <=> m = n
      BY <2>1, <2>2 DEF AddsDirect, make_managed, make_unmanaged
    <2>4. \A m : m \in Managed(AddsBuffered(fd, n)) <=> m = n
      BY <2>1, <2>2 DEF AddsBuffered, make_managed, make_unmanaged
    <2> QED BY <2>3, <2>4
  <1> QED BY <1>1, <1>2, <1>3

(* The shapes are different, and carry the client's descriptor. *)
LEMMA Shapes ==
  ASSUME NEW fd \in Fds
  PROVE  /\ Looking(fd) # NoCarrier /\ Looking(fd).buffered = Empty /\ Looking(fd).client.fd = fd
         /\ Single(fd) # NoCarrier /\ Single(fd).buffered # Empty /\ Single(fd).client.fd = fd
         /\ \A n \in Fds :
              /\ AddsDirect(fd, n) # NoCarrier /\ AddsDirect(fd, n).buffered # Empty
              /\ AddsDirect(fd, n).client.fd = fd
              /\ AddsBuffered(fd, n) # NoCarrier /\ AddsBuffered(fd, n).buffered # Empty
              /\ AddsBuffered(fd, n).client.fd = fd
         /\ NoCarrier.client.fd = NoFd
  BY NullAssumption DEF Looking, Single, AddsDirect, AddsBuffered, NoCarrier, Empty, make_managed, make_unmanaged

(* A sound carrier manages numbers the library has open, and holds one the  *)
(* client has open.                                                         *)
LEMMA SoundUses ==
  ASSUME NEW tab, NEW x, Sound(tab, x)
  PROVE  /\ \A n \in Fds : n \in Managed(x) => OpenBy(tab, n, "library")
         /\ x # NoCarrier => x.client.fd \in Fds /\ OpenBy(tab, x.client.fd, "client")
  BY ManagedOf, Shapes DEF Sound, Second

(* It stays sound when none of its numbers changes. *)
LEMMA SoundKept ==
  ASSUME NEW tab, NEW tab2, NEW x, Sound(tab, x),
         \A n \in Fds : n \in Managed(x) \/ n = x.client.fd => tab2[n] = tab[n]
  PROVE  Sound(tab2, x)
  <1>1. CASE x = NoCarrier
    BY <1>1 DEF Sound
  <1>2. CASE x # NoCarrier
    <2>1. PICK fd \in Fds :
            /\ OpenBy(tab, fd, "client")
            /\ \/ x = Looking(fd)
               \/ x = Single(fd) /\ tab[fd].direct = FALSE
               \/ \E n \in Fds :
                    \/ x = AddsDirect(fd, n) /\ tab[fd].direct = FALSE /\ Second(tab, fd, n, TRUE)
                    \/ x = AddsBuffered(fd, n) /\ tab[fd].direct = TRUE /\ Second(tab, fd, n, FALSE)
      BY <1>2 DEF Sound
    <2>2. tab2[fd] = tab[fd]
      <3>1. \/ x = Looking(fd) \/ x = Single(fd)
            \/ \E n \in Fds : x = AddsDirect(fd, n) \/ x = AddsBuffered(fd, n)
        BY <2>1
      <3>2. x.client.fd = fd
        BY <3>1, Shapes
      <3> QED BY <3>2
    <2>3. OpenBy(tab2, fd, "client")
      BY <2>1, <2>2 DEF OpenBy
    <2>4. CASE x = Looking(fd) \/ (x = Single(fd) /\ tab[fd].direct = FALSE)
      BY <2>2, <2>3, <2>4 DEF Sound
    <2>5. ASSUME NEW n \in Fds,
                 \/ x = AddsDirect(fd, n) /\ tab[fd].direct = FALSE /\ Second(tab, fd, n, TRUE)
                 \/ x = AddsBuffered(fd, n) /\ tab[fd].direct = TRUE /\ Second(tab, fd, n, FALSE)
          PROVE  Sound(tab2, x)
      <3>1. tab2[n] = tab[n]
        BY <2>5, ManagedOf
      <3>2. \A d : Second(tab, fd, n, d) => Second(tab2, fd, n, d)
        BY <2>2, <3>1 DEF Second, OpenBy
      <3> QED BY <2>2, <2>3, <2>5, <3>2 DEF Sound
    <2> QED BY <2>1, <2>4, <2>5
  <1> QED BY <1>1, <1>2

-----------------------------------------------------------------------------
(* The application opens a descriptor, or closes one that no carrier holds. *)
LEMMA ClientChanges ==
  ASSUME NEW tab, NEW tab2, NEW car, Owned(tab, car), NEW fd \in Fds,
         ~OpenBy(tab, fd, "library"), ~OpenBy(tab2, fd, "library"),
         \A n \in Fds : n # fd => tab2[n] = tab[n],
         \A h \in Holders : car[h].client.fd # fd
  PROVE  Owned(tab2, car)
  <1>2. ASSUME NEW h \in Holders PROVE Sound(tab2, car[h])
    <2>1. Sound(tab, car[h])
      BY DEF Owned
    <2>2. fd \notin Managed(car[h])
      BY <2>1, SoundUses
    <2> QED BY <2>1, <2>2, SoundKept
  <1>3. \A n \in Fds : OpenBy(tab2, n, "library") => OpenBy(tab, n, "library")
    BY DEF OpenBy
  <1> QED BY <1>2, <1>3 DEF Owned

(* A carrier that manages nothing is filled with another one. *)
LEMMA Fill ==
  ASSUME NEW tab, NEW car, NEW car2, Owned(tab, car), NEW h \in Holders, NEW x, Sound(tab, x),
         car2[h] = x, \A g \in Holders : g # h => car2[g] = car[g],
         Managed(car[h]) = {}, Managed(x) = {}
  PROVE  Owned(tab, car2)
  BY DEF Owned

(* The library opens the number n for the carrier h. *)
LEMMA FillSecond ==
  ASSUME NEW tab, NEW tab2, NEW car, NEW car2, Owned(tab, car),
         NEW h \in Holders, NEW x, NEW n \in Fds,
         tab[n] = Closed, \A m \in Fds : m # n => tab2[m] = tab[m], Sound(tab2, x),
         car2[h] = x, \A g \in Holders : g # h => car2[g] = car[g],
         Managed(car[h]) = {}, Managed(x) = {n}
  PROVE  Owned(tab2, car2)
  <1>3. ASSUME NEW g \in Holders, g # h PROVE Sound(tab2, car[g]) /\ n \notin Managed(car[g])
    <2>1. Sound(tab, car[g])
      BY DEF Owned
    <2>2. n \notin Managed(car[g])
      BY <2>1, SoundUses DEF OpenBy
    <2>3. car[g].client.fd # n
      BY <2>1, SoundUses, Shapes, NullAssumption DEF OpenBy
    <2> QED BY <2>1, <2>2, <2>3, SoundKept
  <1>4. \A m \in Fds : OpenBy(tab2, m, "library") => m = n \/ OpenBy(tab, m, "library")
    BY DEF OpenBy
  <1>5. \A g \in Holders : Sound(tab2, car2[g])
    BY <1>3
  <1>6. \A g, g2 \in Holders, m \in Fds : m \in Managed(car2[g]) /\ m \in Managed(car2[g2]) => g = g2
    BY <1>3 DEF Owned
  <1>7. \A m \in Fds : OpenBy(tab2, m, "library") => \E g \in Holders : m \in Managed(car2[g])
    BY <1>4 DEF Owned
  <1> QED BY <1>5, <1>6, <1>7 DEF Owned

(* The descriptors move from the carrier h to the empty carrier g. *)
LEMMA Move ==
  ASSUME NEW tab, NEW car, NEW car2, Owned(tab, car), NEW h \in Holders, NEW g \in Holders, g # h,
         car[g] = NoCarrier, car2[g] = car[h], car2[h] = NoCarrier,
         \A k \in Holders : k # g /\ k # h => car2[k] = car[k]
  PROVE  Owned(tab, car2)
  <1>1. \A n : n \notin Managed(NoCarrier)
    BY ManagedOf
  <1>2. \A k \in Holders : Sound(tab, car2[k])
    <2>1. Sound(tab, NoCarrier)
      BY DEF Sound
    <2> QED BY <2>1 DEF Owned
  <1>3. \A k, k2 \in Holders, n \in Fds : n \in Managed(car2[k]) /\ n \in Managed(car2[k2]) => k = k2
    BY <1>1 DEF Owned
  <1>4. \A n \in Fds : OpenBy(tab, n, "library") => \E k \in Holders : n \in Managed(car2[k])
    BY <1>1 DEF Owned
  <1> QED BY <1>2, <1>3, <1>4 DEF Owned

(* The carriers of gone are destroyed and what they manage is closed. *)
LEMMA Destroy ==
  ASSUME NEW tab \in [Fds -> Entries \cup {Closed}], NEW tab2, NEW car, NEW car2, Owned(tab, car),
         NEW gone \in SUBSET Holders,
         \A h \in Holders : car2[h] = IF h \in gone THEN NoCarrier ELSE car[h],
         tab2 = Destroyed(tab, UNION {Managed(car[h]) : h \in gone})
  PROVE  Owned(tab2, car2)
  <1> DEFINE N == UNION {Managed(car[h]) : h \in gone}
  <1>1. \A n \in Fds : (n \in N => tab2[n] = Closed) /\ (n \notin N => tab2[n] = tab[n])
    BY DEF Destroyed
  <1>2. \A n \in Fds : n \in N <=> \E h \in gone : n \in Managed(car[h])
    OBVIOUS
  <1> HIDE DEF N
  <1>3. \A n : n \notin Managed(NoCarrier)
    BY ManagedOf
  <1>4. ASSUME NEW h \in Holders PROVE Sound(tab2, car2[h])
    <2>1. CASE h \in gone
      BY <2>1 DEF Sound
    <2>2. CASE h \notin gone
      <3>1. Sound(tab, car[h]) /\ car2[h] = car[h]
        BY <2>2 DEF Owned
      <3>2. \A n \in Fds : n \in Managed(car[h]) => n \notin N
        BY <1>2, <2>2 DEF Owned
      <3>3. \A n \in Fds : n = car[h].client.fd => n \notin N
        <4>1. \A n \in Fds : n \in N => OpenBy(tab, n, "library")
          BY <1>2, SoundUses DEF Owned
        <4>2. \A n \in Fds : n = car[h].client.fd => OpenBy(tab, n, "client")
          BY <3>1, SoundUses, Shapes, NullAssumption
        <4> QED BY <4>1, <4>2 DEF OpenBy
      <3> QED BY <1>1, <3>1, <3>2, <3>3, SoundKept
    <2> QED BY <2>1, <2>2
  <1>5. \A h, h2 \in Holders, n \in Fds : n \in Managed(car2[h]) /\ n \in Managed(car2[h2]) => h = h2
    BY <1>3 DEF Owned
  <1>6. ASSUME NEW n \in Fds, OpenBy(tab2, n, "library") PROVE \E h \in Holders : n \in Managed(car2[h])
    <2>1. n \notin N /\ OpenBy(tab, n, "library")
      BY <1>1, <1>6 DEF OpenBy
    <2>2. PICK h \in Holders : n \in Managed(car[h])
      BY <2>1 DEF Owned
    <2> QED BY <1>2, <2>1, <2>2
  <1> QED BY <1>4, <1>5, <1>6 DEF Owned

-----------------------------------------------------------------------------
(* What each holder carries, in terms of the variables. *)
LEMMA CarrierOf ==
  /\ \A t \in Threads : t \in Holders /\ carrier[t] = uf[t] /\ carrier'[t] = uf'[t]
  /\ \A f \in Files : f \in Holders /\ carrier[f] = object[f] /\ carrier'[f] = object'[f]
  /\ \A h \in Holders : h \in Threads \/ h \in Files
  BY DisjointAssumption DEF carrier, Holders

(* The shapes are carriers. *)
LEMMA ShapeTypes ==
  /\ NoCarrier \in Carriers
  /\ \A fd \in Fds : Looking(fd) \in Carriers /\ Single(fd) \in Carriers
  /\ \A fd, n \in Fds : AddsDirect(fd, n) \in Carriers /\ AddsBuffered(fd, n) \in Carriers
  BY DEF NoCarrier, Carriers, Descriptors, Empty, Looking, Single, AddsDirect, AddsBuffered,
         make_managed, make_unmanaged

(* The assignments that build one shape from another. *)
LEMMA ShapeUpdates ==
  ASSUME NEW fd \in Fds
  PROVE  /\ [NoCarrier EXCEPT !.client = make_unmanaged(fd)] = Looking(fd)
         /\ [Looking(fd) EXCEPT !.buffered = make_unmanaged(fd)] = Single(fd)
         /\ \A n \in Fds :
              /\ [Looking(fd) EXCEPT !.unbuffered = make_unmanaged(fd), !.buffered = make_managed(n)]
                   = AddsBuffered(fd, n)
              /\ [Looking(fd) EXCEPT !.buffered = make_unmanaged(fd), !.unbuffered = make_managed(n)]
                   = AddsDirect(fd, n)
  <1>1. [NoCarrier EXCEPT !.client = make_unmanaged(fd)] = Looking(fd)
    BY DEF NoCarrier, Looking
  <1>2. [Looking(fd) EXCEPT !.buffered = make_unmanaged(fd)] = Single(fd)
    BY DEF Single, Looking
  <1>3. ASSUME NEW n \in Fds
        PROVE  [Looking(fd) EXCEPT !.unbuffered = make_unmanaged(fd), !.buffered = make_managed(n)]
                 = AddsBuffered(fd, n)
    <2> DEFINE r == [client |-> make_unmanaged(fd), buffered |-> Empty, unbuffered |-> make_unmanaged(fd)]
    <2>1. [Looking(fd) EXCEPT !.unbuffered = make_unmanaged(fd)] = r
      BY DEF Looking
    <2>2. [r EXCEPT !.buffered = make_managed(n)] = AddsBuffered(fd, n)
      BY DEF AddsBuffered
    <2> HIDE DEF r
    <2> QED BY <2>1, <2>2, Zenon
  <1>4. ASSUME NEW n \in Fds
        PROVE  [Looking(fd) EXCEPT !.buffered = make_unmanaged(fd), !.unbuffered = make_managed(n)]
                   = AddsDirect(fd, n)
    <2>1. [Single(fd) EXCEPT !.unbuffered = make_managed(n)] = AddsDirect(fd, n)
      BY DEF AddsDirect, Single
    <2> QED BY <1>2, <2>1, Zenon
  <1> QED BY <1>1, <1>2, <1>3, <1>4

(* The invariant holds initially. *)
LEMMA InvInit == Init => IInv
  <1> SUFFICES ASSUME Init PROVE IInv
    OBVIOUS
  <1>1. TypeOK
    BY ShapeTypes DEF Init, TypeOK
  <1>2. \A h \in Holders : carrier[h] = NoCarrier
    BY DEF Init, carrier, Holders
  <1>3. Owned(table, carrier)
    <2>1. Sound(table, NoCarrier)
      BY DEF Sound
    <2>2. \A n \in Fds : ~OpenBy(table, n, "library")
      BY DEF Init, OpenBy
    <2> QED BY <1>2, <2>1, <2>2, ManagedOf DEF Owned
  <1>4. Progress
    BY DEF Init, Progress
  <1>5. Referenced
    BY NullAssumption DEF Init, Referenced, Alive, Registered, InUse
  <1> QED BY <1>1, <1>3, <1>4, <1>5 DEF IInv

(* An UnregisteredFile whose second descriptor is not there yet. *)
LEMMA StillLooking ==
  ASSUME IInv, NEW t \in Threads, pc[t] = "open"
  PROVE  /\ uf[t].client.fd \in Fds /\ OpenBy(table, uf[t].client.fd, "client")
         /\ uf[t] = Looking(uf[t].client.fd)
  <1>1. Sound(table, uf[t]) /\ uf[t] # NoCarrier /\ uf[t].buffered = Empty
    BY CarrierOf DEF IInv, Owned, Progress
  <1>2. PICK fd \in Fds : OpenBy(table, fd, "client") /\ uf[t] = Looking(fd)
    BY <1>1, Shapes DEF Sound
  <1>3. uf[t].client.fd = fd
    BY <1>2, Shapes
  <1> QED BY <1>2, <1>3

(* A step of the application's own descriptors. *)
LEMMA ClientKeeps ==
  ASSUME IInv, NEW fd \in Fds,
         ClientClose(fd) \/ \E i \in Inodes, d \in BOOLEAN : ClientOpen(fd, i, d)
  PROVE  IInv'
  <1>1. UNCHANGED <<pc, uf, object, from_fd, io_file>>
    BY DEF ClientClose, ClientOpen
  <1>2. PICK e \in Entries \cup {Closed} :
          table' = [table EXCEPT ![fd] = e] /\ (e = Closed \/ e.by = "client")
    BY DEF ClientClose, ClientOpen, Entries
  <1>3. \A h \in Holders : Sound(table, carrier[h])
    BY DEF IInv, Owned
  <1>4. ~OpenBy(table, fd, "library") /\ \A h \in Holders : carrier[h].client.fd # fd
    <2>1. CASE ClientClose(fd)
      BY <2>1, CarrierOf DEF ClientClose, OpenBy
    <2>2. CASE table[fd] = Closed
      BY <1>3, <2>2, SoundUses, Shapes, NullAssumption DEF OpenBy
    <2> QED BY <2>1, <2>2 DEF ClientOpen
  <1>5. carrier' = carrier
    BY <1>1 DEF carrier
  <1>6. Owned(table', carrier')
    <2>1. ~OpenBy(table', fd, "library") /\ \A n \in Fds : n # fd => table'[n] = table[n]
      BY <1>2 DEF OpenBy, IInv, TypeOK
    <2> QED BY <1>4, <1>5, <2>1, ClientChanges DEF IInv
  <1>7. TypeOK'
    BY <1>1, <1>2 DEF IInv, TypeOK
  <1>8. Progress' /\ Referenced'
    BY <1>1 DEF IInv, Progress, Referenced, Alive, Registered, InUse
  <1> QED BY <1>6, <1>7, <1>8 DEF IInv

(* A thread builds its UnregisteredFile. *)
LEMMA BuildKeeps ==
  ASSUME IInv, NEW t \in Threads,
         RegisterOpenFails(t) \/ \E fd \in Fds : RegisterStat(t, fd)
  PROVE  IInv'
  <1>1. UNCHANGED <<table, object, from_fd, io_file>>
    BY DEF RegisterOpenFails, RegisterStat
  <1>2. PICK x : /\ uf' = [uf EXCEPT ![t] = x] /\ x \in Carriers
                 /\ Sound(table, x) /\ Managed(x) = {} /\ Managed(uf[t]) = {}
                 /\ \/ x = NoCarrier /\ pc' = [pc EXCEPT ![t] = "idle"]
                    \/ x # NoCarrier /\ x.buffered = Empty /\ pc' = [pc EXCEPT ![t] = "open"]
                    \/ x # NoCarrier /\ x.buffered # Empty /\ pc' = [pc EXCEPT ![t] = "register"]
    <2>1. ASSUME NEW fd \in Fds, RegisterStat(t, fd)
          PROVE  /\ uf' = [uf EXCEPT ![t] = Looking(fd)] /\ pc' = [pc EXCEPT ![t] = "open"]
                 /\ Sound(table, Looking(fd)) /\ uf[t] = NoCarrier
      <3>1. uf' = [uf EXCEPT ![t] = Looking(fd)] /\ pc' = [pc EXCEPT ![t] = "open"]
        BY <2>1, ShapeUpdates DEF RegisterStat
      <3>2. OpenBy(table, fd, "client") /\ uf[t] = NoCarrier
        BY <2>1 DEF RegisterStat, OpenBy, IInv, TypeOK
      <3> QED BY <3>1, <3>2 DEF Sound
    <2>2. CASE RegisterOpenFails(t)
      <3> DEFINE fd == uf[t].client.fd
      <3>1. fd \in Fds /\ OpenBy(table, fd, "client") /\ uf[t] = Looking(fd)
        BY <2>2, StillLooking DEF RegisterOpenFails
      <3>2. CASE uf' = [uf EXCEPT ![t] = NoCarrier] /\ pc' = [pc EXCEPT ![t] = "idle"]
        <4>1. Sound(table, NoCarrier)
          BY DEF Sound
        <4> QED BY <3>1, <3>2, <4>1, ManagedOf, ShapeTypes
      <3>3. CASE /\ ~table[fd].direct /\ pc' = [pc EXCEPT ![t] = "register"]
                 /\ uf' = [uf EXCEPT ![t] = [@ EXCEPT !.buffered = make_unmanaged(fd)]]
        <4>1. [uf[t] EXCEPT !.buffered = make_unmanaged(fd)] = Single(fd)
          BY <3>1 DEF Looking, Single
        <4>2. table[fd].direct = FALSE
          BY <3>1, <3>3 DEF IInv, TypeOK, Entries, OpenBy
        <4>3. uf' = [uf EXCEPT ![t] = Single(fd)]
          BY <3>3, <4>1 DEF IInv, TypeOK
        <4> HIDE DEF fd
        <4>4. Sound(table, Single(fd))
          BY <3>1, <4>2 DEF Sound
        <4>5. Managed(Single(fd)) = {} /\ Managed(uf[t]) = {} /\ Single(fd) \in Carriers
          BY <3>1, ManagedOf, ShapeTypes
        <4>6. Single(fd) # NoCarrier /\ Single(fd).buffered # Empty
          BY <3>1, Shapes
        <4> QED BY <3>3, <4>3, <4>4, <4>5, <4>6
      <3> QED BY <2>2, <3>2, <3>3 DEF RegisterOpenFails
    <2>3. ASSUME NEW fd \in Fds, RegisterStat(t, fd)
          PROVE  Looking(fd) \in Carriers /\ Managed(Looking(fd)) = {} /\ Managed(uf[t]) = {}
      BY <2>1, <2>3, ManagedOf, ShapeTypes
    <2> QED BY <2>1, <2>2, <2>3, Shapes
  <1>3. uf'[t] = x /\ \A u \in Threads : u # t => uf'[u] = uf[u] /\ pc'[u] = pc[u]
    BY <1>2 DEF IInv, TypeOK
  <1>4. t \in Holders /\ carrier[t] = uf[t] /\ carrier'[t] = x /\ \A h \in Holders : h # t => carrier'[h] = carrier[h]
    BY <1>1, <1>3, CarrierOf
  <1>5. Owned(table, carrier')
    BY <1>2, <1>4, Fill DEF IInv
  <1>6. pc[t] \in {"idle", "open"} /\ pc'[t] \in {"idle", "open", "register"}
    BY <1>2 DEF RegisterOpenFails, RegisterStat, IInv, TypeOK
  <1>7. TypeOK'
    BY <1>1, <1>2, <1>3, <1>6 DEF IInv, TypeOK
  <1>8. Progress'
    BY <1>1, <1>2, <1>3 DEF IInv, TypeOK, Progress
  <1>9. Referenced'
    BY <1>1 DEF IInv, Referenced, Alive, Registered, InUse
  <1> QED BY <1>1, <1>5, <1>7, <1>8, <1>9 DEF IInv

(* It opens the second descriptor. *)
LEMMA OpenKeeps ==
  ASSUME IInv, NEW t \in Threads, NEW n \in Fds, RegisterOpen(t, n)
  PROVE  IInv'
  <1> DEFINE fd == uf[t].client.fd
             e == [ino |-> table[fd].ino, direct |-> ~table[fd].direct, by |-> "library"]
             x == IF table[fd].direct THEN AddsBuffered(fd, n) ELSE AddsDirect(fd, n)
  <1>1. /\ UNCHANGED <<object, from_fd, io_file>> /\ pc[t] = "open" /\ pc' = [pc EXCEPT ![t] = "register"]
        /\ table[n] = Closed /\ table' = [table EXCEPT ![n] = e]
    BY DEF RegisterOpen, SecondFd, OpenAgain
  <1>2. fd \in Fds /\ OpenBy(table, fd, "client") /\ uf[t] = Looking(fd)
    BY <1>1, StillLooking
  <1>3. table[fd] \in Entries /\ table[fd].direct \in BOOLEAN /\ fd # n
    BY <1>1, <1>2 DEF OpenBy, IInv, TypeOK, Entries
  <1>4. uf' = [uf EXCEPT ![t] = x]
    <2>1. uf' = [uf EXCEPT ![t] =
                   IF table[fd].direct
                   THEN [uf[t] EXCEPT !.unbuffered = make_unmanaged(fd), !.buffered = make_managed(n)]
                   ELSE [uf[t] EXCEPT !.buffered = make_unmanaged(fd), !.unbuffered = make_managed(n)]]
      BY Zenon DEF RegisterOpen
    <2>2. /\ [uf[t] EXCEPT !.unbuffered = make_unmanaged(fd), !.buffered = make_managed(n)]
               = AddsBuffered(fd, n)
          /\ [uf[t] EXCEPT !.buffered = make_unmanaged(fd), !.unbuffered = make_managed(n)]
               = AddsDirect(fd, n)
      <3> HIDE DEF fd
      <3> QED BY <1>2, ShapeUpdates, Zenon
    <2> QED BY <2>1, <2>2, Zenon
  <1>5. e \in Entries /\ e # Closed /\ e.by = "library" /\ e.ino = table[fd].ino
    <2>1. (~table[fd].direct) \in BOOLEAN /\ table[fd].ino \in Inodes
      BY <1>3 DEF Entries
    <2>2. e \in Entries
      BY <2>1 DEF Entries
    <2> QED BY <2>2, NullAssumption
  <1>6. \/ table[fd].direct = TRUE /\ e.direct = FALSE /\ x = AddsBuffered(fd, n)
        \/ table[fd].direct = FALSE /\ e.direct = TRUE /\ x = AddsDirect(fd, n)
    BY <1>3
  <1> HIDE DEF e, x, fd
  <1>7. table'[n] = e /\ \A m \in Fds : m # n => table'[m] = table[m]
    BY <1>1 DEF IInv, TypeOK
  <1>8. Sound(table', x)
    <2>1. OpenBy(table', fd, "client") /\ table'[fd] = table[fd]
      BY <1>2, <1>3, <1>7 DEF OpenBy
    <2>2. Second(table', fd, n, e.direct)
      BY <1>5, <1>7, <2>1 DEF Second, OpenBy
    <2> QED BY <1>2, <1>6, <2>1, <2>2 DEF Sound
  <1>9. Managed(x) = {n} /\ Managed(uf[t]) = {} /\ x \in Carriers /\ x # NoCarrier /\ x.buffered # Empty
    BY <1>2, <1>6, ManagedOf, ShapeTypes, Shapes
  <1>10. uf'[t] = x /\ \A u \in Threads : u # t => uf'[u] = uf[u] /\ pc'[u] = pc[u]
    BY <1>1, <1>4 DEF IInv, TypeOK
  <1>11. t \in Holders /\ carrier[t] = uf[t] /\ carrier'[t] = x
         /\ \A h \in Holders : h # t => carrier'[h] = carrier[h]
    BY <1>1, <1>10, CarrierOf
  <1>12. Owned(table', carrier')
    <2>1. Owned(table, carrier) /\ Managed(carrier[t]) = {}
      BY <1>9, <1>11 DEF IInv
    <2>2. table[n] = Closed /\ \A m \in Fds : m # n => table'[m] = table[m]
      BY <1>1, <1>7
    <2>3. Sound(table', x) /\ Managed(x) = {n}
      BY <1>8, <1>9
    <2>4. t \in Holders /\ carrier'[t] = x /\ \A h \in Holders : h # t => carrier'[h] = carrier[h]
      BY <1>11
    <2> QED BY <2>1, <2>2, <2>3, <2>4, FillSecond
  <1>13. TypeOK'
    <2>1. table' \in [Fds -> Entries \cup {Closed}] /\ uf' \in [Threads -> Carriers]
      BY <1>1, <1>4, <1>5, <1>9 DEF IInv, TypeOK
    <2> QED BY <1>1, <1>10, <2>1 DEF IInv, TypeOK
  <1>14. Progress'
    BY <1>1, <1>9, <1>10 DEF IInv, TypeOK, Progress
  <1>15. Referenced'
    BY <1>1 DEF IInv, Referenced, Alive, Registered, InUse
  <1> QED BY <1>12, <1>13, <1>14, <1>15 DEF IInv

(* FileMap::registerFile moves the descriptors into a File, or refuses. *)
LEMMA RegisterKeeps ==
  ASSUME IInv, NEW t \in Threads, registerFile(t)
  PROVE  IInv'
  <1>1. /\ pc[t] = "register" /\ pc' = [pc EXCEPT ![t] = "return"] /\ UNCHANGED <<table, io_file>>
        /\ uf[t] # NoCarrier /\ uf[t].buffered # Empty
    BY DEF registerFile, IInv, Progress
  <1>2. pc'[t] = "return" /\ \A u \in Threads : u # t => pc'[u] = pc[u]
    BY <1>1 DEF IInv, TypeOK
  <1>3. CASE UNCHANGED <<object, from_fd, uf>>
    <2>1. carrier' = carrier
      BY <1>3 DEF carrier
    <2>2. Owned(table', carrier')
      BY <1>1, <2>1 DEF IInv
    <2>3. TypeOK'
      BY <1>1, <1>2, <1>3 DEF IInv, TypeOK
    <2>4. Progress'
      BY <1>1, <1>2, <1>3 DEF IInv, Progress
    <2>5. Referenced'
      BY <1>1, <1>3 DEF IInv, Referenced, Alive, Registered, InUse
    <2> QED BY <2>2, <2>3, <2>4, <2>5 DEF IInv
  <1>4. ASSUME NEW f \in Files, Free(f), from_fd[uf[t].client.fd] = NoFile,
               object' = [object EXCEPT ![f] = uf[t]],
               from_fd' = [from_fd EXCEPT ![uf[t].client.fd] = f],
               uf' = [uf EXCEPT ![t] = NoCarrier]
        PROVE  IInv'
    <2> DEFINE fd == uf[t].client.fd
    <2>1. fd \in Fds
      BY <1>1, CarrierOf, SoundUses DEF IInv, Owned
    <2>2. /\ object'[f] = uf[t] /\ object[f] = NoCarrier /\ uf'[t] = NoCarrier
          /\ \A g \in Files : g # f => object'[g] = object[g]
          /\ \A u \in Threads : u # t => uf'[u] = uf[u]
      BY <1>4 DEF IInv, TypeOK, Free
    <2>3. Owned(table, carrier')
      <3>1. t \in Holders /\ f \in Holders /\ t # f
        BY DisjointAssumption DEF Holders
      <3>2. /\ carrier[f] = NoCarrier /\ carrier'[f] = carrier[t] /\ carrier'[t] = NoCarrier
            /\ \A h \in Holders : h # f /\ h # t => carrier'[h] = carrier[h]
        BY <2>2, CarrierOf
      <3> QED BY <3>1, <3>2, Move DEF IInv
    <2>4. uf' \in [Threads -> Carriers] /\ object' \in [Files -> Carriers]
      BY <1>4, ShapeTypes DEF IInv, TypeOK
    <2>5. TypeOK'
      BY <1>1, <1>2, <1>4, <2>1, <2>2, <2>4 DEF IInv, TypeOK
    <2>6. Progress'
      BY <1>1, <1>2, <2>2 DEF IInv, Progress
    <2>7. Referenced'
      <3>1. from_fd'[fd] = f /\ from_fd[fd] = NoFile /\ \A n \in Fds : n # fd => from_fd'[n] = from_fd[n]
        BY <1>4, <2>1 DEF IInv, TypeOK
      <3>2. Alive(f)'
        BY <2>1, <3>1 DEF Alive, Registered
      <3>3. \A g \in Files : g # f => (Alive(g)' <=> Alive(g))
        <4>1. \A g \in Files : g # f => (Registered(g)' <=> Registered(g))
          BY <2>1, <3>1, NullAssumption DEF Registered
        <4>2. \A g \in Files : InUse(g)' <=> InUse(g)
          BY <1>1 DEF InUse
        <4> QED BY <4>1, <4>2 DEF Alive
      <3> QED BY <1>1, <2>2, <3>2, <3>3 DEF IInv, Referenced
    <2> QED BY <1>1, <2>3, <2>5, <2>6, <2>7 DEF IInv
  <1> QED BY <1>3, <1>4 DEF registerFile, MovedFrom

(* ~UnregisteredFile closes what was not moved. *)
LEMMA ReturnKeeps ==
  ASSUME IInv, NEW t \in Threads, RegisterReturns(t)
  PROVE  IInv'
  <1>1. /\ pc[t] = "return" /\ pc' = [pc EXCEPT ![t] = "idle"] /\ UNCHANGED <<object, from_fd, io_file>>
        /\ table' = Destroyed(table, Managed(uf[t])) /\ uf' = [uf EXCEPT ![t] = NoCarrier]
    BY DEF RegisterReturns
  <1>2. /\ pc'[t] = "idle" /\ uf'[t] = NoCarrier
        /\ \A u \in Threads : u # t => pc'[u] = pc[u] /\ uf'[u] = uf[u]
    BY <1>1 DEF IInv, TypeOK
  <1>3. Owned(table', carrier')
    <2> DEFINE gone == {t}
    <2>1. t \in Holders /\ gone \in SUBSET Holders
      BY DEF Holders
    <2>2. \A h \in Holders : carrier'[h] = IF h \in gone THEN NoCarrier ELSE carrier[h]
      BY <1>1, <1>2, CarrierOf
    <2>3. table' = Destroyed(table, UNION {Managed(carrier[h]) : h \in gone})
      <3>1. UNION {Managed(carrier[h]) : h \in gone} = Managed(uf[t])
        BY CarrierOf
      <3> QED BY <1>1, <3>1
    <2>4. Owned(table, carrier) /\ table \in [Fds -> Entries \cup {Closed}]
      BY DEF IInv, TypeOK
    <2> HIDE DEF gone
    <2> QED BY <2>1, <2>2, <2>3, <2>4, Destroy
  <1>4. TypeOK'
    <2>1. table' \in [Fds -> Entries \cup {Closed}]
      BY <1>1 DEF Destroyed, IInv, TypeOK
    <2> QED BY <1>1, <1>2, <2>1, ShapeTypes DEF IInv, TypeOK
  <1>5. Progress'
    BY <1>1, <1>2 DEF IInv, Progress
  <1>6. Referenced'
    BY <1>1 DEF IInv, Referenced, Alive, Registered, InUse
  <1> QED BY <1>3, <1>4, <1>5, <1>6 DEF IInv

(* ~File of the Files that are no longer referenced. *)
LEMMA FilesDestroyedKeeps ==
  ASSUME IInv, NEW gone \in SUBSET Files, FilesDestroyed(gone), uf' = uf,
         from_fd' \in [Fds -> Files \cup {NoFile}],
         pc' \in [Threads -> {"idle", "open", "register", "return", "io"}],
         io_file' \in [Threads -> Files \cup {NoFile}],
         \A t \in Threads : (io_file'[t] # NoFile) <=> (pc'[t] = "io"),
         \A t \in Threads : pc'[t] = pc[t] \/ (pc[t] \in {"idle", "io"} /\ pc'[t] \in {"idle", "io"}),
         \A f \in Files : Alive(f)' <=> Alive(f) /\ f \notin gone
  PROVE  IInv'
  <1>1. \A f \in Files : object'[f] = IF f \in gone THEN NoCarrier ELSE object[f]
    BY DEF FilesDestroyed
  <1>2. Owned(table', carrier')
    <2>1. gone \in SUBSET Holders
      BY DEF Holders
    <2>2. \A h \in Holders : carrier'[h] = IF h \in gone THEN NoCarrier ELSE carrier[h]
      BY <1>1, CarrierOf, DisjointAssumption
    <2>3. table' = Destroyed(table, UNION {Managed(carrier[h]) : h \in gone})
      <3>1. \A h \in gone : carrier[h] = object[h]
        BY CarrierOf
      <3>2. {Managed(carrier[h]) : h \in gone} = {Managed(object[h]) : h \in gone}
        BY <3>1
      <3> QED BY <3>2 DEF FilesDestroyed
    <2>4. Owned(table, carrier) /\ table \in [Fds -> Entries \cup {Closed}]
      BY DEF IInv, TypeOK
    <2> QED BY <2>1, <2>2, <2>3, <2>4, Destroy
  <1>3. TypeOK'
    <2>1. table' \in [Fds -> Entries \cup {Closed}] /\ object' \in [Files -> Carriers]
      BY ShapeTypes DEF FilesDestroyed, Destroyed, IInv, TypeOK
    <2> QED BY <2>1 DEF IInv, TypeOK
  <1>4. Progress'
    BY <1>1 DEF IInv, Progress
  <1>5. Referenced'
    BY <1>1 DEF IInv, Referenced
  <1> QED BY <1>2, <1>3, <1>4, <1>5 DEF IInv

(* Deregistration keeps it: the File goes if no I/O references it. *)
LEMMA DeregisterKeeps ==
  ASSUME IInv, NEW t \in Threads, NEW f \in Files, deregisterFile(t, f)
  PROVE  IInv'
  <1>1. /\ from_fd' = [fd \in Fds |-> IF from_fd[fd] = f THEN NoFile ELSE from_fd[fd]]
        /\ UNCHANGED <<pc, uf, io_file>> /\ FilesDestroyed({f}) /\ ~InUse(f) /\ {f} \in SUBSET Files
    BY DEF deregisterFile
  <1>2. \A g \in Files : Alive(g)' <=> Alive(g) /\ g \notin {f}
    <2>1. \A g \in Files : Registered(g)' <=> Registered(g) /\ g # f
      BY <1>1, NullAssumption DEF Registered
    <2>2. \A g \in Files : InUse(g)' <=> InUse(g)
      BY <1>1 DEF InUse
    <2> QED BY <1>1, <2>1, <2>2 DEF Alive
  <1>3. from_fd' \in [Fds -> Files \cup {NoFile}]
    BY <1>1 DEF IInv, TypeOK
  <1>4. /\ pc' \in [Threads -> {"idle", "open", "register", "return", "io"}]
        /\ io_file' \in [Threads -> Files \cup {NoFile}]
        /\ \A u \in Threads : (io_file'[u] # NoFile) <=> (pc'[u] = "io")
        /\ \A u \in Threads : pc'[u] = pc[u]
    BY <1>1 DEF IInv, TypeOK
  <1> QED BY <1>1, <1>2, <1>3, <1>4, FilesDestroyedKeeps

(* So does the last close, which drops all of the map. *)
LEMMA ClearKeeps ==
  ASSUME IInv, NEW t \in Threads, clear(t)
  PROVE  IInv'
  <1> DEFINE gone == {f \in Files : Registered(f) /\ ~InUse(f)}
  <1>1. /\ from_fd' = [fd \in Fds |-> NoFile]
        /\ UNCHANGED <<pc, uf, io_file>> /\ FilesDestroyed(gone) /\ gone \in SUBSET Files
    BY DEF clear
  <1>2. \A g \in Files : Alive(g)' <=> Alive(g) /\ g \notin gone
    <2>1. \A g \in Files : ~Registered(g)'
      BY <1>1, NullAssumption DEF Registered
    <2>2. \A g \in Files : InUse(g)' <=> InUse(g)
      BY <1>1 DEF InUse
    <2> QED BY <1>1, <2>1, <2>2 DEF Alive
  <1> HIDE DEF gone
  <1>3. from_fd' \in [Fds -> Files \cup {NoFile}]
    BY <1>1 DEF IInv, TypeOK
  <1>4. /\ pc' \in [Threads -> {"idle", "open", "register", "return", "io"}]
        /\ io_file' \in [Threads -> Files \cup {NoFile}]
        /\ \A u \in Threads : (io_file'[u] # NoFile) <=> (pc'[u] = "io")
        /\ \A u \in Threads : pc'[u] = pc[u]
    BY <1>1 DEF IInv, TypeOK
  <1> QED BY <1>1, <1>2, <1>3, <1>4, FilesDestroyedKeeps

(* An I/O takes a reference ... *)
LEMMA IoBeginKeeps ==
  ASSUME IInv, NEW t \in Threads, NEW f \in Files, IoBegin(t, f)
  PROVE  IInv'
  <1>1. /\ UNCHANGED <<table, uf, object, from_fd>> /\ pc[t] = "idle" /\ Registered(f)
        /\ io_file' = [io_file EXCEPT ![t] = f] /\ pc' = [pc EXCEPT ![t] = "io"]
    BY DEF IoBegin
  <1>2. /\ io_file[t] = NoFile /\ io_file'[t] = f /\ pc'[t] = "io"
        /\ \A u \in Threads : u # t => io_file'[u] = io_file[u] /\ pc'[u] = pc[u]
    BY <1>1 DEF IInv, TypeOK
  <1>3. carrier' = carrier
    BY <1>1 DEF carrier
  <1>4. Owned(table', carrier')
    BY <1>1, <1>3 DEF IInv
  <1>5. TypeOK'
    BY <1>1, <1>2, NullAssumption DEF IInv, TypeOK
  <1>6. Progress'
    BY <1>1, <1>2 DEF IInv, Progress
  <1>7. \A g \in Files : Alive(g)' <=> Alive(g)
    <2>1. \A g \in Files : Registered(g)' <=> Registered(g)
      BY <1>1 DEF Registered
    <2>2. \A g \in Files : g # f => (InUse(g)' <=> InUse(g))
      BY <1>2, NullAssumption DEF InUse
    <2> QED BY <1>1, <2>1, <2>2 DEF Alive
  <1>8. Referenced'
    BY <1>1, <1>7 DEF IInv, Referenced
  <1> QED BY <1>4, <1>5, <1>6, <1>8 DEF IInv

(* ... and drops it, destroying a File that is no longer registered. *)
LEMMA IoEndKeeps ==
  ASSUME IInv, NEW t \in Threads, IoEnd(t)
  PROVE  IInv'
  <1> DEFINE g == io_file[t]
             gone == {f \in {g} : ~Registered(f) /\ \A u \in Threads \ {t} : io_file[u] # f}
  <1>1. /\ pc[t] = "io" /\ io_file' = [io_file EXCEPT ![t] = NoFile] /\ pc' = [pc EXCEPT ![t] = "idle"]
        /\ FilesDestroyed(gone) /\ UNCHANGED <<uf, from_fd>>
    BY DEF IoEnd
  <1>2. g \in Files /\ gone \in SUBSET Files
    BY <1>1 DEF IInv, TypeOK
  <1>3. /\ io_file'[t] = NoFile /\ pc'[t] = "idle"
        /\ \A u \in Threads : u # t => io_file'[u] = io_file[u] /\ pc'[u] = pc[u]
    BY <1>1 DEF IInv, TypeOK
  <1>4. \A f \in Files : Alive(f)' <=> Alive(f) /\ f \notin gone
    <2>1. \A f \in Files : Registered(f)' <=> Registered(f)
      BY <1>1 DEF Registered
    <2>2. \A f \in Files : InUse(f)' <=> \E u \in Threads : u # t /\ io_file[u] = f
      BY <1>3, NullAssumption DEF InUse
    <2>3. \A f \in Files : InUse(f) <=> f = g \/ \E u \in Threads : u # t /\ io_file[u] = f
      BY DEF InUse
    <2>4. \A f \in Files : f \in gone <=> f = g /\ ~Registered(f) /\ ~\E u \in Threads : u # t /\ io_file[u] = f
      OBVIOUS
    <2> HIDE DEF gone
    <2> QED BY <2>1, <2>2, <2>3, <2>4 DEF Alive
  <1> HIDE DEF gone
  <1>5. /\ from_fd' \in [Fds -> Files \cup {NoFile}]
        /\ pc' \in [Threads -> {"idle", "open", "register", "return", "io"}]
        /\ io_file' \in [Threads -> Files \cup {NoFile}]
        /\ \A u \in Threads : (io_file'[u] # NoFile) <=> (pc'[u] = "io")
        /\ \A u \in Threads : pc'[u] = pc[u] \/ (pc[u] \in {"idle", "io"} /\ pc'[u] \in {"idle", "io"})
    BY <1>1, <1>3 DEF IInv, TypeOK
  <1> QED BY <1>1, <1>2, <1>4, <1>5, FilesDestroyedKeeps

(* Every step preserves the invariant. *)
LEMMA InvStep == IInv /\ [Next]_vars => IInv'
  <1> SUFFICES ASSUME IInv, [Next]_vars PROVE IInv'
    OBVIOUS
  <1>1. CASE UNCHANGED vars
    <2>1. UNCHANGED <<table, pc, uf, object, from_fd, io_file, carrier>>
      BY <1>1 DEF vars, carrier
    <2>2. TypeOK' /\ Progress'
      BY <2>1 DEF IInv, TypeOK, Progress
    <2>3. Referenced'
      BY <2>1 DEF IInv, Referenced, Alive, Registered, InUse
    <2> QED BY <2>1, <2>2, <2>3 DEF IInv
  <1> QED BY <1>1, ClientKeeps, BuildKeeps, OpenKeeps, RegisterKeeps, ReturnKeeps, DeregisterKeeps,
             ClearKeeps, IoBeginKeeps, IoEndKeeps DEF Next

-----------------------------------------------------------------------------
(* IInv is an invariant: along every registration, deregistration, clear    *)
(* and I/O, the library's descriptors are those of the FileDescriptors in   *)
(* use, one for one, and a File in use is one that was registered.          *)
THEOREM Invariant == Spec => []IInv
  BY InvInit, InvStep, PTL DEF Spec

(* Every variable keeps its type; a thread references a File only during    *)
(* its I/O and an UnregisteredFile only during its registration.            *)
THEOREM TypeCorrect == Spec => []TypeOK
  <1>1. IInv => TypeOK
    BY DEF IInv
  <1> QED BY <1>1, Invariant, PTL

(* The descriptors UnregisteredFile's constructor opens never leak and are  *)
(* closed once: each has one owner, a thread's UnregisteredFile or a File   *)
(* that FileMap or some I/O still references.                               *)
THEOREM Ownership == Spec => []OwnedExactlyOnce
  <1>1. ASSUME IInv PROVE OwnedExactlyOnce
    <2>1. \A n \in Fds, h \in Holders : h \in Owners(n) <=> n \in Managed(carrier[h])
      <3>1. \A f \in Files, n \in Fds : n \in Managed(object[f]) => Alive(f)
        BY <1>1, ManagedOf DEF IInv, Referenced
      <3> QED BY <3>1, CarrierOf, DisjointAssumption DEF Owners
    <2>2. \A n \in Fds : Owners(n) \subseteq Holders
      BY DEF Owners, Holders
    <2>3. ASSUME NEW n \in Fds, OpenBy(table, n, "library")
          PROVE  \E x \in Owners(n) : Owners(n) = {x}
      <3>1. PICK h \in Holders : n \in Managed(carrier[h])
        BY <1>1, <2>3 DEF IInv, Owned
      <3>2. \A g \in Owners(n) : g = h
        BY <1>1, <2>1, <2>2, <3>1 DEF IInv, Owned
      <3> QED BY <2>1, <3>1, <3>2
    <2>4. ASSUME NEW n \in Fds, ~OpenBy(table, n, "library")
          PROVE  Owners(n) = {}
      <3>1. \A h \in Holders : n \notin Managed(carrier[h])
        BY <1>1, <2>4, SoundUses DEF IInv, Owned
      <3> QED BY <2>1, <2>2, <3>1
    <2> QED BY <2>3, <2>4 DEF OwnedExactlyOnce, OpenBy
  <1> QED BY <1>1, Invariant, PTL

(* As long as a File is registered or used by I/O, its two descriptors are  *)
(* open on the client's file, one without and one with O_DIRECT.            *)
THEOREM SameFile == Spec => []BothReachTheFile
  <1>1. ASSUME IInv PROVE BothReachTheFile
    <2> SUFFICES ASSUME NEW f \in Files, Alive(f)
                 PROVE  LET x == object[f]
                            ino == table[x.client.fd].ino
                            Is(d, direct) == table[d.fd] # Closed /\ table[d.fd].ino = ino
                                               /\ table[d.fd].direct = direct
                        IN  Is(x.buffered, FALSE) /\ (x.unbuffered # Empty => Is(x.unbuffered, TRUE))
      BY DEF BothReachTheFile
    <2>1. object[f] # NoCarrier /\ object[f].buffered # Empty /\ Sound(table, object[f])
      BY <1>1, CarrierOf DEF IInv, Referenced, Progress, Owned
    <2>2. PICK fd \in Fds :
            /\ OpenBy(table, fd, "client")
            /\ \/ object[f] = Single(fd) /\ table[fd].direct = FALSE
               \/ \E n \in Fds :
                    \/ /\ object[f] = AddsDirect(fd, n) /\ table[fd].direct = FALSE
                       /\ Second(table, fd, n, TRUE)
                    \/ /\ object[f] = AddsBuffered(fd, n) /\ table[fd].direct = TRUE
                       /\ Second(table, fd, n, FALSE)
      BY <2>1, Shapes DEF Sound
    <2>3. CASE object[f] = Single(fd) /\ table[fd].direct = FALSE
      BY <2>2, <2>3 DEF Single, OpenBy, make_unmanaged
    <2>4. ASSUME NEW n \in Fds, object[f] = AddsDirect(fd, n), table[fd].direct = FALSE,
                 Second(table, fd, n, TRUE)
          PROVE  LET x == object[f]
                     ino == table[x.client.fd].ino
                     Is(d, direct) == table[d.fd] # Closed /\ table[d.fd].ino = ino
                                        /\ table[d.fd].direct = direct
                 IN  Is(x.buffered, FALSE) /\ (x.unbuffered # Empty => Is(x.unbuffered, TRUE))
      BY <2>2, <2>4 DEF AddsDirect, Second, OpenBy, make_unmanaged, make_managed
    <2>5. ASSUME NEW n \in Fds, object[f] = AddsBuffered(fd, n), table[fd].direct = TRUE,
                 Second(table, fd, n, FALSE)
          PROVE  LET x == object[f]
                     ino == table[x.client.fd].ino
                     Is(d, direct) == table[d.fd] # Closed /\ table[d.fd].ino = ino
                                        /\ table[d.fd].direct = direct
                 IN  Is(x.buffered, FALSE) /\ (x.unbuffered # Empty => Is(x.unbuffered, TRUE))
      BY <2>2, <2>5 DEF AddsBuffered, Second, OpenBy, make_unmanaged, make_managed
    <2> QED BY <2>2, <2>3, <2>4, <2>5
  <1> QED BY <1>1, Invariant, PTL

=============================================================================
