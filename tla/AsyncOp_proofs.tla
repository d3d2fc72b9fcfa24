----------------------------- MODULE AsyncOp_proofs -----------------------------
(***************************************************************************)
(* Proofs about AsyncOp, for every size of the buffer, the file and the    *)
(* largest transfer: parameters are bound before they are used, no copy of *)
(* an operation leaves its bounce buffer or the GPU buffer, and the count  *)
(* a successful operation publishes is what arrived, whatever the          *)
(* application writes into size and offsets after the submission.          *)
(*                                                                         *)
(* An operation has two copies to make, First and then Second.  The        *)
(* invariant says for each of the file, the bounce buffer and the GPU      *)
(* buffer exactly which bytes are in it, as a function of the counters.    *)
(***************************************************************************)
EXTENDS AsyncOp, SequenceTheorems, TLAPS

Size    == params["size"]
FileOff == params["file_offset"]
BufOff  == params["buffer_offset"]
Bound   == \A x \in Params : params[x] # Unbound

(* What may be left to run: all of it, or what a failed enqueue left. *)
Whole(a, b) == {<<"bind", a, b, "cleanup">>, <<a, b, "cleanup">>, <<b, "cleanup">>, <<"cleanup">>}
WithBind(a, b) == {<<"bind", a, b, "cleanup">>, <<"bind", a, "cleanup">>, <<"bind", "cleanup">>}
WithFirst(a, b) == {<<a, b, "cleanup">>, <<a, "cleanup">>}
OnlySecond(b) == {<<b, "cleanup">>}
NoCopy == {<<"cleanup">>, << >>}

First  == IF io_type = "Read" THEN "cpu_copy" ELSE "kernel"
Second == IF io_type = "Read" THEN "kernel" ELSE "cpu_copy"

Queue ==
    /\ pc = "running" =>
         /\ \/ tasks \in WithBind(First, Second) \/ tasks \in WithFirst(First, Second)
            \/ tasks \in OnlySecond(Second) \/ tasks = <<"cleanup">>
         /\ ret = "success" => tasks \in Whole(First, Second)
    /\ pc # "running" => tasks = << >>
    /\ pc = "idle" => internal = 0
    /\ pc = "done" => published = internal

(* Untouched regions, and the bytes that n turns put into them. *)
Plain(m, name) == \A i \in Cells : m[i] = <<name, i>>
Filled(m, name, p, n, from, q) ==
    \A i \in Cells : m[i] = IF i \in p..(p + n - 1) THEN <<from, q + (i - p)>> ELSE <<name, i>>

(* Before the parameters are bound, and after they were refused, nothing    *)
(* moves.                                                                   *)
Fresh ==
    (pc = "idle" \/ tasks \in WithBind(First, Second) \/ internal = -InvalidValue \/ ~Bound) =>
      /\ copied = 0 /\ internal \in {0, -InvalidValue}
      /\ Plain(bounce, "bounce") /\ Plain(gpu, "gpu") /\ Plain(file, "file")

(* Bound parameters that were not refused have been checked; the one size   *)
(* that has not is UncheckedSize.                                           *)
Checked ==
    (Bound /\ internal # -InvalidValue) =>
      /\ FileOff >= 0 /\ BufOff >= 0 /\ copied <= Size
      /\ ~UncheckedSize => Size <= submitted_size /\ paramsValid(Size, FileOff, BufOff)

BindFirst ==
    /\ tasks \in WithBind(First, Second) =>
         ~Bound /\ internal = 0 /\ \A x \in fixed : params[x] # Unbound
    /\ tasks \in WithFirst(First, Second) \cup OnlySecond(Second) => Bound

Reading ==
    io_type = "Read" =>
      /\ Plain(file, "file")
      /\ Filled(bounce, "bounce", 0, copied, "file", FileOff)
      /\ internal <= copied
      /\ tasks \in OnlySecond(Second) => internal \in {copied, -1, -InvalidValue}
      /\ \/ Plain(gpu, "gpu")
         \/ tasks \in NoCopy /\ internal >= 0 /\ Filled(gpu, "gpu", BufOff, internal, "file", FileOff)
      /\ (tasks \in NoCopy /\ ret = "success" /\ internal > 0) =>
           Filled(gpu, "gpu", BufOff, internal, "file", FileOff)

Writing ==
    io_type = "Write" =>
      /\ Plain(gpu, "gpu")
      /\ Filled(file, "file", FileOff, copied, "gpu", BufOff)
      /\ internal \in {0, copied, -1, -InvalidValue}
      /\ tasks \in WithFirst(First, Second) => Plain(bounce, "bounce") /\ internal <= 0
      /\ tasks \in OnlySecond(Second) => internal <= 0
      /\ \/ Plain(bounce, "bounce")
         \/ Bound /\ internal # -InvalidValue /\ Filled(bounce, "bounce", 0, Size, "gpu", BufOff)
      /\ (tasks \in OnlySecond(Second) /\ internal >= 0) =>
           Filled(bounce, "bounce", 0, Size, "gpu", BufOff)

Shape ==
    /\ DOMAIN params = Params
    /\ DOMAIN bounce = Cells /\ DOMAIN gpu = Cells /\ DOMAIN file = Cells

IInv == TypeOK /\ Shape /\ Queue /\ Fresh /\ Checked /\ BindFirst /\ Reading /\ Writing

-----------------------------------------------------------------------------
(* The queue *)

(* A short sequence is its elements. *)
LEMMA Spelled ==
  ASSUME NEW S, NEW x \in Seq(S)
  PROVE  /\ Len(x) = 1 => x = <<x[1]>>
         /\ Len(x) = 2 => x = <<x[1], x[2]>>
         /\ Len(x) = 3 => x = <<x[1], x[2], x[3]>>
         /\ Len(x) = 4 => x = <<x[1], x[2], x[3], x[4]>>
  OBVIOUS

(* What \o and Append(SubSeq) make of the short sequences of tasks. *)
LEMMA Joined ==
  ASSUME NEW S, NEW x \in Seq(S), NEW y \in Seq(S), NEW z \in Seq(S),
         Len(y) = 2, Len(z) = 1
  PROVE  /\ Len(x) = 0 => x \o y \o z = <<y[1], y[2], z[1]>>
         /\ Len(x) = 1 => x \o y \o z = <<x[1], y[1], y[2], z[1]>>
  <1> DEFINE v == x \o y
             w == v \o z
  <1>1. v \in Seq(S) /\ Len(v) = Len(x) + 2
        /\ \A i \in 1..(Len(x) + 2) : v[i] = IF i <= Len(x) THEN x[i] ELSE y[i - Len(x)]
    <2>1. /\ v \in Seq(S) /\ Len(v) = Len(x) + Len(y)
          /\ \A i \in 1..(Len(x) + Len(y)) : v[i] = IF i <= Len(x) THEN x[i] ELSE y[i - Len(x)]
      BY ConcatProperties, Zenon
    <2> HIDE DEF v
    <2> QED BY <2>1
  <1> HIDE DEF v
  <1>2. w \in Seq(S) /\ Len(w) = Len(v) + 1
        /\ \A i \in 1..(Len(v) + 1) : w[i] = IF i <= Len(v) THEN v[i] ELSE z[i - Len(v)]
    <2>1. v \in Seq(S)
      BY <1>1
    <2>2. /\ w \in Seq(S) /\ Len(w) = Len(v) + Len(z)
          /\ \A i \in 1..(Len(v) + Len(z)) : w[i] = IF i <= Len(v) THEN v[i] ELSE z[i - Len(v)]
      BY <2>1, ConcatProperties, Zenon
    <2> HIDE DEF w
    <2> QED BY <2>2
  <1> HIDE DEF w
  <1>3. CASE Len(x) = 0
    <2>1. Len(w) = 3 /\ w[1] = y[1] /\ w[2] = y[2] /\ w[3] = z[1]
      BY <1>1, <1>2, <1>3
    <2>2. w = <<w[1], w[2], w[3]>>
      BY <1>2, <2>1, Spelled
    <2> QED BY <1>3, <2>1, <2>2 DEF v, w
  <1>4. CASE Len(x) = 1
    <2>1. Len(w) = 4 /\ w[1] = x[1] /\ w[2] = y[1] /\ w[3] = y[2] /\ w[4] = z[1]
      BY <1>1, <1>2, <1>4
    <2>2. w = <<w[1], w[2], w[3], w[4]>>
      BY <1>2, <2>1, Spelled
    <2> QED BY <1>4, <2>1, <2>2 DEF v, w
  <1> QED BY <1>3, <1>4
LEMMA Prefix ==
  ASSUME NEW S, NEW x \in Seq(S), NEW c \in S, NEW n \in Nat, n <= Len(x)
  PROVE  /\ n = 0 => Append(SubSeq(x, 1, n), c) = <<c>>
         /\ n = 1 => Append(SubSeq(x, 1, n), c) = <<x[1], c>>
         /\ n = 2 => Append(SubSeq(x, 1, n), c) = <<x[1], x[2], c>>
         /\ n = 3 => Append(SubSeq(x, 1, n), c) = <<x[1], x[2], x[3], c>>
  <1> DEFINE y == SubSeq(x, 1, n)
             z == Append(y, c)
  <1>1. y \in Seq(S) /\ Len(y) = n /\ \A i \in 1..n : y[i] = x[i]
    <2>1. \A i \in 1..n : x[i] \in S
      OBVIOUS
    <2> QED BY <2>1, SubSeqProperties
  <1> HIDE DEF y
  <1>2. z \in Seq(S) /\ Len(z) = n + 1 /\ (\A i \in 1..n : z[i] = y[i]) /\ z[n + 1] = c
    BY <1>1, AppendProperties
  <1> HIDE DEF z
  <1>3. /\ n = 0 => z = <<z[1]>> /\ z[1] = c
        /\ n = 1 => z = <<z[1], z[2]>> /\ z[1] = x[1] /\ z[2] = c
        /\ n = 2 => z = <<z[1], z[2], z[3]>> /\ z[1] = x[1] /\ z[2] = x[2] /\ z[3] = c
        /\ n = 3 => z = <<z[1], z[2], z[3], z[4]>> /\ z[1] = x[1] /\ z[2] = x[2] /\ z[3] = x[3] /\ z[4] = c
    BY <1>1, <1>2, Spelled
  <1> QED BY <1>3 DEF z, y

(* Everything, with a bind in front unless the Stream fixes all parameters, *)
(* or a prefix and the cleanup.                                             *)
LEMMA EnqueuedTasks ==
  ASSUME io_type \in {"Read", "Write"}, NEW n \in 0..Len(AllTasks)
  PROVE  /\ \/ fixed # Params /\ Enqueued(n) \in WithBind(First, Second)
            \/ fixed = Params /\ Enqueued(n) \in WithFirst(First, Second)
            \/ n # Len(AllTasks) /\ Enqueued(n) = <<"cleanup">>
         /\ n = Len(AllTasks) => Enqueued(n) \in Whole(First, Second)
  <1> DEFINE S == {"bind", "cpu_copy", "kernel", "cleanup"}
             a == First
             b == Second
             x == IF fixed = Params THEN << >> ELSE <<"bind">>
             y == <<a, b>>
             z == <<"cleanup">>
  <1>1. AllTasks = x \o y \o z
    BY DEF AllTasks, First, Second
  <1>2. /\ x \in Seq(S) /\ y \in Seq(S) /\ z \in Seq(S) /\ "cleanup" \in S
        /\ Len(x) = IF fixed = Params THEN 0 ELSE 1
        /\ fixed # Params => x[1] = "bind"
        /\ Len(y) = 2 /\ y[1] = a /\ y[2] = b /\ Len(z) = 1 /\ z[1] = "cleanup"
    <2>1. First \in S /\ Second \in S
      BY DEF First, Second
    <2>2. CASE fixed = Params
      BY <2>1, <2>2
    <2>3. CASE fixed # Params
      BY <2>1, <2>3
    <2> QED BY <2>2, <2>3
  <1>c. "cleanup" \in S
    OBVIOUS
  <1> HIDE DEF a, b, x, y, z, S
  <1>3. /\ fixed = Params => AllTasks = <<a, b, "cleanup">>
        /\ fixed # Params => AllTasks = <<"bind", a, b, "cleanup">>
    <2>1. /\ Len(x) = 0 => x \o y \o z = <<y[1], y[2], z[1]>>
          /\ Len(x) = 1 => x \o y \o z = <<x[1], y[1], y[2], z[1]>>
      BY <1>2, Joined
    <2> QED BY <1>1, <1>2, <2>1
  <1>4. /\ a \in S /\ b \in S /\ "bind" \in S
    BY DEF First, Second, a, b, S
  <1>5. AllTasks \in Seq(S)
    <2>1. <<a, b, "cleanup">> \in Seq(S) /\ <<"bind", a, b, "cleanup">> \in Seq(S)
      BY <1>4, <1>c
    <2> QED BY <1>3, <2>1
  <1> DEFINE w == AllTasks
             p == Append(SubSeq(w, 1, n), "cleanup")
  <1>6. /\ fixed = Params => Len(w) = 3 /\ w[1] = a /\ w[2] = b
        /\ fixed # Params => Len(w) = 4 /\ w[1] = "bind" /\ w[2] = a /\ w[3] = b
    BY <1>3
  <1>7. Enqueued(n) = IF n = Len(w) THEN w ELSE p
    BY DEF Enqueued
  <1>8. n \in Nat /\ n <= Len(w)
    BY <1>6
  <1>9. /\ n = 0 => p = <<"cleanup">>
        /\ n = 1 => p = <<w[1], "cleanup">>
        /\ n = 2 => p = <<w[1], w[2], "cleanup">>
        /\ n = 3 => p = <<w[1], w[2], w[3], "cleanup">>
    BY <1>5, <1>8, <1>c, Prefix
  <1> HIDE DEF w, p
  <1>10. CASE fixed = Params
    <2>1. n \in {0, 1, 2, 3}
      <3>1. n \in Nat /\ n <= 3
        BY <1>6, <1>8, <1>10
      <3> QED BY <3>1
    <2>2. w = <<a, b, "cleanup">>
      BY <1>3, <1>10 DEF w
    <2>3. Enqueued(n) \in WithFirst(a, b) \/ (n # Len(w) /\ Enqueued(n) = <<"cleanup">>)
      BY <1>6, <1>7, <1>9, <1>10, <2>1, <2>2 DEF WithFirst
    <2>4. n = Len(w) => Enqueued(n) \in Whole(a, b)
      BY <1>7, <2>2 DEF Whole
    <2> QED BY <1>10, <2>3, <2>4 DEF w, a, b
  <1>11. CASE fixed # Params
    <2>1. n \in {0, 1, 2, 3, 4}
      <3>1. n \in Nat /\ n <= 4
        BY <1>6, <1>8, <1>11
      <3> QED BY <3>1
    <2>2. w = <<"bind", a, b, "cleanup">>
      BY <1>3, <1>11 DEF w
    <2>3. Enqueued(n) \in WithBind(a, b) \/ (n # Len(w) /\ Enqueued(n) = <<"cleanup">>)
      BY <1>6, <1>7, <1>9, <1>11, <2>1, <2>2 DEF WithBind
    <2>4. n = Len(w) => Enqueued(n) \in Whole(a, b)
      BY <1>7, <2>2 DEF Whole
    <2> QED BY <1>11, <2>3, <2>4 DEF w, a, b
  <1> QED BY <1>10, <1>11

(* What each kind of head leaves. *)
LEMMA Tails ==
  ASSUME NEW a, NEW b, a # b, {a, b} = {"cpu_copy", "kernel"}, NEW q,
         q \in WithBind(a, b) \/ q \in WithFirst(a, b) \/ q \in OnlySecond(b) \/ q = <<"cleanup">>
  PROVE  /\ q \in WithBind(a, b) =>
              /\ Head(q) = "bind"
              /\ Tail(q) \in WithFirst(a, b) \/ Tail(q) = <<"cleanup">>
         /\ q \in WithFirst(a, b) =>
              Head(q) = a /\ (Tail(q) \in OnlySecond(b) \/ Tail(q) = <<"cleanup">>)
         /\ q \in OnlySecond(b) => Head(q) = b /\ Tail(q) = <<"cleanup">>
         /\ q = <<"cleanup">> => Head(q) = "cleanup" /\ Tail(q) = << >>
         /\ (q \in Whole(a, b) /\ q # <<"cleanup">>) =>
              /\ Tail(q) \in Whole(a, b)
              /\ Tail(q) = <<"cleanup">> => q \in OnlySecond(b)
  <1>1. /\ Head(<<"bind", a, b, "cleanup">>) = "bind" /\ Tail(<<"bind", a, b, "cleanup">>) = <<a, b, "cleanup">>
        /\ Head(<<"bind", a, "cleanup">>) = "bind" /\ Tail(<<"bind", a, "cleanup">>) = <<a, "cleanup">>
        /\ Head(<<"bind", "cleanup">>) = "bind" /\ Tail(<<"bind", "cleanup">>) = <<"cleanup">>
    OBVIOUS
  <1>2. /\ Head(<<a, b, "cleanup">>) = a /\ Tail(<<a, b, "cleanup">>) = <<b, "cleanup">>
        /\ Head(<<a, "cleanup">>) = a /\ Tail(<<a, "cleanup">>) = <<"cleanup">>
        /\ Head(<<b, "cleanup">>) = b /\ Tail(<<b, "cleanup">>) = <<"cleanup">>
        /\ Head(<<"cleanup">>) = "cleanup" /\ Tail(<<"cleanup">>) = << >>
    OBVIOUS
  <1>3. /\ <<a, b, "cleanup">> # <<"cleanup">> /\ <<b, "cleanup">> # <<"cleanup">>
    OBVIOUS
  <1> QED BY <1>1, <1>2, <1>3, Zenon DEF WithBind, WithFirst, OnlySecond, Whole

(* A queue is of one kind. *)
OneKind(a, b, q) ==
    /\ ~(q \in WithBind(a, b) /\ q \in WithFirst(a, b))
    /\ ~(q \in WithBind(a, b) /\ q \in OnlySecond(b))
    /\ ~(q \in WithBind(a, b) /\ q \in NoCopy)
    /\ ~(q \in WithFirst(a, b) /\ q \in OnlySecond(b))
    /\ ~(q \in WithFirst(a, b) /\ q \in NoCopy)
    /\ ~(q \in OnlySecond(b) /\ q \in NoCopy)

(* A task list is of one kind only. *)
LEMMA Apart ==
  ASSUME NEW a, NEW b, a # b, {a, b} = {"cpu_copy", "kernel"}, NEW q
  PROVE  OneKind(a, b, q)
  BY DEF OneKind, WithBind, WithFirst, OnlySecond, NoCopy

-----------------------------------------------------------------------------
(* Numbers and copies *)

(* A read copies on the host first, a write on the device. *)
LEMMA Kinds ==
  ASSUME TypeOK
  PROVE  /\ First # Second /\ {First, Second} = {"cpu_copy", "kernel"}
         /\ io_type = "Read" => First = "cpu_copy" /\ Second = "kernel"
         /\ io_type = "Write" => First = "kernel" /\ Second = "cpu_copy"
  BY DEF TypeOK, First, Second

(* The parameters and counters are numbers, in range once bound. *)
LEMMA Numbers ==
  ASSUME TypeOK
  PROVE  /\ Size \in Int /\ FileOff \in Int /\ BufOff \in Int /\ copied \in Nat /\ copied <= MaxSize
         /\ submitted_size \in Nat /\ internal \in Int
         /\ Bound => /\ Size \in Nat /\ Size <= MaxSize /\ FileOff <= BufLen /\ BufOff <= BufLen
                     /\ Size # Unbound /\ BufOff # Unbound
  <1>1. /\ Size \in Sizes \cup {Unbound} /\ FileOff \in Offsets \cup {Unbound}
        /\ BufOff \in Offsets \cup {Unbound}
    BY DEF TypeOK, Params, Size, FileOff, BufOff
  <1>2. Bound => Size # Unbound /\ FileOff # Unbound /\ BufOff # Unbound
    BY DEF Bound, Params, Size, FileOff, BufOff
  <1>3. copied \in Sizes /\ submitted_size \in Sizes /\ internal \in Sizes \cup {-1, -InvalidValue}
    BY DEF TypeOK
  <1> QED BY <1>1, <1>2, <1>3, SizesAssumption DEF Sizes, Offsets, Unbound, InvalidValue

(* A region with no byte filled in is untouched. *)
LEMMA Unfilled ==
  ASSUME NEW m, NEW name, NEW p \in Int, NEW from, NEW q
  PROVE  Filled(m, name, p, 0, from, q) <=> Plain(m, name)
  <1>1. p..(p + 0 - 1) = {}
    OBVIOUS
  <1> QED BY <1>1 DEF Filled, Plain

(* A region with t bytes filled in gets n more. *)
LEMMA CopyMore ==
  ASSUME NEW m, NEW src, NEW name, NEW from, NEW p \in Int, NEW q \in Int, NEW a \in Int,
         NEW t \in Nat, NEW n \in Nat,
         DOMAIN m = Cells,
         Filled(m, name, p, t, from, q),
         \A j \in 0..(n - 1) : src[a + j] = <<from, q + t + j>>
  PROVE  /\ DOMAIN CopyBytes(m, p + t, src, a, n) = Cells
         /\ Filled(CopyBytes(m, p + t, src, a, n), name, p, t + n, from, q)
  <1> DEFINE m2 == CopyBytes(m, p + t, src, a, n)
  <1>1. DOMAIN m2 = Cells
    BY DEF CopyBytes
  <1>2. \A i \in Cells : m2[i] = IF i \in (p + t)..(p + t + n - 1) THEN src[a + (i - (p + t))] ELSE m[i]
    BY DEF CopyBytes
  <1> HIDE DEF m2
  <1>3. ASSUME NEW i \in Cells
        PROVE  m2[i] = IF i \in p..(p + (t + n) - 1) THEN <<from, q + (i - p)>> ELSE <<name, i>>
    <2>1. i \in Int
      BY DEF Cells
    <2>2. CASE i \in (p + t)..(p + t + n - 1)
      <3>1. i - (p + t) \in 0..(n - 1) /\ i \in p..(p + (t + n) - 1)
        BY <2>1, <2>2
      <3>2. src[a + (i - (p + t))] = <<from, q + t + (i - (p + t))>>
        BY <3>1
      <3>3. q + t + (i - (p + t)) = q + (i - p)
        BY <2>1
      <3>4. m2[i] = src[a + (i - (p + t))]
        BY <1>2, <2>2
      <3> QED BY <3>1, <3>2, <3>3, <3>4
    <2>3. CASE i \notin (p + t)..(p + t + n - 1)
      <3>1. i \in p..(p + (t + n) - 1) <=> i \in p..(p + t - 1)
        BY <2>1, <2>3
      <3>2. m2[i] = m[i]
        BY <1>2, <2>3
      <3> QED BY <3>1, <3>2 DEF Filled
    <2> QED BY <2>2, <2>3
  <1> QED BY <1>1, <1>3 DEF Filled, m2

-----------------------------------------------------------------------------
(* Steps *)

(* The invariant holds initially. *)
LEMMA InitStep == Init => IInv
  <1> SUFFICES ASSUME Init PROVE IInv
    OBVIOUS
  <1> USE DEF Init
  <1>1. TypeOK
    <2>1. 0 \in Sizes
      BY SizesAssumption DEF Sizes
    <2>2. \A x \in Params : params[x] = Unbound
      OBVIOUS
    <2> QED BY <2>1, <2>2 DEF TypeOK, Params
  <1>2. Shape
    BY DEF Shape
  <1>3. ~Bound
    BY DEF Bound, Params
  <1>4. Plain(bounce, "bounce") /\ Plain(gpu, "gpu") /\ Plain(file, "file")
    BY DEF Plain
  <1>5. Queue /\ Fresh /\ Checked
    BY <1>3, <1>4 DEF Queue, Fresh, Checked
  <1>6. BindFirst
    BY DEF BindFirst, WithBind, WithFirst, OnlySecond
  <1>7. FileOff \in Int /\ BufOff \in Int
    BY <1>1, Numbers
  <1>8. /\ Filled(bounce, "bounce", 0, copied, "file", FileOff)
        /\ Filled(file, "file", FileOff, copied, "gpu", BufOff)
    BY <1>4, <1>7, Unfilled
  <1>9. Reading /\ Writing
    BY <1>4, <1>8 DEF Reading, Writing, OnlySecond, WithFirst
  <1> QED BY <1>1, <1>2, <1>5, <1>6, <1>9 DEF IInv

(* The queue of a task that has run. *)
LEMMA Popped ==
  ASSUME IInv, NEW k, TaskIs(k), tasks' = Tail(tasks), UNCHANGED <<io_type, ret>>
  PROVE  /\ First' = First /\ Second' = Second
         /\ k = "bind" <=> tasks \in WithBind(First, Second)
         /\ k = First <=> tasks \in WithFirst(First, Second)
         /\ k = Second <=> tasks \in OnlySecond(Second)
         /\ k = "cleanup" <=> tasks = <<"cleanup">>
         /\ k = "bind" => tasks' \in WithFirst(First, Second) \/ tasks' = <<"cleanup">>
         /\ k = First => tasks' \in OnlySecond(Second) \/ tasks' = <<"cleanup">>
         /\ k = Second => tasks' = <<"cleanup">>
         /\ k = "cleanup" => tasks' = << >>
         /\ (ret = "success" /\ k # "cleanup") =>
              tasks' \in Whole(First, Second) /\ (tasks' = <<"cleanup">> => k = Second)
         /\ tasks' \notin WithBind(First, Second)
         /\ k # "bind" => tasks' \notin WithFirst(First, Second)
         /\ k # First => tasks' \notin OnlySecond(Second)
         /\ k # "cleanup" => tasks \notin NoCopy
  <1> DEFINE a == First
             b == Second
             q == tasks
  <1>1. a # b /\ {a, b} = {"cpu_copy", "kernel"} /\ First' = First /\ Second' = Second
    BY Kinds DEF IInv, First, Second
  <1>2. /\ q \in WithBind(a, b) \/ q \in WithFirst(a, b) \/ q \in OnlySecond(b) \/ q = <<"cleanup">>
        /\ ret = "success" => q \in Whole(a, b)
        /\ Head(q) = k
    BY DEF IInv, Queue, TaskIs
  <1>3. tasks' = Tail(q)
    OBVIOUS
  <1> HIDE DEF a, b, q
  <1>4. /\ q \in WithBind(a, b) =>
             /\ Head(q) = "bind"
             /\ Tail(q) \in WithFirst(a, b) \/ Tail(q) = <<"cleanup">>
        /\ q \in WithFirst(a, b) =>
             Head(q) = a /\ (Tail(q) \in OnlySecond(b) \/ Tail(q) = <<"cleanup">>)
        /\ q \in OnlySecond(b) => Head(q) = b /\ Tail(q) = <<"cleanup">>
        /\ q = <<"cleanup">> => Head(q) = "cleanup" /\ Tail(q) = << >>
        /\ (q \in Whole(a, b) /\ q # <<"cleanup">>) =>
             /\ Tail(q) \in Whole(a, b)
             /\ Tail(q) = <<"cleanup">> => q \in OnlySecond(b)
    BY <1>1, <1>2, Tails
  <1>5. a # "bind" /\ b # "bind" /\ a # "cleanup" /\ b # "cleanup"
    BY <1>1
  <1>6. /\ k = "bind" <=> q \in WithBind(a, b)
        /\ k = a <=> q \in WithFirst(a, b)
        /\ k = b <=> q \in OnlySecond(b)
        /\ k = "cleanup" <=> q = <<"cleanup">>
    BY <1>1, <1>2, <1>4, <1>5
  <1>7. OneKind(a, b, q) /\ OneKind(a, b, Tail(q))
    BY <1>1, Apart
  <1>8. <<"cleanup">> \in NoCopy /\ << >> \in NoCopy
    BY DEF NoCopy
  <1>9. /\ Tail(q) \notin WithBind(a, b)
        /\ k # "bind" => Tail(q) \notin WithFirst(a, b)
        /\ k # a => Tail(q) \notin OnlySecond(b)
        /\ k # "cleanup" => q \notin NoCopy
    <2>1. CASE q \in WithBind(a, b)
      BY <1>4, <1>6, <1>7, <1>8, <2>1 DEF OneKind
    <2>2. CASE q \in WithFirst(a, b)
      BY <1>4, <1>6, <1>7, <1>8, <2>2 DEF OneKind
    <2>3. CASE q \in OnlySecond(b)
      BY <1>4, <1>6, <1>7, <1>8, <2>3 DEF OneKind
    <2>4. CASE q = <<"cleanup">>
      BY <1>4, <1>6, <1>7, <1>8, <2>4 DEF OneKind
    <2> QED BY <1>2, <2>1, <2>2, <2>3, <2>4
  <1> QED BY <1>1, <1>2, <1>3, <1>4, <1>6, <1>9 DEF a, b, q

(* A submission that is refused, or asks for nothing. *)
LEMMA RefusedStep ==
  ASSUME IInv, pc = "idle", pc' = "done", ret' \in {"success", "error"}, published' = 0,
         UNCHANGED <<params, submitted_size, tasks, io_type, fixed, copied, internal, data>>
  PROVE  IInv'
  <1> USE DEF data
  <1>1. internal = 0 /\ tasks = << >>
    BY DEF IInv, Queue
  <1>2. /\ Size' = Size /\ FileOff' = FileOff /\ BufOff' = BufOff /\ First' = First /\ Second' = Second
        /\ Bound' = Bound /\ UncheckedSize' = UncheckedSize
    BY DEF Size, FileOff, BufOff, First, Second, Bound, UncheckedSize
  <1>3. TypeOK'
    <2>1. 0 \in Sizes
      BY SizesAssumption DEF Sizes
    <2> QED BY <2>1 DEF IInv, TypeOK
  <1>4. Shape' /\ Queue'
    BY <1>1 DEF IInv, Shape, Queue
  <1>5. Fresh' /\ Checked' /\ BindFirst'
    BY <1>2 DEF IInv, Fresh, Checked, BindFirst, paramsValid
  <1>6. Reading' /\ Writing'
    BY <1>1, <1>2 DEF IInv, Reading, Writing
  <1> QED BY <1>3, <1>4, <1>5, <1>6 DEF IInv

(* A submission that enqueues tasks. *)
LEMMA SubmittedStep ==
  ASSUME IInv, NEW size \in Sizes, NEW file_offset \in Offsets, NEW buffer_offset \in Offsets,
         pc = "idle", pc' = "running", published' = 0,
         paramsValid(LimitSize(size), file_offset, buffer_offset),
         NEW given, given["size"] = size, given["file_offset"] = file_offset,
         given["buffer_offset"] = buffer_offset,
         params' = [x \in Params |-> IF x \in fixed THEN given[x] ELSE Unbound],
         submitted_size' = LimitSize(size),
         NEW n \in 0..Len(AllTasks), tasks' = Enqueued(n),
         ret' = IF n = Len(AllTasks) THEN "success" ELSE "error",
         UNCHANGED <<io_type, fixed, copied, internal, data>>
  PROVE  IInv'
  <1> USE DEF data
  <1>1. /\ internal = 0 /\ copied = 0
        /\ Plain(bounce, "bounce") /\ Plain(gpu, "gpu") /\ Plain(file, "file")
    BY DEF IInv, Queue, Fresh
  <1>2. First' = First /\ Second' = Second /\ fixed \subseteq Params
    BY DEF First, Second, IInv, TypeOK, FixedFlags
  <1>3. /\ size \in Nat /\ size <= MaxSize /\ file_offset \in Int /\ buffer_offset \in Int
        /\ size # Unbound /\ file_offset # Unbound /\ buffer_offset # Unbound
        /\ LimitSize(size) \in Sizes /\ MaxRw \in Nat
    BY SizesAssumption DEF Sizes, Offsets, Unbound, LimitSize
  <1>4. /\ Size' = IF "size" \in fixed THEN size ELSE Unbound
        /\ FileOff' = IF "file_offset" \in fixed THEN file_offset ELSE Unbound
        /\ BufOff' = IF "buffer_offset" \in fixed THEN buffer_offset ELSE Unbound
        /\ \A x \in Params : params'[x] # Unbound <=> x \in fixed
        /\ DOMAIN params' = Params
    <2>1. \A x \in Params : given[x] # Unbound
      BY <1>3 DEF Params
    <2> QED BY <2>1 DEF Size, FileOff, BufOff, Params
  <1>5. /\ Bound' <=> fixed = Params
        /\ fixed = Params => Size' = size /\ FileOff' = file_offset /\ BufOff' = buffer_offset
    BY <1>2, <1>4 DEF Bound, Params
  <1>6. /\ \/ fixed # Params /\ tasks' \in WithBind(First, Second)
           \/ fixed = Params /\ tasks' \in WithFirst(First, Second)
           \/ ret' # "success" /\ tasks' = <<"cleanup">>
        /\ ret' = "success" => tasks' \in Whole(First, Second)
    <2>1. io_type \in {"Read", "Write"}
      BY DEF IInv, TypeOK
    <2> QED BY <2>1, EnqueuedTasks
  <1>7. TypeOK'
    <2>1. params'["size"] \in Sizes \cup {Unbound}
      BY <1>4 DEF Size
    <2>2. \A x \in Params \ {"size"} : params'[x] \in Offsets \cup {Unbound}
      BY <1>4 DEF FileOff, BufOff, Params
    <2>3. 0 \in Sizes /\ ret' \in {"none", "success", "error"} /\ submitted_size' \in Sizes
      BY <1>3, SizesAssumption DEF Sizes
    <2> QED BY <2>1, <2>2, <2>3 DEF IInv, TypeOK
  <1>8. Shape'
    BY <1>4 DEF IInv, Shape
  <1>9. Queue'
    BY <1>2, <1>6 DEF Queue
  <1>10. Fresh'
    BY <1>1 DEF Fresh
  <1>11. Checked'
    <2> SUFFICES ASSUME Bound'
                 PROVE  /\ FileOff' >= 0 /\ BufOff' >= 0 /\ copied' <= Size'
                        /\ ~UncheckedSize' => /\ Size' <= submitted_size'
                                              /\ paramsValid(Size, FileOff, BufOff)'
      BY DEF Checked
    <2>1. Size' = size /\ FileOff' = file_offset /\ BufOff' = buffer_offset /\ fixed' = Params
      BY <1>5
    <2>2. file_offset >= 0 /\ buffer_offset >= 0 /\ copied' <= size
      BY <1>1, <1>3 DEF paramsValid
    <2>3. ASSUME ~UncheckedSize' PROVE size <= submitted_size' /\ paramsValid(Size, FileOff, BufOff)'
      <3>1. size <= MaxRw
        BY <2>1, <2>3, <1>3 DEF UncheckedSize, Size
      <3>2. LimitSize(size) = size
        BY <3>1 DEF LimitSize
      <3> QED BY <1>3, <2>1, <3>2 DEF paramsValid
    <2> QED BY <2>1, <2>2, <2>3
  <1>12. BindFirst'
    <2>1. OneKind(First, Second, tasks') /\ <<"cleanup">> \in NoCopy
      BY Kinds, Apart DEF IInv, NoCopy
    <2>2. tasks' \in WithBind(First, Second) =>
            ~Bound' /\ internal' = 0 /\ \A x \in fixed' : params'[x] # Unbound
      BY <1>1, <1>2, <1>4, <1>5, <1>6, <2>1 DEF OneKind
    <2>3. tasks' \in WithFirst(First, Second) \cup OnlySecond(Second) => Bound'
      <3>1. CASE tasks' \in WithBind(First, Second)
        BY <2>1, <3>1 DEF OneKind
      <3>2. CASE fixed = Params
        BY <1>5, <3>2
      <3>3. CASE tasks' = <<"cleanup">>
        BY <2>1, <3>3 DEF OneKind
      <3> QED BY <1>6, <3>1, <3>2, <3>3
    <2> QED BY <1>2, <2>2, <2>3 DEF BindFirst
  <1>13. /\ Filled(bounce', "bounce", 0, copied', "file", FileOff')
         /\ Filled(file', "file", FileOff', copied', "gpu", BufOff')
    <2>1. FileOff' \in Int
      BY <1>3, <1>4 DEF Unbound
    <2> QED BY <1>1, <2>1, Unfilled
  <1>14. Reading' /\ Writing'
    <2>1. OneKind(First, Second, tasks') /\ <<"cleanup">> \in NoCopy
      BY Kinds, Apart DEF IInv, NoCopy
    <2>2. tasks' \notin OnlySecond(Second')
      BY <1>2, <1>6, <2>1 DEF OneKind
    <2> QED BY <1>1, <1>13, <2>2 DEF Reading, Writing
  <1> QED BY <1>7, <1>8, <1>9, <1>10, <1>11, <1>12, <1>14 DEF IInv

(* The submission keeps the invariant. *)
LEMMA async_ioStep ==
  ASSUME IInv, NEW size \in Sizes, NEW f \in Offsets, NEW b \in Offsets, async_io(size, f, b)
  PROVE  IInv'
  <1> DEFINE given == [x \in Params |-> CASE x = "size" -> size
                                          [] x = "file_offset" -> f
                                          [] x = "buffer_offset" -> b]
  <1>1. given["size"] = size /\ given["file_offset"] = f /\ given["buffer_offset"] = b
    BY DEF Params
  <1>2. CASE /\ ret' \in {"success", "error"} /\ pc' = "done"
             /\ UNCHANGED <<params, submitted_size, tasks>>
    BY <1>2, RefusedStep DEF async_io
  <1>3. CASE /\ paramsValid(LimitSize(size), f, b)
             /\ params' = [x \in Params |-> IF x \in fixed THEN given[x] ELSE Unbound]
             /\ submitted_size' = LimitSize(size)
             /\ \E n \in 0..Len(AllTasks) :
                  /\ tasks' = Enqueued(n)
                  /\ ret' = IF n = Len(AllTasks) THEN "success" ELSE "error"
             /\ pc' = "running"
    <2>1. PICK n \in 0..Len(AllTasks) :
            tasks' = Enqueued(n) /\ ret' = IF n = Len(AllTasks) THEN "success" ELSE "error"
      BY <1>3
    <2>2. pc = "idle" /\ published' = 0 /\ UNCHANGED <<io_type, fixed, copied, internal, data>>
      BY DEF async_io
    <2> HIDE DEF given
    <2> QED BY <1>1, <1>3, <2>1, <2>2, SubmittedStep
  <1> QED BY <1>2, <1>3 DEF async_io

(* async_io_bind_params keeps it. *)
LEMMA bindStep ==
  ASSUME IInv, NEW size \in Sizes, NEW f \in Offsets, NEW b \in Offsets,
         async_io_bind_params([x \in Params |-> CASE x = "size" -> size
                                                  [] x = "file_offset" -> f
                                                  [] x = "buffer_offset" -> b])
  PROVE  IInv'
  <1> DEFINE now == [x \in Params |-> CASE x = "size" -> size
                                        [] x = "file_offset" -> f
                                        [] x = "buffer_offset" -> b]
             bound == [x \in Params |-> IF x \in fixed THEN params[x] ELSE now[x]]
             s == LimitSize(bound["size"])
             fo == bound["file_offset"]
             bo == bound["buffer_offset"]
  <1>1. /\ TaskIs("bind") /\ tasks' = Tail(tasks)
        /\ params' = [bound EXCEPT !["size"] = s]
        /\ internal' = IF RefusedAtBind(s, fo, bo) THEN -InvalidValue ELSE internal
        /\ UNCHANGED <<pc, io_type, fixed, submitted_size, ret, copied, published, bounce, gpu, file>>
    BY DEF async_io_bind_params, request, data
  <1>2. /\ tasks \in WithBind(First, Second)
        /\ First' = First /\ Second' = Second
        /\ tasks' \in WithFirst(First, Second) \/ tasks' = <<"cleanup">>
        /\ ret = "success" => tasks' \in Whole(First, Second) /\ tasks' # <<"cleanup">>
        /\ tasks' \notin WithBind(First, Second) /\ tasks' \notin OnlySecond(Second)
    <2>1. "bind" # First /\ "bind" # Second
      BY DEF First, Second
    <2> QED BY <1>1, <2>1, Popped
  <1>3. /\ copied = 0 /\ internal = 0
        /\ Plain(bounce, "bounce") /\ Plain(gpu, "gpu") /\ Plain(file, "file")
        /\ \A x \in fixed : params[x] # Unbound
    BY <1>2 DEF IInv, Fresh, BindFirst
  <1>4. bound["size"] \in Sizes /\ fo \in Offsets /\ bo \in Offsets
    BY <1>3 DEF IInv, TypeOK, Params
  <1>5. /\ params'["size"] = s /\ params'["file_offset"] = fo /\ params'["buffer_offset"] = bo
        /\ DOMAIN params' = Params
    BY <1>1 DEF Params
  <1> HIDE DEF bound
  <1>6. s \in Sizes /\ s \in Nat /\ s <= MaxRw
    BY <1>4, SizesAssumption DEF LimitSize, Sizes
  <1>7. fo \in Int /\ bo \in Int /\ fo # Unbound /\ bo # Unbound /\ s # Unbound
    BY <1>4, <1>6, SizesAssumption DEF Offsets, Unbound
  <1> HIDE DEF s, fo, bo
  <1>8. Bound' /\ Size' = s /\ FileOff' = fo /\ BufOff' = bo
    BY <1>5, <1>7 DEF Bound, Params, Size, FileOff, BufOff
  <1>9. pc = "running" /\ pc' = "running"
    BY <1>1 DEF TaskIs
  <1>10. TypeOK'
    <2>1. internal' \in Sizes \cup {-1, -InvalidValue}
      BY <1>1 DEF IInv, TypeOK
    <2>2. \A x \in Params \ {"size"} : params'[x] \in Offsets \cup {Unbound}
      BY <1>4, <1>5 DEF Params, fo, bo
    <2>3. params'["size"] \in Sizes \cup {Unbound}
      BY <1>5, <1>6
    <2> QED BY <1>1, <2>1, <2>2, <2>3 DEF IInv, TypeOK
  <1>11. Shape'
    BY <1>1, <1>5 DEF IInv, Shape
  <1>12. Queue'
    BY <1>1, <1>2, <1>9 DEF Queue
  <1>13. Fresh'
    BY <1>1, <1>3 DEF Fresh
  <1>14. Checked'
    <2> SUFFICES ASSUME internal' # -InvalidValue
                 PROVE  /\ fo >= 0 /\ bo >= 0 /\ copied' <= s
                        /\ s <= submitted_size' /\ paramsValid(s, fo, bo)
      BY <1>8 DEF Checked, paramsValid
    <2>1. ~RefusedAtBind(s, fo, bo)
      BY <1>1
    <2>2. submitted_size \in Nat
      BY Numbers DEF IInv
    <2> QED BY <1>1, <1>3, <1>6, <2>1, <2>2 DEF RefusedAtBind, paramsValid
  <1>15. BindFirst'
    BY <1>2, <1>8 DEF BindFirst
  <1>16. /\ Filled(bounce', "bounce", 0, copied', "file", FileOff')
         /\ Filled(file', "file", FileOff', copied', "gpu", BufOff')
    <2>1. Filled(bounce, "bounce", 0, 0, "file", fo) /\ Filled(file, "file", fo, 0, "gpu", bo)
      BY <1>3, <1>7, Unfilled
    <2> QED BY <1>1, <1>3, <1>8, <2>1
  <1>17. internal' <= copied' /\ internal' \in {0, -InvalidValue} /\ internal' <= 0
    BY <1>1, <1>3 DEF InvalidValue
  <1>18. Reading' /\ Writing'
    <2>1. /\ Plain(bounce', "bounce") /\ Plain(gpu', "gpu") /\ Plain(file', "file")
          /\ tasks' \notin OnlySecond(Second')
      BY <1>1, <1>2, <1>3
    <2>2. ~(internal' > 0)
      BY <1>17 DEF InvalidValue
    <2>3. Reading'
      BY <1>16, <1>17, <2>1, <2>2 DEF Reading
    <2>4. Writing'
      BY <1>16, <1>17, <2>1, <2>2 DEF Writing
    <2> QED BY <2>3, <2>4
  <1> QED BY <1>10, <1>11, <1>12, <1>13, <1>14, <1>15, <1>18 DEF IInv

(* async_io_cpu_copy leaves the loop, or skips it. *)
LEMMA CpuCopyEnds ==
  ASSUME IInv, TaskIs("cpu_copy"), tasks' = Tail(tasks),
         \/ internal >= 0 /\ internal' \in {copied, -1}
         \/ internal < 0 /\ internal' = internal,
         UNCHANGED <<pc, request, params, copied, published, data>>
  PROVE  IInv'
  <1>1. UNCHANGED <<pc, io_type, fixed, submitted_size, ret, params, copied, published, bounce, gpu, file>>
    BY DEF request, data
  <1>2. pc = "running" /\ "cpu_copy" \notin {"bind", "cleanup"}
    BY DEF TaskIs
  <1>3. /\ Size' = Size /\ FileOff' = FileOff /\ BufOff' = BufOff /\ Bound' = Bound
        /\ UncheckedSize' = UncheckedSize
    BY <1>1 DEF Size, FileOff, BufOff, Bound, UncheckedSize
  <1>4. copied \in Nat /\ internal \in Int /\ copied \in Sizes
        /\ internal \in Sizes \cup {-1, -InvalidValue}
    BY Numbers DEF IInv, TypeOK
  <1>5. /\ internal' \in Sizes \cup {-1, -InvalidValue}
        /\ internal' = -InvalidValue => internal = -InvalidValue
        /\ internal = -InvalidValue => internal' = -InvalidValue
        /\ internal' <= copied /\ internal' \in {copied, -1, -InvalidValue}
    BY <1>4, SizesAssumption DEF InvalidValue, Sizes
  <1>6. /\ First' = First /\ Second' = Second
        /\ tasks' \notin WithBind(First, Second) /\ tasks' \notin WithFirst(First, Second)
        /\ tasks' \in OnlySecond(Second) \/ tasks' = <<"cleanup">>
        /\ ret = "success" => tasks' \in Whole(First, Second)
        /\ tasks \notin NoCopy
        /\ tasks \in WithFirst(First, Second) \/ tasks \in OnlySecond(Second)
        /\ "cpu_copy" = First => (tasks' = <<"cleanup">> => ret # "success")
        /\ "cpu_copy" = Second => tasks' \notin OnlySecond(Second)
    <2>1. First # Second /\ {First, Second} = {"cpu_copy", "kernel"}
      BY Kinds DEF IInv
    <2>2. "cpu_copy" = First \/ "cpu_copy" = Second
      BY <2>1
    <2> QED BY <1>1, <1>2, <2>1, <2>2, Popped
  <1>7. Bound
    BY <1>6 DEF IInv, BindFirst
  <1>8. TypeOK'
    BY <1>1, <1>5 DEF IInv, TypeOK
  <1>9. Shape' /\ Queue'
    BY <1>1, <1>2, <1>6 DEF IInv, Shape, Queue
  <1>10. Fresh'
    BY <1>1, <1>2, <1>3, <1>5, <1>6, <1>7 DEF IInv, Fresh
  <1>11. Checked'
    BY <1>1, <1>3, <1>5 DEF IInv, Checked, paramsValid
  <1>12. BindFirst'
    BY <1>3, <1>6, <1>7 DEF BindFirst
  <1>13. Reading'
    <2> SUFFICES ASSUME io_type = "Read" PROVE Reading'
      BY <1>1 DEF Reading
    <2>1. "cpu_copy" = First
      BY DEF First
    <2>2. /\ Plain(file, "file") /\ Filled(bounce, "bounce", 0, copied, "file", FileOff)
          /\ Plain(gpu, "gpu")
      BY <1>6 DEF IInv, Reading
    <2>3. ~(tasks' \in NoCopy /\ ret' = "success")
      <3>1. tasks' \in OnlySecond(Second) => tasks' \notin NoCopy
        BY Kinds, Apart DEF IInv, OneKind
      <3> QED BY <1>1, <1>6, <2>1, <3>1
    <2> QED BY <1>1, <1>3, <1>5, <2>2, <2>3 DEF Reading
  <1>14. Writing'
    <2> SUFFICES ASSUME io_type = "Write" PROVE Writing'
      BY <1>1 DEF Writing
    <2>1. "cpu_copy" = Second
      BY DEF Second
    <2>2. /\ Plain(gpu, "gpu") /\ Filled(file, "file", FileOff, copied, "gpu", BufOff)
          /\ \/ Plain(bounce, "bounce")
             \/ Bound /\ internal # -InvalidValue /\ Filled(bounce, "bounce", 0, Size, "gpu", BufOff)
      BY DEF IInv, Writing
    <2> QED BY <1>1, <1>3, <1>5, <1>6, <2>1, <2>2 DEF Writing
  <1> QED BY <1>8, <1>9, <1>10, <1>11, <1>12, <1>13, <1>14 DEF IInv

(* One turn of the loop of async_io_cpu_copy that moves n bytes. *)
LEMMA CpuCopyMoves ==
  ASSUME IInv, NEW n, CpuCopyChunk(n), n > 0, n \in Int
  PROVE  IInv'
  <1>1. /\ TaskIs("cpu_copy") /\ internal >= 0 /\ copied < Size /\ n \in IoCounts
        /\ copied' = copied + n
        /\ UNCHANGED <<tasks, internal, pc, io_type, fixed, submitted_size, ret, params, published, gpu>>
        /\ IF io_type = "Read"
           THEN bounce' = CopyBytes(bounce, copied, file, Position, n) /\ UNCHANGED file
           ELSE file' = CopyBytes(file, Position, bounce, copied, n) /\ UNCHANGED bounce
    BY DEF CpuCopyChunk, request, Size
  <1>2. /\ Size' = Size /\ FileOff' = FileOff /\ BufOff' = BufOff /\ Bound' = Bound
        /\ UncheckedSize' = UncheckedSize /\ First' = First /\ Second' = Second
    BY <1>1 DEF Size, FileOff, BufOff, Bound, UncheckedSize, First, Second
  <1>3. /\ tasks \in WithFirst(First, Second) \cup OnlySecond(Second)
        /\ tasks \notin WithBind(First, Second) /\ tasks \notin NoCopy
        /\ io_type = "Read" => tasks \in WithFirst(First, Second) /\ tasks \notin OnlySecond(Second)
        /\ io_type = "Write" => tasks \in OnlySecond(Second) /\ tasks \notin WithFirst(First, Second)
    <2> DEFINE a == First
               b == Second
    <2>1. /\ a # b /\ {a, b} = {"cpu_copy", "kernel"}
          /\ io_type = "Read" => a = "cpu_copy" /\ b = "kernel"
          /\ io_type = "Write" => a = "kernel" /\ b = "cpu_copy"
          /\ io_type \in {"Read", "Write"}
      BY Kinds DEF IInv, TypeOK
    <2>2. /\ tasks \in WithBind(a, b) \/ tasks \in WithFirst(a, b) \/ tasks \in OnlySecond(b)
             \/ tasks = <<"cleanup">>
          /\ Head(tasks) = "cpu_copy"
      BY <1>1 DEF IInv, Queue, TaskIs
    <2> HIDE DEF a, b
    <2>3. /\ tasks \in WithBind(a, b) => Head(tasks) = "bind"
          /\ tasks \in WithFirst(a, b) => Head(tasks) = a
          /\ tasks \in OnlySecond(b) => Head(tasks) = b
          /\ tasks = <<"cleanup">> => Head(tasks) = "cleanup"
      BY <2>1, <2>2, Tails
    <2>4. OneKind(a, b, tasks)
      BY <2>1, Apart
    <2>5. /\ io_type = "Read" => tasks \in WithFirst(a, b)
          /\ io_type = "Write" => tasks \in OnlySecond(b)
      BY <2>1, <2>2, <2>3
    <2>6. io_type = "Read" \/ io_type = "Write"
      BY <2>1
    <2> QED BY <2>4, <2>5, <2>6 DEF OneKind, a, b
  <1>4. Bound /\ internal # -InvalidValue
    <2>1. internal # -InvalidValue
      BY <1>1 DEF InvalidValue
    <2> QED BY <1>3, <2>1 DEF IInv, BindFirst
  <1>5. /\ Size \in Nat /\ Size <= MaxSize /\ FileOff \in Nat /\ BufOff \in Nat
        /\ FileOff <= BufLen /\ BufOff <= BufLen /\ copied \in Nat
        /\ MaxSize \in Nat /\ BufLen \in Nat /\ FileLen \in Nat /\ MaxRw \in Nat
        /\ ~UncheckedSize => Size <= submitted_size /\ paramsValid(Size, FileOff, BufOff)
    <2>1. /\ FileOff >= 0 /\ BufOff >= 0
          /\ ~UncheckedSize => Size <= submitted_size /\ paramsValid(Size, FileOff, BufOff)
      BY <1>4 DEF IInv, Checked
    <2>2. /\ Size \in Nat /\ Size <= MaxSize /\ FileOff \in Int /\ BufOff \in Int
          /\ FileOff <= BufLen /\ BufOff <= BufLen /\ copied \in Nat
      BY <1>4, Numbers DEF IInv
    <2>3. MaxSize \in Nat /\ BufLen \in Nat /\ FileLen \in Nat /\ MaxRw \in Nat
      BY SizesAssumption
    <2> QED BY <2>1, <2>2, <2>3
  <1>6. Position = FileOff + copied /\ Remaining = Size - copied
    BY DEF Position, Remaining, FileOff, Size
  <1>7. n \in Nat /\ copied + n <= Size /\ (io_type = "Read" => Position + n <= FileLen)
    <2>1. CASE io_type = "Read"
      <3>1. Position < FileLen
        BY <1>1, <1>5, <1>6, <2>1 DEF IoCounts
      <3>2. n \in 1..Remaining /\ n \in 1..(FileLen - Position)
        BY <1>1, <1>5, <1>6, <2>1, <3>1 DEF IoCounts
      <3> QED BY <1>5, <1>6, <3>2
    <2>2. CASE io_type # "Read"
      <3>1. n \in 0..Remaining
        BY <1>1, <2>2 DEF IoCounts
      <3> QED BY <1>5, <1>6, <2>2, <3>1
    <2> QED BY <2>1, <2>2
  <1>8. copied' \in Sizes /\ copied' <= Size /\ copied' \in Nat
    BY <1>1, <1>5, <1>7 DEF Sizes
  <1>9. ASSUME io_type = "Read" PROVE Reading' /\ Writing'
    <2>1. /\ Plain(file, "file") /\ Plain(gpu, "gpu")
          /\ Filled(bounce, "bounce", 0, copied, "file", FileOff)
          /\ internal <= copied
      BY <1>3, <1>9 DEF IInv, Reading
    <2>2. DOMAIN bounce' = Cells /\ Filled(bounce', "bounce", 0, copied + n, "file", FileOff)
      <3>1. bounce' = CopyBytes(bounce, 0 + copied, file, Position, n)
        BY <1>1, <1>5, <1>9
      <3>2. \A j \in 0..(n - 1) : file[Position + j] = <<"file", FileOff + copied + j>>
        <4>1. ASSUME NEW j \in 0..(n - 1) PROVE Position + j \in Cells
          BY <1>5, <1>6, <1>7, <1>9 DEF Cells
        <4> QED BY <1>6, <2>1, <4>1 DEF Plain
      <3>3. DOMAIN bounce = Cells /\ Position \in Int /\ 0 \in Int /\ FileOff \in Int
        BY <1>5, <1>6 DEF IInv, Shape
      <3>4. copied \in Nat /\ n \in Nat
        BY <1>5, <1>7
      <3>5. /\ DOMAIN CopyBytes(bounce, 0 + copied, file, Position, n) = Cells
            /\ Filled(CopyBytes(bounce, 0 + copied, file, Position, n), "bounce", 0, copied + n,
                      "file", FileOff)
        BY <2>1, <3>2, <3>3, <3>4, CopyMore, Zenon
      <3> QED BY <3>1, <3>5, Zenon
    <2>3. internal <= copied + n
      <3>1. internal \in Int
        BY Numbers DEF IInv
      <3> QED BY <1>5, <1>7, <2>1, <3>1
    <2>4. Reading'
      BY <1>1, <1>2, <1>3, <1>9, <2>1, <2>2, <2>3 DEF Reading
    <2>5. Writing'
      BY <1>1, <1>9 DEF Writing
    <2> QED BY <2>4, <2>5
  <1>10. ASSUME io_type = "Write" PROVE Reading' /\ Writing'
    <2>1. /\ Plain(gpu, "gpu") /\ Filled(file, "file", FileOff, copied, "gpu", BufOff)
          /\ internal = 0
          /\ Filled(bounce, "bounce", 0, Size, "gpu", BufOff)
      BY <1>1, <1>3, <1>10, Numbers DEF IInv, Writing
    <2>2. DOMAIN file' = Cells /\ Filled(file', "file", FileOff, copied + n, "gpu", BufOff)
      <3>1. file' = CopyBytes(file, FileOff + copied, bounce, copied, n)
        BY <1>1, <1>6, <1>10
      <3>2. \A j \in 0..(n - 1) : bounce[copied + j] = <<"gpu", BufOff + copied + j>>
        <4> SUFFICES ASSUME NEW j \in 0..(n - 1)
                     PROVE  bounce[copied + j] = <<"gpu", BufOff + copied + j>>
          OBVIOUS
        <4>1. /\ copied + j \in Cells /\ copied + j \in 0..(0 + Size - 1)
              /\ BufOff + ((copied + j) - 0) = BufOff + copied + j
          BY <1>5, <1>7 DEF Cells
        <4>2. bounce[copied + j] = <<"gpu", BufOff + ((copied + j) - 0)>>
          BY <2>1, <4>1 DEF Filled
        <4> QED BY <4>1, <4>2
      <3>3. DOMAIN file = Cells
        BY DEF IInv, Shape
      <3>4. copied \in Nat /\ copied \in Int /\ n \in Nat /\ FileOff \in Int /\ BufOff \in Int
        BY <1>5, <1>7
      <3>5. /\ DOMAIN CopyBytes(file, FileOff + copied, bounce, copied, n) = Cells
            /\ Filled(CopyBytes(file, FileOff + copied, bounce, copied, n), "file", FileOff, copied + n,
                      "gpu", BufOff)
        BY <2>1, <3>2, <3>3, <3>4, CopyMore, Zenon
      <3> QED BY <3>1, <3>5, Zenon
    <2>3. Reading'
      BY <1>1, <1>10 DEF Reading
    <2>4. Writing'
      BY <1>1, <1>2, <1>3, <1>4, <1>10, <2>1, <2>2 DEF Writing
    <2> QED BY <2>3, <2>4
  <1>11. Reading' /\ Writing' /\ DOMAIN bounce' = Cells /\ DOMAIN file' = Cells
    <2>1. io_type = "Read" \/ io_type = "Write"
      BY DEF IInv, TypeOK
    <2>2. DOMAIN bounce = Cells /\ DOMAIN file = Cells
      BY DEF IInv, Shape
    <2>3. CASE io_type = "Read"
      <3>1. DOMAIN bounce' = Cells
        BY <1>1, <2>2, <2>3 DEF CopyBytes
      <3>2. file' = file
        BY <1>1, <2>3
      <3> QED BY <1>9, <2>2, <2>3, <3>1, <3>2
    <2>4. CASE io_type = "Write"
      <3>1. DOMAIN file' = Cells
        BY <1>1, <2>2, <2>4 DEF CopyBytes
      <3>2. bounce' = bounce
        BY <1>1, <2>4
      <3> QED BY <1>10, <2>2, <2>4, <3>1, <3>2
    <2> QED BY <2>1, <2>3, <2>4
  <1>12. TypeOK'
    BY <1>1, <1>8 DEF IInv, TypeOK
  <1>13. Shape'
    BY <1>1, <1>11 DEF IInv, Shape
  <1>14. Queue'
    BY <1>1, <1>2 DEF IInv, Queue
  <1>15. Fresh'
    <2>1. pc' # "idle"
      BY <1>1 DEF TaskIs
    <2> QED BY <1>1, <1>2, <1>3, <1>4, <2>1 DEF Fresh
  <1>16. Checked'
    BY <1>1, <1>2, <1>5, <1>8 DEF Checked, paramsValid
  <1>17. BindFirst'
    BY <1>1, <1>2, <1>3, <1>4 DEF BindFirst
  <1> QED BY <1>11, <1>12, <1>13, <1>14, <1>15, <1>16, <1>17 DEF IInv

(* The kernel keeps it. *)
LEMMA hipFileMemcpyKernelStep ==
  ASSUME IInv, hipFileMemcpyKernel
  PROVE  IInv'
  <1>1. /\ TaskIs("kernel") /\ tasks' = Tail(tasks) /\ pc = "running"
        /\ UNCHANGED <<pc, io_type, fixed, submitted_size, ret, params, copied, published, file>>
    BY DEF hipFileMemcpyKernel, request, TaskIs
  <1>2. /\ Size' = Size /\ FileOff' = FileOff /\ BufOff' = BufOff /\ Bound' = Bound
        /\ UncheckedSize' = UncheckedSize
    BY <1>1 DEF Size, FileOff, BufOff, Bound, UncheckedSize
  <1>3. /\ First' = First /\ Second' = Second
        /\ tasks' \notin WithBind(First, Second) /\ tasks' \notin WithFirst(First, Second)
        /\ tasks' \in OnlySecond(Second) \/ tasks' = <<"cleanup">>
        /\ ret = "success" => tasks' \in Whole(First, Second)
        /\ tasks \notin NoCopy
        /\ "kernel" = First => tasks \in WithFirst(First, Second)
        /\ "kernel" = Second => tasks \in OnlySecond(Second) /\ tasks' = <<"cleanup">>
        /\ "kernel" = Second => tasks' \notin OnlySecond(Second)
        /\ "kernel" = First \/ "kernel" = Second
    <2>1. First # Second /\ {First, Second} = {"cpu_copy", "kernel"}
      BY Kinds DEF IInv
    <2>2. "kernel" = First \/ "kernel" = Second
      BY <2>1
    <2>3. "kernel" # "bind" /\ "kernel" # "cleanup"
      OBVIOUS
    <2> QED BY <1>1, <2>1, <2>2, <2>3, Popped
  <1>4. Bound
    BY <1>3 DEF IInv, BindFirst
  <1>5. Size # Unbound /\ BufOff # Unbound /\ params["size"] = Size /\ params["buffer_offset"] = BufOff
    BY <1>4, Numbers DEF IInv, Size, BufOff
  <1>6. /\ internal' = internal
        /\ \/ internal < 0 /\ UNCHANGED <<gpu, bounce>>
           \/ /\ internal >= 0
              /\ io_type = "Read" => /\ gpu' = CopyBytes(gpu, BufOff, bounce, 0, internal)
                                     /\ bounce' = bounce
              /\ io_type = "Write" => /\ bounce' = CopyBytes(bounce, 0, gpu, BufOff, Size)
                                      /\ gpu' = gpu
    BY <1>5 DEF hipFileMemcpyKernel
  <1>7. internal >= 0 => internal # -InvalidValue
    BY DEF InvalidValue
  <1>8. /\ Size \in Nat /\ Size <= MaxSize /\ FileOff \in Int /\ BufOff \in Int
        /\ BufOff <= BufLen /\ copied \in Nat /\ copied <= MaxSize /\ internal \in Int
        /\ MaxSize \in Nat /\ BufLen \in Nat /\ FileLen \in Nat
    BY <1>4, Numbers, SizesAssumption DEF IInv
  <1>9. internal >= 0 => BufOff >= 0
    BY <1>4, <1>7 DEF IInv, Checked
  <1>10. DOMAIN gpu' = Cells /\ DOMAIN bounce' = Cells
    <2>1. DOMAIN gpu = Cells /\ DOMAIN bounce = Cells
      BY DEF IInv, Shape
    <2>2. io_type = "Read" \/ io_type = "Write"
      BY DEF IInv, TypeOK
    <2> QED BY <1>6, <2>1, <2>2 DEF CopyBytes
  <1>11. TypeOK' /\ Shape' /\ Queue'
    BY <1>1, <1>3, <1>6, <1>10 DEF IInv, TypeOK, Shape, Queue
  <1>12. Fresh'
    <2>1. pc' # "idle" /\ Bound'
      BY <1>1, <1>2, <1>4
    <2>2. internal = -InvalidValue => UNCHANGED <<gpu, bounce>>
      BY <1>6, <1>7
    <2> QED BY <1>1, <1>3, <1>6, <2>1, <2>2 DEF IInv, Fresh
  <1>13. Checked'
    BY <1>1, <1>2, <1>6 DEF IInv, Checked, paramsValid
  <1>14. BindFirst'
    BY <1>2, <1>3, <1>4 DEF BindFirst
  <1>15. Reading'
    <2> SUFFICES ASSUME io_type = "Read" PROVE Reading'
      BY <1>1 DEF Reading
    <2>1. tasks \in OnlySecond(Second) /\ tasks' = <<"cleanup">> /\ tasks' \in NoCopy
      BY <1>3 DEF First, Second, NoCopy
    <2>2. /\ Plain(file, "file") /\ Filled(bounce, "bounce", 0, copied, "file", FileOff)
          /\ internal <= copied /\ internal \in {copied, -1, -InvalidValue} /\ Plain(gpu, "gpu")
      BY <1>3, <2>1 DEF IInv, Reading
    <2>3. bounce' = bounce
      BY <1>6
    <2>4. CASE internal < 0
      <3>1. gpu' = gpu /\ ~(internal > 0)
        BY <1>6, <1>8, <2>4
      <3> QED BY <1>1, <1>2, <1>3, <1>6, <2>1, <2>2, <2>3, <3>1 DEF Reading
    <2>5. CASE internal >= 0
      <3>1. internal = copied
        BY <2>2, <2>5 DEF InvalidValue
      <3>2. gpu' = CopyBytes(gpu, BufOff + 0, bounce, 0, internal)
        BY <1>6, <1>8, <2>5
      <3>3. \A j \in 0..(internal - 1) : bounce[0 + j] = <<"file", FileOff + 0 + j>>
        <4> SUFFICES ASSUME NEW j \in 0..(internal - 1)
                     PROVE  bounce[0 + j] = <<"file", FileOff + 0 + j>>
          OBVIOUS
        <4>1. /\ j \in Cells /\ j \in 0..(0 + copied - 1) /\ FileOff + (j - 0) = FileOff + 0 + j
              /\ 0 + j = j
          BY <1>8, <3>1 DEF Cells
        <4>2. bounce[j] = <<"file", FileOff + (j - 0)>>
          BY <2>2, <4>1 DEF Filled
        <4> QED BY <4>1, <4>2
      <3>4. /\ DOMAIN gpu = Cells /\ BufOff \in Int /\ FileOff \in Int /\ 0 \in Int /\ 0 \in Nat
            /\ internal \in Nat
        BY <1>8, <3>1 DEF IInv, Shape
      <3>5. Filled(gpu, "gpu", BufOff, 0, "file", FileOff)
        BY <2>2, <3>4, Unfilled
      <3>6. Filled(CopyBytes(gpu, BufOff + 0, bounce, 0, internal), "gpu", BufOff, 0 + internal,
                   "file", FileOff)
        BY <3>3, <3>4, <3>5, CopyMore, Zenon
      <3>7. Filled(gpu', "gpu", BufOff, internal, "file", FileOff)
        <4>1. 0 + internal = internal
          BY <1>8
        <4> QED BY <3>2, <3>6, <4>1
      <3> QED BY <1>1, <1>2, <1>3, <1>6, <2>1, <2>2, <2>3, <2>5, <3>7 DEF Reading
    <2> QED BY <1>8, <2>4, <2>5
  <1>16. Writing'
    <2> SUFFICES ASSUME io_type = "Write" PROVE Writing'
      BY <1>1 DEF Writing
    <2>1. tasks \in WithFirst(First, Second)
      BY <1>3 DEF First, Second
    <2>2. /\ Plain(gpu, "gpu") /\ Filled(file, "file", FileOff, copied, "gpu", BufOff)
          /\ internal \in {0, copied, -1, -InvalidValue} /\ internal <= 0 /\ Plain(bounce, "bounce")
      BY <2>1 DEF IInv, Writing
    <2>3. gpu' = gpu
      BY <1>6
    <2>4. CASE internal < 0
      <3>1. bounce' = bounce /\ ~(internal >= 0)
        BY <1>6, <1>8, <2>4
      <3> QED BY <1>1, <1>2, <1>3, <1>6, <2>2, <2>3, <3>1 DEF Writing
    <2>5. CASE internal >= 0
      <3>1. bounce' = CopyBytes(bounce, 0 + 0, gpu, BufOff, Size)
        BY <1>6, <1>8, <2>5
      <3>2. \A j \in 0..(Size - 1) : gpu[BufOff + j] = <<"gpu", BufOff + 0 + j>>
        <4> SUFFICES ASSUME NEW j \in 0..(Size - 1)
                     PROVE  gpu[BufOff + j] = <<"gpu", BufOff + 0 + j>>
          OBVIOUS
        <4>1. BufOff + j \in Cells /\ BufOff + 0 + j = BufOff + j
          BY <1>8, <1>9, <2>5 DEF Cells
        <4> QED BY <2>2, <4>1 DEF Plain
      <3>3. DOMAIN bounce = Cells /\ BufOff \in Int /\ 0 \in Int /\ 0 \in Nat /\ Size \in Nat
        BY <1>8 DEF IInv, Shape
      <3>4. Filled(bounce, "bounce", 0, 0, "gpu", BufOff)
        BY <2>2, <3>3, Unfilled
      <3>5. Filled(CopyBytes(bounce, 0 + 0, gpu, BufOff, Size), "bounce", 0, 0 + Size, "gpu", BufOff)
        BY <3>2, <3>3, <3>4, CopyMore, Zenon
      <3>6. Filled(bounce', "bounce", 0, Size, "gpu", BufOff)
        <4>1. 0 + Size = Size
          BY <1>8
        <4> QED BY <3>1, <3>5, <4>1
      <3> QED BY <1>1, <1>2, <1>3, <1>4, <1>6, <1>7, <2>2, <2>3, <2>5, <3>6 DEF Writing
    <2> QED BY <1>8, <2>4, <2>5
  <1> QED BY <1>11, <1>12, <1>13, <1>14, <1>15, <1>16 DEF IInv

(* async_io_cleanup keeps it. *)
LEMMA cleanupStep ==
  ASSUME IInv, async_io_cleanup
  PROVE  IInv'
  <1>1. /\ TaskIs("cleanup") /\ tasks' = Tail(tasks) /\ pc = "running" /\ pc' = "done"
        /\ published' = internal
        /\ UNCHANGED <<io_type, fixed, submitted_size, ret, params, copied, internal, bounce, gpu, file>>
    BY DEF async_io_cleanup, request, data, TaskIs
  <1>2. /\ Size' = Size /\ FileOff' = FileOff /\ BufOff' = BufOff /\ Bound' = Bound
        /\ UncheckedSize' = UncheckedSize
    BY <1>1 DEF Size, FileOff, BufOff, Bound, UncheckedSize
  <1>3. /\ First' = First /\ Second' = Second
        /\ tasks' \notin WithBind(First, Second) /\ tasks' \notin WithFirst(First, Second)
        /\ tasks' \notin OnlySecond(Second)
        /\ tasks = <<"cleanup">> /\ tasks' = << >>
    <2>1. "cleanup" # "bind" /\ "cleanup" # First
      BY DEF First
    <2> QED BY <1>1, <2>1, Popped
  <1>4. tasks \in NoCopy /\ tasks' \in NoCopy
    BY <1>3 DEF NoCopy
  <1>5. TypeOK' /\ Shape' /\ Queue'
    BY <1>1, <1>3 DEF IInv, TypeOK, Shape, Queue
  <1>6. Fresh' /\ Checked' /\ BindFirst'
    BY <1>1, <1>2, <1>3 DEF IInv, Fresh, Checked, BindFirst, paramsValid
  <1>7. Reading'
    BY <1>1, <1>2, <1>3, <1>4 DEF IInv, Reading
  <1>8. Writing'
    BY <1>1, <1>2, <1>3 DEF IInv, Writing
  <1> QED BY <1>5, <1>6, <1>7, <1>8 DEF IInv

-----------------------------------------------------------------------------
(* The theorems *)

(* IInv is an invariant: at every step of an operation the file, the bounce *)
(* buffer and the GPU buffer hold exactly what the counters say.            *)
THEOREM Invariant == Spec => []IInv
  <1>1. Init => IInv
    BY InitStep
  <1>2. IInv /\ [Next]_vars => IInv'
    <2> SUFFICES ASSUME IInv, [Next]_vars PROVE IInv'
      OBVIOUS
    <2>1. ASSUME NEW size \in Sizes, NEW f \in Offsets, NEW b \in Offsets, async_io(size, f, b)
          PROVE  IInv'
      BY <2>1, async_ioStep
    <2>2. ASSUME NEW size \in Sizes, NEW f \in Offsets, NEW b \in Offsets,
                 async_io_bind_params([x \in Params |-> CASE x = "size" -> size
                                                          [] x = "file_offset" -> f
                                                          [] x = "buffer_offset" -> b])
          PROVE  IInv'
      BY <2>2, bindStep
    <2>3. CASE CpuCopySkipped
      BY <2>3, CpuCopyEnds DEF CpuCopySkipped
    <2>4. ASSUME NEW n \in Sizes, CpuCopyChunk(n) PROVE IInv'
      <3>1. n \in Nat
        BY SizesAssumption DEF Sizes
      <3>2. CASE n > 0
        BY <2>4, <3>1, <3>2, CpuCopyMoves
      <3>3. CASE ~(n > 0)
        <4>1. /\ TaskIs("cpu_copy") /\ tasks' = Tail(tasks) /\ internal >= 0 /\ internal' = copied
              /\ UNCHANGED <<pc, request, params, copied, published, data>>
          BY <2>4, <3>3 DEF CpuCopyChunk, CopyDone, data
        <4> QED BY <4>1, CpuCopyEnds
      <3> QED BY <3>2, <3>3
    <2>5. CASE CpuCopyFull
      BY <2>5, CpuCopyEnds DEF CpuCopyFull, CopyDone
    <2>6. CASE CpuCopyFails
      BY <2>6, CpuCopyEnds DEF CpuCopyFails
    <2>7. CASE hipFileMemcpyKernel
      BY <2>7, hipFileMemcpyKernelStep
    <2>8. CASE async_io_cleanup
      BY <2>8, cleanupStep
    <2>9. CASE UNCHANGED vars
      <3> USE <2>9 DEF vars
      <3>1. /\ Size' = Size /\ FileOff' = FileOff /\ BufOff' = BufOff /\ Bound' = Bound
            /\ UncheckedSize' = UncheckedSize /\ First' = First /\ Second' = Second
        BY DEF Size, FileOff, BufOff, Bound, UncheckedSize, First, Second
      <3>2. TypeOK' /\ Shape' /\ Queue'
        BY <3>1 DEF IInv, TypeOK, Shape, Queue
      <3>3. Fresh' /\ Checked' /\ BindFirst'
        BY <3>1 DEF IInv, Fresh, Checked, BindFirst, paramsValid
      <3>4. Reading' /\ Writing'
        BY <3>1 DEF IInv, Reading, Writing
      <3> QED BY <3>2, <3>3, <3>4 DEF IInv
    <2> QED BY <2>1, <2>2, <2>3, <2>4, <2>5, <2>6, <2>7, <2>8, <2>9 DEF Next
  <1> QED BY <1>1, <1>2, PTL DEF Spec

(* The variables of an operation keep their types. *)
THEOREM TypeCorrect == Spec => []TypeOK
  <1>1. IInv => TypeOK
    BY DEF IInv
  <1> QED BY <1>1, Invariant, PTL

(* The host copy and the kernel find all three parameters bound.           *)
THEOREM ParametersBound == Spec => []BoundBeforeUse
  <1>1. IInv => BoundBeforeUse
    <2> SUFFICES ASSUME IInv, NEW k \in {"cpu_copy", "kernel"}, TaskIs(k) PROVE Bound
      BY DEF BoundBeforeUse, Bound
    <2> DEFINE a == First
               b == Second
               q == tasks
    <2>1. a # b /\ {a, b} = {"cpu_copy", "kernel"}
      BY Kinds DEF IInv
    <2>2. /\ q \in WithBind(a, b) \/ q \in WithFirst(a, b) \/ q \in OnlySecond(b) \/ q = <<"cleanup">>
          /\ Head(q) = k
      BY DEF IInv, Queue, TaskIs
    <2>3. q \in WithFirst(a, b) \cup OnlySecond(b) => Bound
      BY DEF IInv, BindFirst
    <2> HIDE DEF a, b, q
    <2>4. /\ q \in WithBind(a, b) => Head(q) = "bind"
          /\ q = <<"cleanup">> => Head(q) = "cleanup"
      BY <2>1, <2>2, Tails
    <2> QED BY <2>2, <2>3, <2>4
  <1> QED BY <1>1, Invariant, PTL

(* No copy leaves the bounce buffer or the GPU buffer, whatever the         *)
(* application changes after the submission.                                *)
THEOREM CopiesInside == Spec => []CopiesStayInside
  <1>1. IInv => CopiesStayInside
    <2> SUFFICES ASSUME IInv, ~UncheckedSize, NEW i \in Cells
                 PROVE  /\ i >= submitted_size => bounce[i] = <<"bounce", i>>
                        /\ i >= BufLen => gpu[i] = <<"gpu", i>>
                        /\ file[i][1] = "gpu" => file[i][2] < BufLen
      BY DEF CopiesStayInside
    <2>1. CASE Bound /\ internal # -InvalidValue
      <3>1. /\ FileOff >= 0 /\ BufOff >= 0 /\ copied <= Size
            /\ Size <= submitted_size /\ BufLen - BufOff >= Size
        BY <2>1 DEF IInv, Checked, paramsValid
      <3>2. /\ Size \in Nat /\ FileOff \in Nat /\ BufOff \in Nat /\ copied \in Nat /\ internal \in Int
            /\ submitted_size \in Nat /\ BufLen \in Nat /\ i \in Nat
        <4>1. /\ Size \in Nat /\ FileOff \in Int /\ BufOff \in Int /\ copied \in Nat /\ internal \in Int
              /\ submitted_size \in Nat
          BY <2>1, Numbers DEF IInv
        <4>2. BufLen \in Nat /\ i \in Nat
          BY SizesAssumption DEF Cells
        <4> QED BY <3>1, <4>1, <4>2
      <3>3. CASE io_type = "Read"
        <4>1. /\ file[i] = <<"file", i>> /\ internal <= copied
              /\ Filled(bounce, "bounce", 0, copied, "file", FileOff)
              /\ \/ Plain(gpu, "gpu")
                 \/ Filled(gpu, "gpu", BufOff, internal, "file", FileOff)
          BY <3>3 DEF IInv, Reading, Plain
        <4>2. i >= submitted_size => i \notin 0..(0 + copied - 1)
          BY <3>1, <3>2
        <4>3. i >= BufLen => i \notin BufOff..(BufOff + internal - 1)
          BY <3>1, <3>2, <4>1
        <4>4. i >= submitted_size => bounce[i] = <<"bounce", i>>
          BY <4>1, <4>2 DEF Filled
        <4>5. i >= BufLen => gpu[i] = <<"gpu", i>>
          BY <4>1, <4>3 DEF Filled, Plain
        <4>6. file[i][1] # "gpu"
          BY <4>1
        <4> QED BY <4>4, <4>5, <4>6
      <3>4. CASE io_type = "Write"
        <4>1. /\ gpu[i] = <<"gpu", i>> /\ Filled(file, "file", FileOff, copied, "gpu", BufOff)
              /\ \/ Plain(bounce, "bounce")
                 \/ Filled(bounce, "bounce", 0, Size, "gpu", BufOff)
          BY <3>4 DEF IInv, Writing, Plain
        <4>2. i >= submitted_size => i \notin 0..(0 + Size - 1)
          BY <3>1, <3>2
        <4>3. i >= submitted_size => bounce[i] = <<"bounce", i>>
          BY <4>1, <4>2 DEF Filled, Plain
        <4>4. ASSUME file[i][1] = "gpu" PROVE file[i][2] < BufLen
          <5>1. i \in FileOff..(FileOff + copied - 1) /\ file[i] = <<"gpu", BufOff + (i - FileOff)>>
            <6>1. file[i] = IF i \in FileOff..(FileOff + copied - 1)
                            THEN <<"gpu", BufOff + (i - FileOff)>> ELSE <<"file", i>>
              BY <4>1 DEF Filled
            <6>2. file[i] # <<"file", i>>
              BY <4>4
            <6> QED BY <6>1, <6>2
          <5>2. BufOff + (i - FileOff) < BufLen
            BY <3>1, <3>2, <5>1
          <5> QED BY <5>1, <5>2
        <4> QED BY <4>1, <4>3, <4>4
      <3> QED BY <3>3, <3>4 DEF IInv, TypeOK
    <2>2. CASE ~(Bound /\ internal # -InvalidValue)
      <3>1. bounce[i] = <<"bounce", i>> /\ gpu[i] = <<"gpu", i>> /\ file[i] = <<"file", i>>
        BY <2>2 DEF IInv, Fresh, Plain
      <3> QED BY <3>1
    <2> QED BY <2>1, <2>2
  <1> QED BY <1>1, Invariant, PTL

(* The count a successful operation publishes is what arrived, and a read   *)
(* changes nothing else in the GPU buffer.                                  *)
THEOREM Reported == Spec => []ReportedWasMoved
  <1>1. IInv => ReportedWasMoved
    <2> SUFFICES ASSUME IInv, pc = "done", ret = "success" PROVE ReportedWasMoved
      BY DEF ReportedWasMoved
    <2>1. published = internal /\ tasks = << >> /\ tasks \in NoCopy /\ internal \in Int
      BY Numbers DEF IInv, Queue, NoCopy
    <2>2. CASE io_type = "Read"
      <3>1. CASE internal > 0
        BY <2>1, <2>2, <3>1 DEF IInv, Reading, Filled, ReportedWasMoved, FileOff, BufOff
      <3>2. CASE ~(internal > 0)
        <4>1. Plain(gpu, "gpu")
          <5>1. CASE Filled(gpu, "gpu", BufOff, internal, "file", FileOff) /\ internal >= 0
            <6>1. internal = 0 /\ BufOff \in Int
              BY <2>1, <3>2, <5>1, Numbers DEF IInv
            <6> QED BY <5>1, <6>1, Unfilled
          <5> QED BY <2>2, <5>1 DEF IInv, Reading
        <4> QED BY <2>1, <2>2, <3>2, <4>1 DEF Plain, ReportedWasMoved
      <3> QED BY <3>1, <3>2
    <2>3. CASE io_type = "Write"
      <3> SUFFICES ASSUME internal > 0, NEW i \in FileOff..(FileOff + internal - 1)
                   PROVE  file[i] = <<"gpu", BufOff + (i - FileOff)>>
        BY <2>1, <2>3 DEF ReportedWasMoved, FileOff, BufOff
      <3>1. internal = copied /\ Filled(file, "file", FileOff, copied, "gpu", BufOff)
        BY <2>3 DEF IInv, Writing, InvalidValue
      <3>2. Bound /\ internal # -InvalidValue
        BY DEF IInv, Fresh, InvalidValue
      <3>3. i \in Cells
        <4>1. /\ FileOff >= 0 /\ FileOff \in Int /\ FileOff <= BufLen /\ copied <= MaxSize
              /\ copied \in Nat
          BY <3>2, Numbers DEF IInv, Checked
        <4>2. MaxSize \in Nat /\ BufLen \in Nat /\ FileLen \in Nat
          BY SizesAssumption
        <4> QED BY <3>1, <4>1, <4>2 DEF Cells
      <3> QED BY <3>1, <3>3 DEF Filled
    <2> QED BY <2>2, <2>3 DEF IInv, TypeOK
  <1> QED BY <1>1, Invariant, PTL

=============================================================================
