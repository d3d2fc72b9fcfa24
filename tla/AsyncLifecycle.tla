---------------------------- MODULE AsyncLifecycle ----------------------------
(***************************************************************************)
(* What hipFileReadAsync and hipFileWriteAsync promise about an operation, *)
(* without threads, locks, queues or the device: it is refused, or it is   *)
(* accepted and from then on completes once, tells the application once,   *)
(* and is freed once, after both the call has answered and the application *)
(* has been told.  AsyncMonitor implements this.                           *)
(***************************************************************************)

CONSTANT Ops    \* operations

VARIABLES
    phase,      \* "none", "submitted", "complete", "freed"
    answer,     \* what the call told its caller, "none" while it runs
    published   \* operations whose byte count was stored for the application

vars == <<phase, answer, published>>

Init ==
    /\ phase = [o \in Ops |-> "none"]
    /\ answer = [o \in Ops |-> "none"]
    /\ published = {}

(* The operation o goes from one phase to the next. *)
Transition(o, from, to) ==
    /\ phase[o] = from
    /\ phase' = [phase EXCEPT ![o] = to]

Refuse(o) ==
    /\ phase[o] = "none" /\ answer[o] = "none"
    /\ answer' = [answer EXCEPT ![o] = "error"]
    /\ UNCHANGED <<phase, published>>

Submit(o) ==
    /\ answer[o] = "none"
    /\ Transition(o, "none", "submitted")
    /\ UNCHANGED <<answer, published>>

(* The call answers, before or after the device is done.  A "leaked"        *)
(* operation is one the library gave up: it never completes.                *)
Answer(o, r) ==
    /\ phase[o] \in (IF r = "leaked" THEN {"submitted"} ELSE {"submitted", "complete"})
    /\ answer[o] = "none"
    /\ answer' = [answer EXCEPT ![o] = r]
    /\ UNCHANGED <<phase, published>>

(* The device is done with the data; file, buffer and stream are released. *)
Complete(o) ==
    /\ answer[o] # "leaked"
    /\ Transition(o, "submitted", "complete")
    /\ UNCHANGED <<answer, published>>

Publish(o) ==
    /\ phase[o] = "complete"
    /\ o \notin published
    /\ published' = published \cup {o}
    /\ UNCHANGED <<phase, answer>>

Free(o) ==
    /\ o \in published
    /\ answer[o] \in {"success", "error"}
    /\ Transition(o, "complete", "freed")
    /\ UNCHANGED <<answer, published>>

Next ==
    \E o \in Ops :
      \/ Refuse(o)
      \/ Submit(o)
      \/ \E r \in {"success", "error", "leaked"} : Answer(o, r)
      \/ Complete(o)
      \/ Publish(o)
      \/ Free(o)

Spec == Init /\ [][Next]_vars

=============================================================================
