------------------------------ MODULE Lifecycle ------------------------------
(***************************************************************************)
(* What finalizer-gated cleanup promises, without saying how: objects come *)
(* into being only under a custom resource that is guarded by the cleanup  *)
(* finalizer, and the guard is given up only when none is left.            *)
(*                                                                         *)
(*   none -> plain -> guarded -> closing -> (released ->) none             *)
(***************************************************************************)
CONSTANTS
    Key,     \* custom resources
    Object   \* foreign objects

VARIABLES
    cr,      \* cr[k]: where custom resource k is in its life
    owned    \* owned[k]: the live foreign objects that carry k's label

vars == <<cr, owned>>

Phase == {"none", "plain", "guarded", "closing", "released"}

TypeOK ==
    /\ cr \in [Key -> Phase]
    /\ owned \in [Key -> SUBSET Object]

Init ==
    /\ cr = [k \in Key |-> "none"]
    /\ owned = [k \in Key |-> {}]

Move(k, from, to) ==
    /\ cr[k] = from
    /\ cr' = [cr EXCEPT ![k] = to]
    /\ UNCHANGED owned

Create(k) == Move(k, "none", "plain")

Guard(k) == Move(k, "plain", "guarded")

\* A user's delete of a guarded custom resource only marks it.
Close(k) == Move(k, "guarded", "closing")

\* A user's delete of an unguarded one takes it away at once, unless another
\* finalizer holds it.
Abandon(k) == \E to \in {"none", "released"} : Move(k, "plain", to)

Release(k) ==
    /\ owned[k] = {}
    /\ \E to \in {"none", "released"} : Move(k, "closing", to)

Collect(k) == Move(k, "released", "none")

\* k creates o, or takes it over from whoever has it. A custom resource that
\* is closing may still do so: its Reconcile call has not noticed yet.
Acquire(k, o) ==
    /\ cr[k] \in {"guarded", "closing"}
    /\ owned' = [j \in Key |->
                   IF j = k THEN owned[j] \cup {o} ELSE owned[j] \ {o}]
    /\ UNCHANGED cr

Lose(k, o) ==
    /\ o \in owned[k]
    /\ owned' = [owned EXCEPT ![k] = @ \ {o}]
    /\ UNCHANGED cr

Next ==
    \E k \in Key :
        \/ Create(k) \/ Guard(k) \/ Close(k) \/ Abandon(k) \/ Release(k)
        \/ Collect(k)
        \/ \E o \in Object : Acquire(k, o) \/ Lose(k, o)

Spec == Init /\ [][Next]_vars
==============================================================================
