------------------------ MODULE ReconcilerLifecycle ------------------------
(***************************************************************************)
(* The reconciler seen as an implementation of Lifecycle.                  *)
(***************************************************************************)
EXTENDS Reconciler

\* Where the CR with the given stored version is in its life.
PhaseOf(s) ==
    CASE ~s.present -> "none"
      [] s.present /\ ~s.deleting /\ ~s.fin -> "plain"
      [] s.present /\ ~s.deleting /\ s.fin -> "guarded"
      [] s.present /\ s.deleting /\ s.fin -> "closing"
      [] OTHER -> "released"

LiveOf(k) == {o \in Object : objects[o].phase = "live" /\ objects[o].owner = k}

crBar == [k \in Key |-> PhaseOf(Cur(k))]
ownedBar == [k \in Key |-> LiveOf(k)]

Promise == INSTANCE Lifecycle WITH cr <- crBar, owned <- ownedBar

\* Reading a stale cache, failing half-way, restarting and racing users never
\* take the reconciler out of the life cycle: objects appear only under a CR
\* that has the finalizer, and the finalizer goes only when none is left
\* (reconciler.go:158-199).
ImplementsLifecycle == Promise!Spec
=============================================================================
