------------------------------ MODULE Manager ------------------------------
(***************************************************************************)
(* The operator's processes: main() of cmd/main.go, from NewManager to the *)
(* return of Start, run with --leader-elect as config/manager/manager.yaml *)
(* does. Each process registers the six controllers, waits for the lease,  *)
(* works while it can renew it, and ends when Start returns; the kubelet   *)
(* starts it again. Two processes coexist during every rolling update.     *)
(*                                                                         *)
(* The lease is that of client-go with the defaults of controller-runtime  *)
(* (15 s, 10 s, 2 s), which main() does not change; it is modelled from    *)
(* what the options of NewManager ask for.                                 *)
(***************************************************************************)
EXTENDS Integers, Adapters

CONSTANTS
    Process,
    LeaseDuration,  \* others wait this long for a lease that is not renewed
    RenewDeadline,  \* its holder gives up after this long without renewal
    RetryPeriod,    \* its holder renews this often
    MaxCuts,        \* processes cut off from the API server
    MaxFailures     \* crashes, failed set-ups, terminations

ASSUME LeaseAssumption ==
    /\ {LeaseDuration, RenewDeadline, RetryPeriod, MaxCuts, MaxFailures} \subseteq Nat
    /\ 0 < RetryPeriod /\ RetryPeriod < RenewDeadline /\ RenewDeadline < LeaseDuration

Nobody == "nobody"
ASSUME HolderAssumption == Nobody \notin Process

VARIABLES
    proc,    \* proc[p]: where main() is in p, and the controllers it has set up
    holder,  \* who wrote the lease last
    age,     \* time since the lease was written
    since,   \* since[p]: time since p last renewed it
    cut,     \* processes that do not reach the API server
    budget   \* what may still go wrong

vars == <<proc, holder, age, since, cut, budget>>

Kind == DOMAIN ControllerName

\* The controllers in the order main() sets them up.
SetupOrder ==
    <<"PostgresCluster", "ValkeyCluster", "GrafanaInstance", "MariaDBCluster",
      "RabbitMQCluster", "PrometheusInstance">>

\* draining: told to end, and waiting for the Reconcile calls in progress, whose
\* context is cancelled; deposed: so, and without the lease.
Phase == {"down", "setup", "standby", "active", "draining", "deposed"}

MainState ==
    [phase : Phase, step : 1..Len(SetupOrder) + 1, serves : SUBSET Kind]

Budget == [cuts : 0..MaxCuts, failures : 0..MaxFailures]

Down == [phase |-> "down", step |-> 1, serves |-> {}]

\* p leads: its workers run, or end their calls while it still renews the lease.
Leading(p) == proc[p].phase \in {"active", "draining"}

TypeOK ==
    /\ proc \in [Process -> MainState]
    /\ holder \in Process \cup {Nobody}
    /\ age \in 0..LeaseDuration
    /\ since \in [Process -> 0..RenewDeadline]
    /\ cut \subseteq Process
    /\ budget \in Budget

(***************************************************************************)
(* main().                                                                 *)
(***************************************************************************)
Become(p, state) ==
    /\ proc' = [proc EXCEPT ![p] = state]
    /\ UNCHANGED <<holder, age, cut>>

Spend ==
    /\ budget.failures > 0
    /\ budget' = [budget EXCEPT !.failures = @ - 1]

\* The kubelet starts the process.
Launch(p) ==
    /\ proc[p].phase = "down"
    /\ Become(p, [Down EXCEPT !.phase = "setup"])
    /\ UNCHANGED <<since, budget>>

\* The next SetupWithManager.
SetupController(p) ==
    /\ proc[p].phase = "setup"
    /\ proc[p].step <= Len(SetupOrder)
    /\ Become(p, [proc[p] EXCEPT !.step = @ + 1,
                    !.serves = @ \cup {SetupOrder[proc[p].step]}])
    /\ UNCHANGED <<since, budget>>

\* Slip: the last of the six blocks lacks its os.Exit(1), so that the failure is
\* logged and main() goes on.
SetupFailsLogged(p) ==
    /\ proc[p].phase = "setup"
    /\ Spend
    /\ Become(p, IF proc[p].step = Len(SetupOrder) THEN [proc[p] EXCEPT !.step = @ + 1]
                 ELSE Down)
    /\ UNCHANGED since

\* NewManager, a SetupWithManager or a health check returns an error: exit.
SetupFails(p) ==
    /\ proc[p].phase = "setup"
    /\ Spend
    /\ Become(p, Down)
    /\ UNCHANGED since

\* Slip: LeaderElection is left out of the options.
StartUnelected(p) ==
    /\ proc[p].phase = "setup"
    /\ proc[p].step > Len(SetupOrder)
    /\ Become(p, [proc[p] EXCEPT !.phase = "active"])
    /\ UNCHANGED <<since, budget>>

\* Start: with LeaderElection the controllers wait for the lease.
Start(p) ==
    /\ proc[p].phase = "setup"
    /\ proc[p].step > Len(SetupOrder)
    /\ Become(p, [proc[p] EXCEPT !.phase = "standby"])
    /\ UNCHANGED <<since, budget>>

\* The lease is free or has not been renewed for LeaseDuration: write it and
\* start the controllers. A process that was restarted has a new identity and
\* waits for its own old lease like anyone else.
Acquire(p) ==
    /\ proc[p].phase = "standby" /\ p \notin cut
    /\ holder = Nobody \/ age = LeaseDuration
    /\ proc' = [proc EXCEPT ![p].phase = "active"]
    /\ holder' = p
    /\ age' = 0
    /\ since' = [since EXCEPT ![p] = 0]
    /\ UNCHANGED <<cut, budget>>

Renew(p) ==
    /\ Leading(p) /\ holder = p /\ p \notin cut
    /\ since[p] > 0
    /\ age' = 0
    /\ since' = [since EXCEPT ![p] = 0]
    /\ UNCHANGED <<proc, holder, cut, budget>>

\* The lease could not be renewed in time: Start returns an error at once, and
\* main() exits with every call of its workers.
LoseLease(p) ==
    /\ proc[p].phase = "active"
    /\ since[p] = RenewDeadline
    /\ Become(p, Down)
    /\ since' = [since EXCEPT ![p] = 0]
    /\ UNCHANGED budget

\* The same while Start waits for the workers already: the loss is logged, the
\* renewals end and the wait goes on.
LoseLeaseDraining(p) ==
    /\ proc[p].phase = "draining"
    /\ since[p] = RenewDeadline
    /\ Become(p, [proc[p] EXCEPT !.phase = "deposed"])
    /\ since' = [since EXCEPT ![p] = 0]
    /\ UNCHANGED budget

\* Slip: LeaderElectionReleaseOnCancel, with the lease given up at the signal.
TerminateReleases(p) ==
    /\ proc[p].phase \in {"setup", "standby", "active"}
    /\ Spend
    /\ proc' = [proc EXCEPT ![p] =
                  IF Leading(p) THEN [@ EXCEPT !.phase = "draining"] ELSE Down]
    /\ holder' = IF Leading(p) THEN Nobody ELSE holder
    /\ UNCHANGED <<age, cut, since>>

\* SIGTERM: the signal handler cancels the context of Start; a process that
\* leads waits for its calls to end and keeps renewing the lease meanwhile.
Terminate(p) ==
    /\ proc[p].phase \in {"setup", "standby", "active"}
    /\ Spend
    /\ Become(p, IF Leading(p) THEN [proc[p] EXCEPT !.phase = "draining"] ELSE Down)
    /\ UNCHANGED since

\* Start returns nil and main() ends. The lease is not released
\* (LeaderElectionReleaseOnCancel is off): the next one waits it out.
Drained(p) ==
    /\ proc[p].phase \in {"draining", "deposed"}
    /\ Become(p, Down)
    /\ since' = [since EXCEPT ![p] = 0]
    /\ UNCHANGED budget

Crash(p) ==
    /\ proc[p].phase # "down"
    /\ Spend
    /\ Become(p, Down)
    /\ since' = [since EXCEPT ![p] = 0]

(***************************************************************************)
(* The network and time.                                                   *)
(***************************************************************************)
CutOff(p) ==
    /\ p \notin cut
    /\ budget.cuts > 0
    /\ budget' = [budget EXCEPT !.cuts = @ - 1]
    /\ cut' = cut \cup {p}
    /\ UNCHANGED <<proc, holder, age, since>>

Heal(p) ==
    /\ p \in cut
    /\ cut' = cut \ {p}
    /\ UNCHANGED <<proc, holder, age, since, budget>>

\* A holder acts on its timers: it renews every RetryPeriod if it can, and
\* does not live past the deadline.
Tick ==
    /\ \A p \in Process : Leading(p) =>
         since[p] < IF p \in cut THEN RenewDeadline ELSE RetryPeriod
    /\ age' = IF age < LeaseDuration THEN age + 1 ELSE age
    /\ since' = [p \in Process |-> IF Leading(p) THEN since[p] + 1 ELSE since[p]]
    /\ UNCHANGED <<proc, holder, cut, budget>>

(***************************************************************************)
(* Specification.                                                          *)
(***************************************************************************)
Init ==
    /\ proc = [p \in Process |-> Down]
    /\ holder = Nobody
    /\ age = 0
    /\ since = [p \in Process |-> 0]
    /\ cut = {}
    /\ budget = [cuts |-> MaxCuts, failures |-> MaxFailures]

Step(p) ==
    \/ Launch(p) \/ SetupController(p) \/ SetupFails(p) \/ Start(p) \/ Acquire(p)
    \/ Renew(p) \/ LoseLease(p) \/ LoseLeaseDraining(p) \/ Terminate(p) \/ Drained(p) \/ Crash(p)
    \/ CutOff(p) \/ Heal(p)

Next == Tick \/ \E p \in Process : Step(p)

Spec == Init /\ [][Next]_vars

\* main() runs on, the kubelet starts what has ended, the network heals and
\* time passes. Failures, terminations and cuts are never forced.
Fairness ==
    /\ WF_vars(Tick)
    /\ \A p \in Process :
         /\ WF_vars(Launch(p)) /\ WF_vars(SetupController(p)) /\ WF_vars(Start(p))
         /\ WF_vars(Acquire(p)) /\ WF_vars(Renew(p)) /\ WF_vars(LoseLease(p))
         /\ WF_vars(LoseLeaseDraining(p)) /\ WF_vars(Drained(p)) /\ WF_vars(Heal(p))

FairSpec == Spec /\ Fairness

(***************************************************************************)
(* Properties.                                                             *)
(***************************************************************************)
\* main.go:70, of leader election: "there is only one active controller
\* manager", through crashes, partitions, rolling updates and shutdowns that
\* take long. The single worker per key that module Reconciler relies on rests
\* on it. A process deposed during its shutdown may still wait for its calls
\* when the next one starts: their context is cancelled, so that they send
\* nothing new, and what they had sent is a late request of module Handover.
OneActive ==
    \A p, q \in Process : Leading(p) /\ Leading(q) => p = q

\* The inductive invariant behind it. A process that leads holds the lease, and
\* the lease is no older than the process thinks: it gives up, at RenewDeadline,
\* before anyone else may take over, at LeaseDuration (main.go:157-180, 228-232).
LeaseInv ==
    /\ TypeOK
    /\ \A p \in Process : Leading(p) => holder = p /\ age <= since[p]

\* Once failures pause, some process works for good, and for all six kinds: no
\* failed set-up leaves a process that leads without one of its controllers,
\* and no deposed or cut-off one keeps the lease for itself (main.go:181-233).
AllServed ==
    <>[]\E p \in Process : proc[p].phase = "active" /\ proc[p].serves = Kind
=============================================================================
