---------------------------- MODULE StatusMirror ----------------------------
(***************************************************************************)
(* How a CR's .status follows its target: step 3 (apply, whose response    *)
(* carries the vendor's status), step 4 (mirror it) and the polling timer  *)
(* of GenericReconciler.Reconcile, with the ExtractStatus and ApplyStatus  *)
(* of each adapter. The CR has its finalizer and is not deleted here; that *)
(* part of Reconcile is the subject of module Reconciler, as are restarts. *)
(*                                                                         *)
(* Any call to the API server may fail, with or without its effect; the    *)
(* work queue then delays the retry, longer with each failure in a row.    *)
(* Time passes between Reconcile calls: what a call takes, or waits for a  *)
(* worker that is busy with other CRs, is not counted.                     *)
(***************************************************************************)
EXTENDS Integers

CONSTANTS
    Kinds,       \* the vendors whose adapters are considered
    Counts,      \* replicas/instances/shards a user asks for
    Fast, Slow,  \* polling intervals
    BaseBackoff, \* delay of the first retry; it doubles with each failure
    MaxBackoff,  \* and stays at this one
    MaxEdits,    \* edits of the CR
    MaxFaults,   \* failed calls
    MaxStops     \* units that go down

AllKinds == {"CNPG", "Valkey", "Prometheus", "MariaDB", "RabbitMQ", "Grafana"}

ASSUME MirrorAssumption ==
    /\ Kinds \subseteq AllKinds
    /\ Counts \subseteq Nat
    /\ Fast \in Nat \ {0} /\ Slow \in Nat /\ Fast < Slow
    /\ BaseBackoff \in Nat \ {0} /\ MaxBackoff \in Nat /\ BaseBackoff < MaxBackoff
    /\ {MaxEdits, MaxFaults, MaxStops} \subseteq Nat

VARIABLES
    kind,     \* the vendor
    cr,       \* the CR at the API server: count, gen, status, and stamp, the
              \* parity of the transition times its Ready condition has had
    target,   \* the vendor object: count (spec), and what its status reports:
              \* known (units it counts), up (ready ones), done (its verdict)
    call,     \* the Reconcile call: pc, the CR it read, the status it mirrors,
              \* conflict (the CR has been written since it was read)
    wake,     \* the key's one entry in the work queue: time until it is due,
              \* Never if there is none
    backoff,  \* the delay the next failure gets
    age,      \* time since the mirrored status was read
    budget    \* edits, faults and stops left

vars == <<kind, cr, target, call, wake, backoff, age, budget>>

(***************************************************************************)
(* The adapters. u is the target as the apply returns it, gen the          *)
(* generation of the CR the call works on. total and up are the counts the *)
(* CR reports.                                                             *)
(***************************************************************************)
Status == [ready : BOOLEAN, gen : Nat, total : Nat, up : Nat]

NoStatus == [ready |-> FALSE, gen |-> 0, total |-> 0, up |-> 0]

\* Ready by comparing two counts of the vendor's status.
ByCounts(total, up, gen) ==
    [ready |-> total > 0 /\ up >= total, gen |-> gen, total |-> total, up |-> up]

\* Ready by a condition; the ready count is all or nothing.
ByCondition(total, done, gen) ==
    [ready |-> done /\ total > 0, gen |-> gen, total |-> total,
     up |-> IF done THEN total ELSE 0]

CnpgMirror(u, gen) == ByCounts(u.known, u.up, gen)

ValkeyMirror(u, gen) == ByCounts(u.known, u.up, gen)

PrometheusMirror(u, gen) == ByCounts(u.known, u.up, gen)

\* Slip: no check that there is anything to be ready.
MariaDBMirrorUnchecked(u, gen) ==
    [ready |-> u.done, gen |-> gen, total |-> u.known,
     up |-> IF u.done THEN u.known ELSE 0]

MariaDBMirror(u, gen) == ByCondition(u.known, u.done, gen)

\* The count is read back from the spec just applied: the vendor's status
\* carries none.
RabbitMQMirror(u, gen) == ByCondition(u.count, u.done, gen)

\* Ready by stage and stageStatus alone; the CR reports no total, so the one
\* here is the desired count ExtractStatus reads back from the spec.
GrafanaMirror(u, gen) ==
    [ready |-> u.done, gen |-> gen, total |-> u.count, up |-> u.up]

Mirror(u, gen) ==
    CASE kind = "CNPG"       -> CnpgMirror(u, gen)
      [] kind = "Valkey"     -> ValkeyMirror(u, gen)
      [] kind = "Prometheus" -> PrometheusMirror(u, gen)
      [] kind = "MariaDB"    -> MariaDBMirror(u, gen)
      [] kind = "RabbitMQ"   -> RabbitMQMirror(u, gen)
      [] kind = "Grafana"    -> GrafanaMirror(u, gen)

\* Slip: the transition time is the time of the write.
SetStatusConditionNow(c, s) == ~c.stamp

\* meta.SetStatusCondition: the transition time changes with the status of the
\* condition and not otherwise.
SetStatusCondition(c, s) == IF s.ready = c.status.ready THEN c.stamp ELSE ~c.stamp

(***************************************************************************)
(* Types.                                                                  *)
(***************************************************************************)
Never == Slow + MaxBackoff + 1

CR == [count : Counts, gen : Nat, status : Status, stamp : BOOLEAN]

NoCall == [pc |-> "idle", gen |-> 0, count |-> 0, status |-> NoStatus, conflict |-> FALSE]

Budget == [edits : 0..MaxEdits, faults : 0..MaxFaults, stops : 0..MaxStops]

TypeOK ==
    /\ kind \in Kinds
    /\ cr \in CR
    /\ target \in [count : Counts, known : Nat, up : Nat, done : BOOLEAN]
    /\ call \in [pc : {"idle", "apply", "mirror"}, gen : Nat, count : Nat,
                 status : Status, conflict : BOOLEAN]
    /\ wake \in 0..Never
    /\ backoff \in BaseBackoff..MaxBackoff
    /\ age \in Nat
    /\ budget \in Budget

(***************************************************************************)
(* Reconcile.                                                              *)
(***************************************************************************)
Earlier(t, u) == IF t < u THEN t ELSE u

\* When the key is due after a step: a CR that was written is an event, which
\* makes it due at once.
Due == IF cr' # cr THEN 0 ELSE wake

\* The worker takes the key, and with it whatever timer it had.
Begin ==
    /\ wake = 0 /\ call.pc = "idle"
    /\ wake' = Never
    /\ call' = [NoCall EXCEPT !.pc = "apply", !.gen = cr.gen, !.count = cr.count]
    /\ UNCHANGED <<kind, cr, target, backoff, age, budget>>

\* Slip: the error is logged and not returned.
ReturnErrorSwallowed ==
    /\ call' = NoCall
    /\ wake' = Due
    /\ backoff' = BaseBackoff

\* return ctrl.Result{}, err: the work queue adds the key again with its rate
\* limiter's delay, or leaves it where it is due before.
ReturnError ==
    /\ call' = NoCall
    /\ wake' = Earlier(Due, backoff)
    /\ backoff' = Earlier(2 * backoff, MaxBackoff)

\* The target as an apply leaves it: applying a spec does not touch the
\* vendor's status.
Applied == [target EXCEPT !.count = call.count]

\* Steps 2 and 3: look for the target, apply it, and take the status the
\* response carries.
Apply ==
    /\ call.pc = "apply"
    /\ target' = Applied
    /\ call' = [call EXCEPT !.pc = "mirror", !.status = Mirror(Applied, call.gen)]
    /\ UNCHANGED <<kind, cr, wake, backoff, age, budget>>

Fault ==
    /\ budget.faults > 0
    /\ budget' = [budget EXCEPT !.faults = @ - 1]

\* Step 2 or 3 fails; the apply may have taken effect and lost its response.
ApplyFails ==
    /\ call.pc = "apply"
    /\ Fault
    /\ target' \in {target, Applied}
    /\ UNCHANGED <<kind, cr, age>>
    /\ ReturnError

\* Slip: the intervals swapped.
RequeueAfterSwapped(s) == IF s.ready THEN Fast ELSE Slow

\* 15 s, or 5 min once the target reports ready.
RequeueAfter(s) == IF s.ready THEN Slow ELSE Fast

\* The CR as ApplyStatus leaves it.
Mirrored ==
    [cr EXCEPT !.status = call.status, !.stamp = SetStatusCondition(cr, call.status)]

\* Slip: the status is written only when readiness changed.
UpdateStatusOnFlip ==
    /\ call.pc = "mirror"
    /\ call' = NoCall
    /\ cr' = IF call.status.ready = cr.status.ready THEN cr ELSE Mirrored
    /\ wake' = Earlier(Due, RequeueAfter(call.status))
    /\ backoff' = BaseBackoff
    /\ age' = 0
    /\ UNCHANGED <<kind, target, budget>>

\* Step 4: write the status and start the timer; the failures so far are
\* forgotten. A conflict is an error like any other.
UpdateStatus ==
    /\ call.pc = "mirror"
    /\ IF call.conflict
       THEN UNCHANGED <<cr, age>> /\ ReturnError
       ELSE /\ call' = NoCall
            /\ cr' = Mirrored
            /\ wake' = Earlier(Due, RequeueAfter(call.status))
            /\ backoff' = BaseBackoff
            /\ age' = 0
    /\ UNCHANGED <<kind, target, budget>>

\* Step 3b fails, or the write of the status does; it may have taken effect
\* and lost its response.
UpdateStatusFails ==
    /\ call.pc = "mirror"
    /\ Fault
    /\ \/ UNCHANGED <<cr, age>>
       \/ ~call.conflict /\ cr' = Mirrored /\ age' = 0
    /\ ReturnError
    /\ UNCHANGED <<kind, target>>

(***************************************************************************)
(* Time, users and vendors.                                                *)
(***************************************************************************)
\* A key that is due is taken, and its call made, before time passes.
Tick ==
    /\ call.pc = "idle" /\ wake # 0
    /\ wake' = IF wake = Never THEN Never ELSE wake - 1
    /\ age' = age + 1
    /\ UNCHANGED <<kind, cr, target, call, backoff, budget>>

UserScales(n) ==
    /\ budget.edits > 0 /\ n # cr.count
    /\ budget' = [budget EXCEPT !.edits = @ - 1]
    /\ cr' = [cr EXCEPT !.count = n, !.gen = @ + 1]
    /\ wake' = Due
    /\ call' = IF call.pc = "idle" THEN call ELSE [call EXCEPT !.conflict = TRUE]
    /\ UNCHANGED <<kind, target, backoff, age>>

VendorStep(t) ==
    /\ target' = t
    /\ target' # target
    /\ UNCHANGED <<kind, cr, call, wake, backoff, age>>

\* The vendor takes note of the spec.
VendorObserves == VendorStep([target EXCEPT !.known = target.count]) /\ UNCHANGED budget

\* It starts units it lacks, and stops those that are too many.
VendorStarts ==
    /\ target.up < target.count
    /\ VendorStep([target EXCEPT !.up = @ + 1]) /\ UNCHANGED budget

VendorStops ==
    /\ target.up > target.count
    /\ VendorStep([target EXCEPT !.up = @ - 1]) /\ UNCHANGED budget

\* Its verdict: the Ready or AllReplicasReady condition of the units it runs,
\* or (Grafana) the outcome of its own reconciliation.
VendorJudges ==
    /\ VendorStep([target EXCEPT !.done =
                     kind = "Grafana" \/ target.up >= target.count])
    /\ UNCHANGED budget

UnitFails ==
    /\ target.up > 0 /\ budget.stops > 0
    /\ budget' = [budget EXCEPT !.stops = @ - 1]
    /\ VendorStep([target EXCEPT !.up = @ - 1])

(***************************************************************************)
(* Specification.                                                          *)
(***************************************************************************)
\* A CR with its finalizer and a target that an earlier process created before
\* it ended, short of writing a status.
Init ==
    /\ kind \in Kinds
    /\ \E n \in Counts :
         /\ cr = [count |-> n, gen |-> 1, status |-> NoStatus, stamp |-> FALSE]
         /\ target = [count |-> n, known |-> 0, up |-> 0, done |-> FALSE]
    /\ call = NoCall
    /\ wake = 0
    /\ backoff = BaseBackoff
    /\ age = 0
    /\ budget = [edits |-> MaxEdits, faults |-> MaxFaults, stops |-> MaxStops]

Operator == Begin \/ Apply \/ UpdateStatus

Vendor == VendorObserves \/ VendorStarts \/ VendorStops \/ VendorJudges

Next ==
    \/ Begin \/ Apply \/ ApplyFails \/ UpdateStatus \/ UpdateStatusFails \/ Tick
    \/ \E n \in Counts : UserScales(n)
    \/ VendorObserves \/ VendorStarts \/ VendorStops \/ VendorJudges
    \/ UnitFails

Spec == Init /\ [][Next]_vars

\* The operator's worker runs, time passes, and the vendor operator does its
\* work; users and failures are never forced.
FairSpec ==
    /\ Spec
    /\ WF_vars(Operator) /\ WF_vars(Tick)
    /\ WF_vars(VendorObserves) /\ WF_vars(VendorStarts)
    /\ WF_vars(VendorStops) /\ WF_vars(VendorJudges)

(***************************************************************************)
(* Properties.                                                             *)
(***************************************************************************)
\* How old the mirrored status may get: its polling interval, and the delays of
\* the retries since the last success, which as long as they double add up to
\* the next delay less the first.
Patience ==
    (IF cr.status.ready THEN Slow ELSE Fast) + (backoff - BaseBackoff)

\* Nothing watches the target, so the status is only as recent as the last
\* poll. While calls succeed it is never older than 5 min, and while it says
\* not ready never older than 15 s, whatever mix of edits, timers and
\* self-triggered calls came before; failed calls, conflicts among them, add
\* their own delays and no more, as long as these still double
\* (reconciler.go:127-131, 203-242).
MirrorIsRecent == backoff < MaxBackoff => age <= Patience

\* Ready is never claimed for a target that counts no units, or fewer ready
\* ones than it has, by any adapter whose vendor reports by units (ExtractStatus
\* of the adapters; Grafana's rests on the vendor's stage alone).
ReadyMeansCounted ==
    kind # "Grafana" /\ cr.status.ready =>
        cr.status.total > 0 /\ cr.status.up >= cr.status.total

\* The inductive invariant behind the two. An operator that is not in a call
\* has the key in its work queue, whichever return ended the last call, and due
\* before the mirrored status is too old; a status that is about to be written
\* is as sound as one that has been (reconciler.go:203-242, ExtractStatus of
\* the adapters).
MirrorInv ==
    /\ TypeOK
    /\ MirrorIsRecent
    /\ ReadyMeansCounted
    /\ call.pc = "idle" => wake # Never
    /\ call.pc = "idle" /\ backoff < MaxBackoff => age + wake <= Patience
    /\ kind # "Grafana" /\ call.status.ready =>
         call.status.total > 0 /\ call.status.up >= call.status.total
    /\ call.pc = "apply" => call.count \in Counts

\* reconciler.go:54-55: "Ready is true once the target reports ObservedCount ==
\* ReadyCount and ObservedCount > 0", whatever the vendor; more ready than
\* observed, which the adapters let pass, is let pass here.
ReadyAsDocumented ==
    cr.status.ready => cr.status.total > 0 /\ cr.status.up >= cr.status.total

\* Once edits and failures pause, the CR reports ready, for its current
\* generation, with the counts it was asked for (reconciler.go:229-234).
ReportsReady ==
    <>[](cr.status = [ready |-> TRUE, gen |-> cr.gen, total |-> cr.count, up |-> cr.count])

\* A status write is itself an event that starts another call. The calls die
\* down each time: the operator keeps coming to rest, waiting for nothing but
\* its timer (reconciler.go:228-234, 246-252: no predicate filters the events;
\* ApplyStatus of the adapters).
ComesToRest == []<>(wake # 0 /\ call.pc = "idle")

\* reconciler.go:130-131: polling is "fast while not ready, slow once settled".
\* A call that leaves nothing but the slow timer behind has a target that runs
\* the units the CR asks for.
SlowOnceSettled ==
    [][call.pc = "mirror" /\ call'.pc = "idle" /\ wake' > Fast
        => target.up >= cr.count]_vars
=============================================================================
