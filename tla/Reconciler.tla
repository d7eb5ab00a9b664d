----------------------------- MODULE Reconciler -----------------------------
(***************************************************************************)
(* The GenericReconciler of internal/reconciler/reconciler.go: one         *)
(* Reconcile call at a time per controller, driven by a work queue, reading*)
(* custom resources (CRs) from an informer cache and reading and writing   *)
(* everything else at the API server, one API call per step.               *)
(*                                                                         *)
(* The API server, the informer, the work queue, the users and the vendor  *)
(* operators are not part of the repository; they are modelled from the    *)
(* calls the code makes and from what those calls promise.                 *)
(***************************************************************************)
EXTENDS Integers, Sequences

CONSTANTS
    Key,           \* reconcile requests: a CR kind together with its name
    ControllerOf,  \* the controller that reconciles a key
    Object,        \* identities (GVK and name) of the foreign objects
    Target,        \* Target[k]: the same-named vendor object of k
    Extra,         \* Extra[k]: the auxiliary objects of k, in apply order
    Lingering,     \* objects that may carry a finalizer of their vendor
    Replicas,      \* replica counts a user asks for
    MaxEdits, MaxFaults, MaxDrift, MaxReports  \* bounds on the environment

Range(s) == {s[i] : i \in DOMAIN s}

\* Targets are of one GVK per controller and named after the CR, hence
\* distinct; an auxiliary object is of a core GVK, hence never a target. Two
\* keys of different controllers may name the same auxiliary object.
ASSUME ObjectAssumption ==
    /\ Target \in [Key -> Object]
    /\ \A j, k \in Key : Target[j] = Target[k] => j = k
    /\ Extra \in [Key -> Seq(Object)]
    /\ \A j, k \in Key : Target[j] \notin Range(Extra[k])

ASSUME BoundAssumption ==
    /\ Replicas \subseteq Nat
    /\ {MaxEdits, MaxFaults, MaxDrift, MaxReports} \subseteq Nat

NoOne == "no one"
ASSUME OwnerAssumption == NoOne \notin Key

VARIABLES
    history,    \* history[k]: every version of CR k; resourceVersion = index
    seen,       \* seen[k]: the version the informer cache holds
    queue,      \* keys waiting in the work queue
    poll,       \* keys with a RequeueAfter timer running
    run,        \* run[k]: the Reconcile call in progress for k
    objects,    \* foreign objects at the API server
    announced,  \* announced[k]: TargetCreated events recorded for k
    budget      \* what the environment may still do

vars == <<history, seen, queue, poll, run, objects, announced, budget>>

(***************************************************************************)
(* Types.                                                                  *)
(***************************************************************************)
\* The default the CRD schemas give replicas/instances/shards.
DefaultReplicas == 1

CRSpec == [replicas : Nat, expose : BOOLEAN]

\* .status of a CR: the Ready condition and its observedGeneration.
Status == [gen : Nat, ready : BOOLEAN]

\* fin: FinalizerName present; held: some other finalizer is present (a
\* foreground deletion adds one), so the CR outlives the release of ours.
Snapshot ==
    [present : BOOLEAN, spec : CRSpec, gen : Nat, fin : BOOLEAN,
     deleting : BOOLEAN, held : BOOLEAN, status : Status]

NoSpec == [replicas |-> DefaultReplicas, expose |-> FALSE]

NoStatus == [gen |-> 0, ready |-> FALSE]

Gone ==
    [present |-> FALSE, spec |-> NoSpec, gen |-> 0, fin |-> FALSE,
     deleting |-> FALSE, held |-> FALSE, status |-> NoStatus]

\* owner: the labels app.kubernetes.io/managed-by and paas.example.com/owner,
\* which together name a key; rev: the version of the CR the manifest was
\* built from, 0 once an outsider changed what it sets.
ObjectState ==
    [phase : {"absent", "live", "terminating"}, owner : Key \cup {NoOne},
     rev : Nat, ready : BOOLEAN]

Absent == [phase |-> "absent", owner |-> NoOne, rev |-> 0, ready |-> FALSE]

NormalPc == {"getTarget", "apply", "extras"}
DeletePc == {"deleteTarget", "deleteExtras"}
Pc == {"idle", "addFinalizer"} \cup NormalPc \cup DeletePc

RunState ==
    [pc : Pc, rv : Nat, existing : BOOLEAN, ready : BOOLEAN, idx : Nat]

Idle ==
    [pc |-> "idle", rv |-> 0, existing |-> FALSE, ready |-> FALSE, idx |-> 0]

Budget == [edits : Nat, faults : Nat, drift : Nat, reports : Nat]

TypeOK ==
    /\ history \in [Key -> Seq(Snapshot)]
    /\ seen \in [Key -> Nat]
    /\ \A k \in Key : seen[k] \in 1..Len(history[k])
    /\ queue \subseteq Key
    /\ poll \subseteq Key
    /\ run \in [Key -> RunState]
    /\ objects \in [Object -> ObjectState]
    /\ announced \in [Key -> Nat]
    /\ budget \in Budget

(***************************************************************************)
(* The API server's view of a CR and the caller's.                         *)
(***************************************************************************)
Cur(k) == history[k][Len(history[k])]

Cached(k) == history[k][seen[k]]

\* The copy of the CR the Reconcile call of k works on.
Read(k) == history[k][run[k].rv]

\* The API server accepts Update and Status().Update only from a caller that
\* holds the current resourceVersion; any other caller gets Conflict, or
\* NotFound once the CR is gone.
Fresh(k) == run[k].rv = Len(history[k])

\* A write that changes nothing creates no new version.
Store(k, s) ==
    history' = [history EXCEPT ![k] = IF s = Cur(k) THEN @ ELSE Append(@, s)]

\* An object marked for deletion disappears with its last finalizer.
Settle(s) == IF s.deleting /\ ~s.fin /\ ~s.held THEN Gone ELSE s

\* The spec as an Update sends it back: replicas is declared omitempty, so a
\* zero is not sent and the CRD default takes its place.
RoundTrip(spec) ==
    [spec EXCEPT !.replicas = IF @ = 0 THEN DefaultReplicas ELSE @]

\* The version Update stores for a caller that changed only the finalizer of
\* the copy s it read.
WriteBack(s, fin) ==
    Settle([s EXCEPT !.spec = RoundTrip(@), !.fin = fin,
                     !.gen = IF RoundTrip(s.spec) = s.spec THEN @ ELSE @ + 1])

(***************************************************************************)
(* Foreign objects at the API server.                                      *)
(***************************************************************************)
\* Server-Side Apply of a manifest built from the CR k as read: creates the
\* object or takes over the fields the manifest sets, and leaves a deletion
\* in progress and the vendor's status alone.
Applied(o, k) ==
    [phase |-> IF objects[o].phase = "absent" THEN "live" ELSE objects[o].phase,
     owner |-> k, rev |-> run[k].rv, ready |-> objects[o].ready]

\* Delete: not-found is no error; an object with a finalizer only becomes
\* terminating.
DeleteObject(o) ==
    \/ /\ objects[o].phase # "terminating"
       /\ objects' = [objects EXCEPT ![o] = Absent]
    \/ /\ objects[o].phase # "absent"
       /\ o \in Lingering
       /\ objects' = [objects EXCEPT ![o].phase = "terminating"]

(***************************************************************************)
(* How a Reconcile call goes on.                                           *)
(***************************************************************************)
Continue(k, next) ==
    /\ run' = [run EXCEPT ![k] = next]
    /\ UNCHANGED <<queue, poll, budget>>

\* Slip: the error is logged and swallowed.
RequeueSwallowed(k) ==
    /\ run' = [run EXCEPT ![k] = Idle]
    /\ UNCHANGED <<queue, poll>>

\* Returning an error, or Requeue: true, puts the key back in the queue.
Requeue(k) ==
    /\ run' = [run EXCEPT ![k] = Idle]
    /\ queue' = queue \cup {k}
    /\ UNCHANGED poll

\* The call took effect but its response was lost: the code sees an error.
LoseResponse(k) ==
    /\ budget.faults > 0
    /\ budget' = [budget EXCEPT !.faults = @ - 1]
    /\ Requeue(k)

\* Slip: step 1 forgotten: the target is applied to a CR without the finalizer.
BranchUnguarded(s) ==
    CASE s.present /\ s.deleting /\ s.fin -> "deleteTarget"
      [] s.present /\ ~s.deleting         -> "getTarget"
      [] OTHER                            -> "idle"

\* Where Reconcile goes with the CR it has read.
Branch(s) ==
    CASE s.present /\ s.deleting /\ s.fin   -> "deleteTarget"
      [] s.present /\ ~s.deleting /\ ~s.fin -> "addFinalizer"
      [] s.present /\ ~s.deleting /\ s.fin  -> "getTarget"
      [] OTHER                              -> "idle"

(***************************************************************************)
(* Slips: plausible wrong versions of the definitions below, each put in   *)
(* the place of the right one to see that a property notices.              *)
(***************************************************************************)
\* The CR is read from a lagging replica instead of the informer cache.
BeginLagging(k) ==
    /\ k \in queue
    /\ run[k].pc = "idle"
    /\ queue' = queue \ {k}
    /\ \E v \in 1..seen[k] :
         run' = [run EXCEPT ![k] =
                   IF Branch(history[k][v]) = "idle" THEN Idle
                   ELSE [Idle EXCEPT !.pc = Branch(history[k][v]), !.rv = v]]
    /\ poll' = poll \ {k}
    /\ UNCHANGED <<history, seen, objects, announced, budget>>

\* The Update is sent without a resourceVersion.
AddFinalizerForced(k) ==
    /\ run[k].pc = "addFinalizer"
    /\ Store(k, WriteBack(Read(k), TRUE))
    /\ Requeue(k)
    /\ UNCHANGED <<seen, objects, announced, budget>>

\* A terminating target counts as not existing.
GetTargetLiveOnly(k) ==
    /\ run[k].pc = "getTarget"
    /\ Continue(k, [run[k] EXCEPT !.pc = "apply",
                      !.existing = objects[Target[k]].phase = "live"])
    /\ UNCHANGED <<history, seen, objects, announced>>

\* An existing target is deleted, to be created again, instead of patched.
ApplyByReplacing(k) ==
    /\ run[k].pc = "apply"
    /\ IF run[k].existing
       THEN DeleteObject(Target[k])
       ELSE objects' = [objects EXCEPT ![Target[k]] = Applied(Target[k], k)]
    /\ Requeue(k)
    /\ UNCHANGED <<history, seen, announced, budget>>

\* The loop returns the result of the first delete.
ApplyExtraReturnsEarly(k) ==
    LET o == Extra[k][run[k].idx] IN
    /\ run[k].pc = "extras"
    /\ run[k].idx <= Len(Extra[k])
    /\ IF Read(k).spec.expose
       THEN /\ objects' = [objects EXCEPT ![o] = Applied(o, k)]
            /\ Continue(k, [run[k] EXCEPT !.idx = @ + 1])
       ELSE /\ DeleteObject(o)
            /\ Continue(k, [run[k] EXCEPT !.idx = Len(Extra[k]) + 1])
    /\ UNCHANGED <<history, seen, announced>>

\* The CR is fetched again before its status is written, to avoid conflicts.
UpdateStatusRefetched(k) ==
    /\ run[k].pc = "extras"
    /\ run[k].idx > Len(Extra[k])
    /\ Cur(k).present
    /\ Store(k, [Cur(k) EXCEPT
                   !.status = [gen |-> Cur(k).gen, ready |-> run[k].ready]])
    /\ run' = [run EXCEPT ![k] = Idle]
    /\ poll' = poll \cup {k}
    /\ UNCHANGED <<seen, queue, objects, announced, budget>>

\* The last return of Reconcile carries no RequeueAfter.
UpdateStatusWithoutPoll(k) ==
    /\ run[k].pc = "extras"
    /\ run[k].idx > Len(Extra[k])
    /\ \/ /\ Fresh(k)
          /\ Store(k, [Read(k) EXCEPT
                         !.status = [gen |-> Read(k).gen, ready |-> run[k].ready]])
          /\ Continue(k, Idle)
       \/ ~Fresh(k) /\ Requeue(k) /\ UNCHANGED <<history, budget>>
    /\ UNCHANGED <<seen, objects, announced>>

\* deleteExtraResources is not called.
DeleteTargetOnly(k) ==
    /\ run[k].pc = "deleteTarget"
    /\ DeleteObject(Target[k])
    /\ Continue(k, [run[k] EXCEPT !.pc = "deleteExtras", !.idx = Len(Extra[k]) + 1])
    /\ UNCHANGED <<history, seen, announced>>

\* An error deleting one auxiliary object is skipped over.
DeleteExtraSkipsErrors(k) ==
    /\ run[k].pc = "deleteExtras"
    /\ run[k].idx <= Len(Extra[k])
    /\ \/ DeleteObject(Extra[k][run[k].idx])
       \/ UNCHANGED objects
    /\ Continue(k, [run[k] EXCEPT !.idx = @ + 1])
    /\ UNCHANGED <<history, seen, announced>>

(***************************************************************************)
(* Reconcile.                                                              *)
(***************************************************************************)
\* A worker takes k from the queue and reads the CR from the cache. Every
\* controller has one worker; the queue has one entry per key, so that a timer
\* still running goes with it.
Begin(k) ==
    /\ k \in queue
    /\ \A j \in Key : ControllerOf[j] = ControllerOf[k] => run[j].pc = "idle"
    /\ queue' = queue \ {k}
    /\ run' = [run EXCEPT ![k] =
                 IF Branch(Cached(k)) = "idle" THEN Idle
                 ELSE [Idle EXCEPT !.pc = Branch(Cached(k)), !.rv = seen[k]]]
    /\ poll' = poll \ {k}
    /\ UNCHANGED <<history, seen, objects, announced, budget>>

\* Step 1: add the finalizer and requeue, or requeue on a conflict.
AddFinalizer(k) ==
    /\ run[k].pc = "addFinalizer"
    /\ IF Fresh(k)
       THEN Store(k, WriteBack(Read(k), TRUE))
       ELSE UNCHANGED history
    /\ Requeue(k)
    /\ UNCHANGED <<seen, objects, announced, budget>>

\* Step 2: does the target exist already?
GetTarget(k) ==
    /\ run[k].pc = "getTarget"
    /\ Continue(k, [run[k] EXCEPT !.pc = "apply",
                      !.existing = objects[Target[k]].phase # "absent"])
    /\ UNCHANGED <<history, seen, objects, announced>>

\* Step 3: apply the target; the response carries the vendor's status. A
\* target that did not exist in step 2 is announced.
Apply(k) ==
    /\ run[k].pc = "apply"
    /\ objects' = [objects EXCEPT ![Target[k]] = Applied(Target[k], k)]
    /\ \/ /\ Continue(k, [run[k] EXCEPT !.pc = "extras", !.idx = 1,
                            !.ready = objects[Target[k]].ready])
          /\ announced' = IF run[k].existing THEN announced
                          ELSE [announced EXCEPT ![k] = @ + 1]
       \/ LoseResponse(k) /\ UNCHANGED announced
    /\ UNCHANGED <<history, seen>>

\* Step 3b, one turn of the loop: apply the auxiliary object, or delete it
\* when the spec does not ask for it.
ApplyExtra(k) ==
    LET o == Extra[k][run[k].idx] IN
    /\ run[k].pc = "extras"
    /\ run[k].idx <= Len(Extra[k])
    /\ IF Read(k).spec.expose
       THEN objects' = [objects EXCEPT ![o] = Applied(o, k)]
       ELSE DeleteObject(o)
    /\ \/ Continue(k, [run[k] EXCEPT !.idx = @ + 1])
       \/ LoseResponse(k)
    /\ UNCHANGED <<history, seen, announced>>

\* Step 4: mirror the status onto the CR and start the polling timer, or
\* requeue on a conflict.
UpdateStatus(k) ==
    /\ run[k].pc = "extras"
    /\ run[k].idx > Len(Extra[k])
    /\ \/ /\ Fresh(k)
          /\ Store(k, [Read(k) EXCEPT
                         !.status = [gen |-> Read(k).gen, ready |-> run[k].ready]])
          /\ \/ /\ run' = [run EXCEPT ![k] = Idle]
                /\ poll' = poll \cup {k}
                /\ UNCHANGED <<queue, budget>>
             \/ LoseResponse(k)
       \/ ~Fresh(k) /\ Requeue(k) /\ UNCHANGED <<history, budget>>
    /\ UNCHANGED <<seen, objects, announced>>

\* Deletion path: delete the target.
DeleteTarget(k) ==
    /\ run[k].pc = "deleteTarget"
    /\ DeleteObject(Target[k])
    /\ \/ Continue(k, [run[k] EXCEPT !.pc = "deleteExtras", !.idx = 1])
       \/ LoseResponse(k)
    /\ UNCHANGED <<history, seen, announced>>

\* Deletion path, one turn of the loop over the auxiliary objects.
DeleteExtra(k) ==
    /\ run[k].pc = "deleteExtras"
    /\ run[k].idx <= Len(Extra[k])
    /\ DeleteObject(Extra[k][run[k].idx])
    /\ \/ Continue(k, [run[k] EXCEPT !.idx = @ + 1])
       \/ LoseResponse(k)
    /\ UNCHANGED <<history, seen, announced>>

\* Deletion path: release the finalizer, or requeue on a conflict.
RemoveFinalizer(k) ==
    /\ run[k].pc = "deleteExtras"
    /\ run[k].idx > Len(Extra[k])
    /\ \/ /\ Fresh(k)
          /\ Store(k, WriteBack(Read(k), FALSE))
          /\ \/ Continue(k, Idle)
             \/ LoseResponse(k)
       \/ ~Fresh(k) /\ Requeue(k) /\ UNCHANGED <<history, budget>>
    /\ UNCHANGED <<seen, objects, announced>>

\* An API call of the Reconcile call fails without taking effect.
FailCall(k) ==
    /\ run[k].pc # "idle"
    /\ LoseResponse(k)
    /\ UNCHANGED <<history, seen, objects, announced>>

Work(k) ==
    \/ AddFinalizer(k) \/ GetTarget(k) \/ Apply(k) \/ ApplyExtra(k)
    \/ UpdateStatus(k) \/ DeleteTarget(k) \/ DeleteExtra(k)
    \/ RemoveFinalizer(k)

(***************************************************************************)
(* The manager: informer, timers, restart.                                 *)
(***************************************************************************)
\* The informer applies the next watch event of k and its handler, without
\* predicates, enqueues k.
DeliverEvent(k) ==
    /\ seen[k] < Len(history[k])
    /\ seen' = [seen EXCEPT ![k] = @ + 1]
    /\ queue' = queue \cup {k}
    /\ UNCHANGED <<history, poll, run, objects, announced, budget>>

TimerFires(k) ==
    /\ k \in poll
    /\ poll' = poll \ {k}
    /\ queue' = queue \cup {k}
    /\ UNCHANGED <<history, seen, run, objects, announced, budget>>

\* The process dies between any two API calls. The next one lists every CR
\* before its workers start, and enqueues the ones that exist.
Restart ==
    /\ budget.faults > 0
    /\ budget' = [budget EXCEPT !.faults = @ - 1]
    /\ seen' = [k \in Key |-> Len(history[k])]
    /\ queue' = {k \in Key : Cur(k).present}
    /\ poll' = {}
    /\ run' = [k \in Key |-> Idle]
    /\ UNCHANGED <<history, objects, announced>>

(***************************************************************************)
(* Users, vendor operators and outsiders.                                  *)
(***************************************************************************)
UserStep(k, s) ==
    /\ budget.edits > 0
    /\ budget' = [budget EXCEPT !.edits = @ - 1]
    /\ history' = [history EXCEPT ![k] = Append(@, s)]
    /\ UNCHANGED <<seen, queue, poll, run, objects, announced>>

UserCreate(k, spec) ==
    /\ ~Cur(k).present
    /\ UserStep(k, [Gone EXCEPT !.present = TRUE, !.spec = spec, !.gen = 1])

UserEdit(k, spec) ==
    /\ Cur(k).present
    /\ spec # Cur(k).spec
    /\ UserStep(k, [Cur(k) EXCEPT !.spec = spec, !.gen = @ + 1])

UserDelete(k, foreground) ==
    /\ Cur(k).present
    /\ ~Cur(k).deleting
    /\ UserStep(k, Settle([Cur(k) EXCEPT !.deleting = TRUE,
                             !.held = foreground, !.gen = @ + 1]))

\* The garbage collector ends a foreground deletion.
Unhold(k) ==
    /\ Cur(k).held
    /\ history' = [history EXCEPT ![k] =
                     Append(@, Settle([Cur(k) EXCEPT !.held = FALSE]))]
    /\ UNCHANGED <<seen, queue, poll, run, objects, announced, budget>>

\* A vendor operator reports its object ready, or no longer ready.
VendorReports(o) ==
    /\ o \in Range(Target)
    /\ budget.reports > 0
    /\ budget' = [budget EXCEPT !.reports = @ - 1]
    /\ objects[o].phase # "absent"
    /\ objects' = [objects EXCEPT ![o].ready = ~@]
    /\ UNCHANGED <<history, seen, queue, poll, run, announced>>

\* A vendor operator has cleaned up and releases its finalizer.
VendorFinishes(o) ==
    /\ objects[o].phase = "terminating"
    /\ objects' = [objects EXCEPT ![o] = Absent]
    /\ UNCHANGED <<history, seen, queue, poll, run, announced, budget>>

Drift ==
    /\ budget.drift > 0
    /\ budget' = [budget EXCEPT !.drift = @ - 1]
    /\ UNCHANGED <<history, seen, queue, poll, run, announced>>

OutsiderDeletes(o) ==
    /\ objects[o].phase = "live"
    /\ DeleteObject(o)
    /\ Drift

OutsiderEdits(o) ==
    /\ objects[o].phase # "absent"
    /\ objects[o].rev # 0
    /\ objects' = [objects EXCEPT ![o].rev = 0]
    /\ Drift

(***************************************************************************)
(* Specification.                                                          *)
(***************************************************************************)
Init ==
    /\ history = [k \in Key |-> <<Gone>>]
    /\ seen = [k \in Key |-> 1]
    /\ queue = {}
    /\ poll = {}
    /\ run = [k \in Key |-> Idle]
    /\ objects = [o \in Object |-> Absent]
    /\ announced = [k \in Key |-> 0]
    /\ budget = [edits |-> MaxEdits, faults |-> MaxFaults,
                 drift |-> MaxDrift, reports |-> MaxReports]

UserSpec == [replicas : Replicas, expose : BOOLEAN]

KeyStep(k) ==
    \/ Begin(k) \/ AddFinalizer(k) \/ GetTarget(k) \/ Apply(k)
    \/ ApplyExtra(k) \/ UpdateStatus(k) \/ DeleteTarget(k) \/ DeleteExtra(k)
    \/ RemoveFinalizer(k) \/ FailCall(k) \/ DeliverEvent(k) \/ TimerFires(k)
    \/ \E spec \in UserSpec : UserCreate(k, spec) \/ UserEdit(k, spec)
    \/ \E foreground \in BOOLEAN : UserDelete(k, foreground)
    \/ Unhold(k)

ObjectStep(o) ==
    \/ VendorReports(o) \/ VendorFinishes(o)
    \/ OutsiderDeletes(o) \/ OutsiderEdits(o)

Next ==
    \/ \E k \in Key : KeyStep(k)
    \/ \E o \in Object : ObjectStep(o)
    \/ Restart

Spec == Init /\ [][Next]_vars

\* A worker that is free takes its keys in turn (the queue is a FIFO) and a
\* Reconcile call runs on; watch events, timers, the garbage collector and a
\* vendor's cleanup are late but not lost. Users, faults, drift and vendor
\* reports are never forced.
Fairness ==
    /\ \A k \in Key : /\ SF_vars(Begin(k)) /\ WF_vars(Work(k))
                     /\ WF_vars(DeliverEvent(k)) /\ WF_vars(TimerFires(k))
                     /\ WF_vars(Unhold(k))
    /\ \A o \in Object : WF_vars(VendorFinishes(o))

FairSpec == Spec /\ Fairness

(***************************************************************************)
(* Safety.                                                                 *)
(***************************************************************************)
\* A foreign object that is not on its way out belongs to a CR that still
\* carries the cleanup finalizer: whatever the order of stale reads, applies,
\* deletes, failures and restarts, nothing is left behind for which no
\* Reconcile call will ever come (reconciler.go:158-185, 193-199).
NoOrphan ==
    \A o \in Object : objects[o].phase = "live" =>
        /\ objects[o].owner \in Key
        /\ Cur(objects[o].owner).fin

\* A CR whose status claims to have observed its current generation has no
\* target built from another spec: a status computed from a stale read never
\* vouches for an edit that has not been applied (reconciler.go:209-234).
ObservedMeansApplied ==
    \A k \in Key : LET t == objects[Target[k]] IN
        Cur(k).present /\ Cur(k).status.gen = Cur(k).gen /\ t.rev # 0 =>
            history[k][t.rev].spec = Cur(k).spec

\* A CR whose status claims to have observed a generation that exposes
\* nothing has no auxiliary object left: the status is written only after
\* the whole pruning loop went through (reconciler.go:223-234, 287-304).
ObservedMeansPruned ==
    \A k \in Key :
        Cur(k).present /\ Cur(k).status.gen = Cur(k).gen /\ ~Cur(k).spec.expose =>
            \A o \in Object : objects[o].phase = "live" /\ objects[o].owner = k =>
                o = Target[k]

\* A CR that still needs the operator is never forgotten: it is queued, being
\* reconciled, waiting for its polling timer, or an event about it is on its
\* way (reconciler.go:142-243: every return but the last of the deletion path).
NeverForgotten ==
    \A k \in Key : Cur(k).present /\ (Cur(k).fin \/ ~Cur(k).deleting) =>
        \/ k \in queue \cup poll
        \/ run[k].pc # "idle"
        \/ seen[k] < Len(history[k])

(***************************************************************************)
(* What a step may never do.                                               *)
(***************************************************************************)
\* The operator never takes a live target away from a CR that is not being
\* deleted, although it may run the deletion path on a cached copy of a CR
\* that has since been deleted and created again (reconciler.go:147-162).
NoPrematureDelete ==
    [][\A k \in Key :
        /\ objects[Target[k]].phase = "live"
        /\ objects'[Target[k]].phase # "live"
        /\ budget'.drift = budget.drift
        => Cur(k).deleting]_vars

\* Only users change the spec of a CR: adding or removing the finalizer is a
\* full-object Update from a cached copy and must not undo an edit made in
\* between, nor bring a deleted CR back (reconciler.go:178-181, 193-199).
NoLostEdit ==
    [][budget'.edits = budget.edits =>
        \A k \in Key : Cur(k)'.present =>
            Cur(k).present /\ Cur(k)'.spec = Cur(k).spec]_vars

\* A target is never rebuilt from an older version of its CR than the one it
\* was last built from (reconciler.go:203-213, one worker per key).
NoRegress ==
    [][\A k \in Key :
        /\ objects[Target[k]].rev # 0
        /\ objects'[Target[k]].rev # 0
        => objects[Target[k]].rev <= objects'[Target[k]].rev]_vars

\* A TargetCreated event is recorded only in the step that creates the target,
\* although existence was read in an earlier one (reconciler.go:201-219).
AnnouncesCreation ==
    [][\A k \in Key : announced'[k] # announced[k] =>
        /\ objects[Target[k]].phase = "absent"
        /\ objects'[Target[k]].phase = "live"]_vars

(***************************************************************************)
(* Liveness.                                                               *)
(***************************************************************************)
\* o is what CR k asks for.
UpToDate(o, k) ==
    /\ objects[o].phase = "live"
    /\ objects[o].owner = k
    /\ objects[o].rev # 0
    /\ history[k][objects[o].rev].spec = Cur(k).spec

Converged(k) ==
    IF Cur(k).present
    THEN /\ Cur(k).fin /\ ~Cur(k).deleting
         /\ UpToDate(Target[k], k)
         /\ \A e \in Range(Extra[k]) :
                IF Cur(k).spec.expose THEN UpToDate(e, k)
                ELSE objects[e].phase = "absent"
         /\ Cur(k).status =
                [gen |-> Cur(k).gen, ready |-> objects[Target[k]].ready]
    ELSE \A o \in {Target[k]} \cup Range(Extra[k]) : objects[o].phase = "absent"

\* Once users, outsiders and faults pause, every CR is either gone with all
\* its objects, or its objects match its spec and its status mirrors the
\* vendor's: polling repairs drift no watch reports (reconciler.go:127-131,
\* 238-242).
Converges == \A k \in Key : <>[]Converged(k)

(***************************************************************************)
(* The inductive invariant behind NoOrphan and the action properties.      *)
(***************************************************************************)
\* A deletion mark and a finalizer are marks on an existing CR.
WellFormed ==
    \A k \in Key : \A i \in 1..Len(history[k]) :
        history[k][i].fin \/ history[k][i].deleting => history[k][i].present

\* A Reconcile call works on a version the cache has held, and is on the path
\* that version calls for.
OnPath ==
    \A k \in Key : run[k].pc # "idle" =>
        /\ run[k].rv \in 1..seen[k]
        /\ \/ run[k].pc = Branch(Read(k))
           \/ run[k].pc \in NormalPc /\ Branch(Read(k)) = "getTarget"
           \/ run[k].pc \in DeletePc /\ Branch(Read(k)) = "deleteTarget"

\* The loops over the auxiliary objects start at the first.
Indexed ==
    \A k \in Key : run[k].pc \in {"extras", "deleteExtras"} => run[k].idx >= 1

\* As long as the cache, or an event yet to be delivered, shows a CR with our
\* finalizer and no deletion mark, the CR really has the finalizer.
CacheGuarded ==
    \A k \in Key : \A i \in seen[k]..Len(history[k]) :
        Branch(history[k][i]) = "getTarget" => Cur(k).fin

\* And as long as it shows one being deleted, the CR is not a later one that
\* has the finalizer again.
CacheDoomed ==
    \A k \in Key : \A i \in seen[k]..Len(history[k]) :
        Branch(history[k][i]) = "deleteTarget" /\ Cur(k).fin => Cur(k).deleting

\* The same two facts about the version a Reconcile call works on.
RunGuarded ==
    \A k \in Key :
        /\ run[k].pc \in NormalPc => Cur(k).fin
        /\ run[k].pc \in DeletePc /\ Cur(k).fin => Cur(k).deleting

\* A foreign object carries the label of a CR whose target or auxiliary
\* object it is.
OwnedInPlace ==
    \A o \in Object : objects[o].phase # "absent" =>
        \E k \in Key : /\ objects[o].owner = k
                       /\ o = Target[k] \/ o \in Range(Extra[k])

\* The objects the deletion path has been through when its loop is at idx.
Passed(k, idx) ==
    {Target[k]} \cup {Extra[k][i] : i \in {n \in 1..Len(Extra[k]) : n < idx}}

Owns(k, o) == objects[o].phase = "live" /\ objects[o].owner = k

\* What the deletion path has been through is gone, or someone else's.
Cleaned ==
    \A k \in Key : run[k].pc = "deleteExtras" =>
        \A o \in Passed(k, run[k].idx) : ~Owns(k, o)

\* What holds whoever owns which object.
CoreInv ==
    /\ TypeOK /\ WellFormed /\ OnPath /\ Indexed /\ CacheGuarded /\ CacheDoomed
    /\ RunGuarded /\ OwnedInPlace

IInv == CoreInv /\ Cleaned /\ NoOrphan

\* The same for the pairs <<o, k>> of an object and a key outside S.
CleanedBut(S) ==
    \A k \in Key : run[k].pc = "deleteExtras" =>
        \A o \in Passed(k, run[k].idx) : Owns(k, o) => <<o, k>> \in S

NoOrphanBut(S) ==
    \A o \in Object : objects[o].phase = "live" =>
        \/ Cur(objects[o].owner).fin
        \/ <<o, objects[o].owner>> \in S

InvBut(S) == CoreInv /\ CleanedBut(S) /\ NoOrphanBut(S)

(***************************************************************************)
(* The inductive invariant behind what a status vouches for.               *)
(***************************************************************************)
\* A target is built from a version the cache has held, never a later one than
\* the call in progress works on, and step 4 finds it as step 3 built it
\* unless others changed it since.
BuiltFromSeen ==
    \A k \in Key : LET t == objects[Target[k]] IN
        /\ t.rev <= seen[k]
        /\ run[k].pc # "idle" => t.rev <= run[k].rv
        /\ run[k].pc = "extras" => t.rev \in {0, run[k].rv}

\* A target that step 2 did not find is still not there in step 3.
StillAbsent ==
    \A k \in Key : run[k].pc = "apply" /\ ~run[k].existing =>
        objects[Target[k]].phase = "absent"

\* A status is never ahead of the CR it is on.
StatusBehind == \A k \in Key : Cur(k).status.gen <= Cur(k).gen

\* The status of k claims to have observed the current generation.
Vouches(k) == Cur(k).present /\ Cur(k).status.gen = Cur(k).gen

\* As long as it does, neither the cache, nor an event on its way, nor a call
\* in progress has another spec than the current one.
Vouched ==
    \A k \in Key : Vouches(k) =>
        /\ \A i \in seen[k]..Len(history[k]) : history[k][i].spec = Cur(k).spec
        /\ run[k].pc # "idle" => Read(k).spec = Cur(k).spec

\* What the pruning loop has been through is gone, or someone else's.
Pruned ==
    \A k \in Key : run[k].pc = "extras" /\ ~Read(k).spec.expose =>
        \A n \in 1..Len(Extra[k]) : n < run[k].idx => ~Owns(k, Extra[k][n])

ObservedInv ==
    /\ IInv /\ NeverForgotten /\ BuiltFromSeen /\ StillAbsent /\ StatusBehind
    /\ Vouched /\ Pruned /\ ObservedMeansApplied /\ ObservedMeansPruned

(***************************************************************************)
(* What the documentation promises beyond that.                            *)
(***************************************************************************)
\* README.md, "Architecture": on delete, the operator removes the vendor
\* object before releasing its own finalizer.
ReleasedMeansGone ==
    \A k \in Key : ~Cur(k).fin => objects[Target[k]].phase = "absent"

\* prometheusinstance_types.go:50: "replicas is the number of Prometheus pods
\* to run". What the user wrote stays what is asked for.
ReplicasAsAsked ==
    [][budget'.edits = budget.edits =>
        \A k \in Key : Cur(k).present /\ Cur(k)'.present =>
            Cur(k)'.spec.replicas = Cur(k).spec.replicas]_vars

\* prometheusinstance_types.go:71-75 and rabbitmqcluster_types.go:63-67: with
\* .spec.ingress set the operator creates and manages an Ingress of this CR.
\* No Reconcile call for another CR takes it away.
ManagesOwnExtras ==
    [][\A k \in Key : \A e \in Range(Extra[k]) :
        /\ objects[e].phase = "live" /\ objects[e].owner = k
        /\ objects'[e].owner # k
        /\ budget'.drift = budget.drift
        => run[k].pc # "idle"]_vars

=============================================================================
