------------------------- MODULE ObservationProofs -------------------------
(***************************************************************************)
(* What the status of a CR may be believed to say, that no CR is forgotten *)
(* and what a Reconcile call may never do, for every set of keys and       *)
(* objects, every naming and every bound on the environment. The lemmas    *)
(* look at one key at a time: a step is one for that key, a restart, or    *)
(* quiet about it.                                                         *)
(***************************************************************************)
EXTENDS ReconcilerProofs

(***************************************************************************)
(* The steps, seen from one key.                                           *)
(***************************************************************************)
\* Nothing happens to k but that its objects may be taken away or spoilt.
Quiet(k) ==
    /\ history'[k] = history[k] /\ seen'[k] = seen[k] /\ run'[k] = run[k]
    /\ announced'[k] = announced[k]
    /\ k \in queue' <=> k \in queue
    /\ k \in poll' <=> k \in poll
    /\ objects'[Target[k]].rev \in {0, objects[Target[k]].rev}
    /\ objects[Target[k]].phase = "absent" => objects'[Target[k]].phase = "absent"
    /\ \A o \in Object : Owns(k, o)' => Owns(k, o)

\* Deleting an object leaves its revision or none, and creates nothing.
LEMMA DeleteQuiet ==
    ASSUME TypeOK, NEW o \in Object, DeleteObject(o)
    PROVE  /\ objects'[o].rev \in {0, objects[o].rev}
           /\ objects[o].phase = "absent" => objects'[o].phase = "absent"
           /\ \A x \in Object : x # o => objects'[x] = objects[x]
<1>1. objects \in [Object -> ObjectState]
  BY DEF TypeOK
<1>2. objects'[o] = Absent \/ (/\ objects[o].phase # "absent"
                               /\ objects'[o] = [objects[o] EXCEPT !.phase = "terminating"])
  BY <1>1 DEF DeleteObject
<1>3. \A x \in Object : x # o => objects'[x] = objects[x]
  BY <1>1 DEF DeleteObject
<1> QED BY <1>1, <1>2, <1>3 DEF Absent, ObjectState

\* The auxiliary object a loop is at.
LEMMA LoopObject ==
    ASSUME CoreInv, NEW k \in Key, run[k].pc \in {"extras", "deleteExtras"},
           run[k].idx <= Len(Extra[k])
    PROVE  /\ run[k].idx \in 1..Len(Extra[k])
           /\ Extra[k][run[k].idx] \in Object
           /\ Extra[k][run[k].idx] \in Range(Extra[k])
           /\ \A j \in Key : Extra[k][run[k].idx] # Target[j]
<1>1. run[k].idx \in 1..Len(Extra[k])
  <2>1. Len(Extra[k]) \in Nat /\ run[k].idx \in Nat
    BY ObjectAssumption DEF CoreInv, TypeOK, RunState
  <2>2. run[k].idx >= 1
    BY DEF CoreInv, Indexed
  <2> QED BY <2>1, <2>2
<1>2. Extra[k][run[k].idx] \in Object /\ Extra[k][run[k].idx] \in Range(Extra[k])
  BY <1>1, ObjectAssumption DEF Range
<1> QED BY <1>1, <1>2, ObjectAssumption

\* A step for one key is quiet about the others.
LEMMA OtherKeyQuiet ==
    ASSUME CoreInv, NEW j \in Key, NEW k \in Key, j # k, KeyStep(j)
    PROVE  Quiet(k)
<1>0. /\ TypeOK /\ Target[k] \in Object /\ Target[j] \in Object /\ Target[j] # Target[k]
      /\ objects \in [Object -> ObjectState]
  BY ObjectAssumption DEF CoreInv, TypeOK
<1>1. ASSUME objects' = objects
      PROVE  /\ objects'[Target[k]] = objects[Target[k]]
             /\ \A o \in Object : Owns(k, o)' => Owns(k, o)
  BY <1>1 DEF Owns
<1>2. ASSUME NEW o \in Object, o # Target[k], objects' = [objects EXCEPT ![o] = Applied(o, j)]
      PROVE  /\ objects'[Target[k]] = objects[Target[k]]
             /\ \A x \in Object : Owns(k, x)' => Owns(k, x)
  BY <1>0, <1>2 DEF Owns, Applied
<1>3. ASSUME NEW o \in Object, o # Target[k], DeleteObject(o)
      PROVE  /\ objects'[Target[k]] = objects[Target[k]]
             /\ \A x \in Object : Owns(k, x)' => Owns(k, x)
  BY <1>0, <1>3, DeleteChange, DeleteQuiet
<1>4. /\ objects'[Target[k]] = objects[Target[k]]
      /\ \A x \in Object : Owns(k, x)' => Owns(k, x)
  <2>1. CASE Apply(j)
    BY <1>0, <1>2, <2>1 DEF Apply
  <2>2. CASE ApplyExtra(j)
    BY <1>2, <1>3, <2>2, LoopObject DEF ApplyExtra
  <2>3. CASE DeleteTarget(j)
    BY <1>0, <1>3, <2>3 DEF DeleteTarget
  <2>4. CASE DeleteExtra(j)
    BY <1>3, <2>4, LoopObject DEF DeleteExtra
  <2>5. CASE ~(Apply(j) \/ ApplyExtra(j) \/ DeleteTarget(j) \/ DeleteExtra(j))
    <3>1. objects' = objects
      BY <2>5 DEF KeyStep, Begin, AddFinalizer, GetTarget, UpdateStatus, RemoveFinalizer,
                  FailCall, DeliverEvent, TimerFires, UserCreate, UserEdit, UserDelete,
                  UserStep, Unhold
    <3> QED BY <1>1, <3>1
  <2> QED BY <2>1, <2>2, <2>3, <2>4, <2>5
<1>5. run'[k] = run[k] /\ (k \in queue' <=> k \in queue) /\ (k \in poll' <=> k \in poll)
  <2>1. \A r : Continue(j, r) \/ Requeue(j) \/ LoseResponse(j) =>
            run'[k] = run[k] /\ (k \in queue' <=> k \in queue) /\ (k \in poll' <=> k \in poll)
    BY <1>0 DEF TypeOK, Continue, Requeue, LoseResponse
  <2>2. CASE Begin(j)
    BY <1>0, <2>2 DEF Begin, TypeOK
  <2>3. CASE UpdateStatus(j)
    BY <1>0, <2>1, <2>3 DEF UpdateStatus, TypeOK
  <2>4. CASE AddFinalizer(j) \/ GetTarget(j) \/ Apply(j)
    BY <2>1, <2>4 DEF AddFinalizer, GetTarget, Apply
  <2>5. CASE ApplyExtra(j) \/ DeleteTarget(j) \/ DeleteExtra(j)
    BY <2>1, <2>5 DEF ApplyExtra, DeleteTarget, DeleteExtra
  <2>6. CASE RemoveFinalizer(j) \/ FailCall(j)
    BY <2>1, <2>6 DEF RemoveFinalizer, FailCall
  <2>7. CASE \/ DeliverEvent(j) \/ TimerFires(j) \/ Unhold(j)
             \/ \E spec \in UserSpec : UserCreate(j, spec) \/ UserEdit(j, spec)
             \/ \E foreground \in BOOLEAN : UserDelete(j, foreground)
    BY <2>7 DEF DeliverEvent, TimerFires, Unhold, UserCreate, UserEdit, UserDelete, UserStep
  <2> QED BY <2>2, <2>3, <2>4, <2>5, <2>6, <2>7 DEF KeyStep
<1>6. history'[k] = history[k]
  <2>1. \A s : Store(j, s) => history'[k] = history[k]
    BY <1>0 DEF Store, TypeOK
  <2> QED
    BY <1>0, <2>1 DEF KeyStep, Begin, AddFinalizer, GetTarget, Apply, ApplyExtra, UpdateStatus,
              DeleteTarget, DeleteExtra, RemoveFinalizer, FailCall, DeliverEvent, TimerFires,
              UserCreate, UserEdit, UserDelete, UserStep, Unhold, TypeOK
<1>7. seen'[k] = seen[k] /\ announced'[k] = announced[k]
  BY <1>0 DEF KeyStep, Begin, AddFinalizer, GetTarget, Apply, ApplyExtra, UpdateStatus,
              DeleteTarget, DeleteExtra, RemoveFinalizer, FailCall, DeliverEvent, TimerFires,
              UserCreate, UserEdit, UserDelete, UserStep, Unhold, TypeOK
<1> QED BY <1>4, <1>5, <1>6, <1>7, <1>0 DEF Quiet

\* So is what outsiders and vendors do to the objects.
LEMMA ObjectStepQuiet ==
    ASSUME CoreInv, NEW o \in Object, ObjectStep(o), NEW k \in Key
    PROVE  Quiet(k)
<1>0. TypeOK /\ Target[k] \in Object /\ objects \in [Object -> ObjectState]
  BY ObjectAssumption DEF CoreInv, TypeOK
<1>1. UNCHANGED <<history, seen, run, queue, poll, announced>>
  BY DEF ObjectStep, VendorReports, VendorFinishes, OutsiderDeletes, OutsiderEdits, Drift
<1>2. /\ objects'[o].rev \in {0, objects[o].rev}
      /\ objects[o].phase = "absent" => objects'[o].phase = "absent"
      /\ \A x \in Object : x # o => objects'[x] = objects[x]
      /\ Owns(k, o)' => Owns(k, o)
  <2>1. CASE VendorReports(o)
    BY <1>0, <2>1 DEF VendorReports, Owns, ObjectState
  <2>2. CASE OutsiderEdits(o)
    BY <1>0, <2>2 DEF OutsiderEdits, Owns, ObjectState
  <2>3. CASE VendorFinishes(o)
    BY <1>0, <2>3 DEF VendorFinishes, Owns, Absent
  <2>4. CASE OutsiderDeletes(o)
    BY <1>0, <2>4, DeleteChange, DeleteQuiet DEF OutsiderDeletes
  <2> QED BY <2>1, <2>2, <2>3, <2>4 DEF ObjectStep
<1>3. \A x \in Object : Owns(k, x)' => Owns(k, x)
  BY <1>2 DEF Owns
<1> QED BY <1>0, <1>1, <1>2, <1>3 DEF Quiet

\* So a step is one for k, a restart, or quiet about k.
LEMMA StepsOfKey ==
    ASSUME CoreInv, [Next]_vars, NEW k \in Key
    PROVE  KeyStep(k) \/ Restart \/ Quiet(k)
<1>1. CASE UNCHANGED vars
  BY <1>1 DEF vars, Quiet, Owns
<1> QED BY <1>1, OtherKeyQuiet, ObjectStepQuiet DEF Next
(***************************************************************************)
(* The steps for a key: its call, its objects.                             *)
(***************************************************************************)
\* How a call that is in progress after a step came to be where it is.
Advances(k) ==
    \/ run'[k] = run[k]
    \/ /\ Begin(k)
       /\ run'[k].pc = Branch(Cached(k)) /\ run'[k].rv = seen[k]
    \/ /\ GetTarget(k)
       /\ run'[k].pc = "apply" /\ run'[k].rv = run[k].rv
       /\ run'[k].existing = (objects[Target[k]].phase # "absent")
    \/ /\ Apply(k)
       /\ run'[k].pc = "extras" /\ run'[k].rv = run[k].rv /\ run'[k].idx = 1
    \/ /\ ApplyExtra(k)
       /\ run'[k].pc = "extras" /\ run'[k].rv = run[k].rv /\ run'[k].idx = run[k].idx + 1
    \/ /\ run[k].pc \in DeletePc
       /\ run'[k].pc = "deleteExtras" /\ run'[k].rv = run[k].rv

LEMMA CallStep ==
    ASSUME CoreInv, NEW k \in Key, KeyStep(k), run'[k].pc # "idle"
    PROVE  Advances(k)
<1>0. TypeOK /\ run \in [Key -> RunState] /\ run[k] \in RunState
  BY DEF CoreInv, TypeOK
<1>1. \A r : Continue(k, r) \/ LoseResponse(k) => run'[k] = r
  BY <1>0, ControlFacts
<1>2. Requeue(k) \/ LoseResponse(k) \/ Continue(k, Idle) => run'[k].pc = "idle"
  BY <1>0, RequeueEnds DEF Idle
<1>3. CASE Begin(k)
  BY <1>0, <1>3 DEF Begin, Advances, Idle
<1>4. CASE GetTarget(k)
  <2>1. run'[k] = [run[k] EXCEPT !.pc = "apply",
                     !.existing = objects[Target[k]].phase # "absent"]
    BY <1>1, <1>4 DEF GetTarget
  <2>2. /\ run'[k].pc = "apply" /\ run'[k].rv = run[k].rv
        /\ run'[k].existing = (objects[Target[k]].phase # "absent")
    BY <1>0, <2>1 DEF RunState
  <2> QED BY <1>4, <2>2 DEF Advances
<1>5. CASE Apply(k)
  <2>1. run'[k] = [run[k] EXCEPT !.pc = "extras", !.idx = 1, !.ready = objects[Target[k]].ready]
    BY <1>1, <1>5 DEF Apply
  <2>2. run'[k].pc = "extras" /\ run'[k].rv = run[k].rv /\ run'[k].idx = 1
    BY <1>0, <2>1 DEF RunState
  <2> QED BY <1>5, <2>2 DEF Advances
<1>6. CASE ApplyExtra(k)
  <2>1. run'[k] = [run[k] EXCEPT !.idx = @ + 1] /\ run[k].pc = "extras"
    BY <1>1, <1>6 DEF ApplyExtra
  <2>2. run'[k].pc = "extras" /\ run'[k].rv = run[k].rv /\ run'[k].idx = run[k].idx + 1
    BY <1>0, <2>1 DEF RunState
  <2> QED BY <1>6, <2>2 DEF Advances
<1>7. CASE DeleteTarget(k)
  <2>1. run'[k] = [run[k] EXCEPT !.pc = "deleteExtras", !.idx = 1] /\ run[k].pc = "deleteTarget"
    BY <1>1, <1>7 DEF DeleteTarget
  <2>2. run'[k].pc = "deleteExtras" /\ run'[k].rv = run[k].rv
    BY <1>0, <2>1 DEF RunState
  <2> QED BY <2>1, <2>2 DEF Advances, DeletePc
<1>8. CASE DeleteExtra(k)
  <2>1. run'[k] = [run[k] EXCEPT !.idx = @ + 1] /\ run[k].pc = "deleteExtras"
    BY <1>1, <1>8 DEF DeleteExtra
  <2>2. run'[k].pc = "deleteExtras" /\ run'[k].rv = run[k].rv
    BY <1>0, <2>1 DEF RunState
  <2> QED BY <2>1, <2>2 DEF Advances, DeletePc
<1>9. CASE UpdateStatus(k)
  <2>1. run' = [run EXCEPT ![k] = Idle]
    BY <1>9, RequeueEnds DEF UpdateStatus
  <2> QED BY <1>0, <2>1 DEF Idle
<1>10. CASE AddFinalizer(k) \/ RemoveFinalizer(k) \/ FailCall(k)
  BY <1>2, <1>10 DEF AddFinalizer, RemoveFinalizer, FailCall
<1>11. CASE \/ DeliverEvent(k) \/ TimerFires(k) \/ Unhold(k)
            \/ \E spec \in UserSpec : UserCreate(k, spec) \/ UserEdit(k, spec)
            \/ \E foreground \in BOOLEAN : UserDelete(k, foreground)
  BY <1>11 DEF DeliverEvent, TimerFires, Unhold, UserCreate, UserEdit, UserDelete, UserStep,
               Advances
<1> QED BY <1>3, <1>4, <1>5, <1>6, <1>7, <1>8, <1>9, <1>10, <1>11 DEF KeyStep

\* The cache moves forward.
LEMMA SeenStep ==
    ASSUME CoreInv, NEW k \in Key, KeyStep(k)
    PROVE  /\ seen[k] \in Nat /\ seen'[k] \in Nat /\ seen[k] <= seen'[k]
           /\ seen'[k] = seen[k] \/ DeliverEvent(k)
<1>0. seen \in [Key -> Nat] /\ seen[k] \in Nat
  BY DEF CoreInv, TypeOK
<1>1. CASE DeliverEvent(k)
  BY <1>0, <1>1 DEF DeliverEvent
<1>2. CASE ~DeliverEvent(k)
  <2>1. seen' = seen
    BY <1>2 DEF KeyStep, Begin, AddFinalizer, GetTarget, Apply, ApplyExtra, UpdateStatus,
                DeleteTarget, DeleteExtra, RemoveFinalizer, FailCall, TimerFires,
                UserCreate, UserEdit, UserDelete, UserStep, Unhold
  <2> QED BY <1>0, <2>1
<1> QED BY <1>1, <1>2

\* The target of k is built by Apply(k) alone.
LEMMA TargetStep ==
    ASSUME CoreInv, NEW k \in Key, KeyStep(k)
    PROVE  \/ /\ Apply(k)
              /\ objects'[Target[k]] = Applied(Target[k], k)
           \/ /\ ~Apply(k)
              /\ objects'[Target[k]].rev \in {0, objects[Target[k]].rev}
              /\ objects[Target[k]].phase = "absent" => objects'[Target[k]].phase = "absent"
<1>0. TypeOK /\ Target[k] \in Object /\ objects \in [Object -> ObjectState]
  BY ObjectAssumption DEF CoreInv, TypeOK
<1>1. CASE Apply(k)
  BY <1>0, <1>1 DEF Apply
<1>2. CASE ApplyExtra(k) /\ ~Apply(k)
  <2>1. /\ Extra[k][run[k].idx] # Target[k] /\ Extra[k][run[k].idx] \in Object
    BY <1>2, LoopObject DEF ApplyExtra
  <2>2. objects'[Target[k]] = objects[Target[k]]
    BY <1>0, <1>2, <2>1, DeleteQuiet DEF ApplyExtra
  <2> QED BY <1>2, <2>2
<1>3. CASE DeleteTarget(k) /\ ~Apply(k)
  BY <1>0, <1>3, DeleteQuiet DEF DeleteTarget
<1>4. CASE DeleteExtra(k) /\ ~Apply(k)
  <2>1. /\ Extra[k][run[k].idx] # Target[k] /\ Extra[k][run[k].idx] \in Object
    BY <1>4, LoopObject DEF DeleteExtra
  <2>2. objects'[Target[k]] = objects[Target[k]]
    BY <1>0, <1>4, <2>1, DeleteQuiet DEF DeleteExtra
  <2> QED BY <1>4, <2>2
<1>5. CASE ~(Apply(k) \/ ApplyExtra(k) \/ DeleteTarget(k) \/ DeleteExtra(k))
  <2>1. objects' = objects
    BY <1>5 DEF KeyStep, Begin, AddFinalizer, GetTarget, UpdateStatus, RemoveFinalizer,
                FailCall, DeliverEvent, TimerFires, UserCreate, UserEdit, UserDelete,
                UserStep, Unhold
  <2> QED BY <1>5, <2>1
<1> QED BY <1>1, <1>2, <1>3, <1>4, <1>5

\* What k comes to own, it comes to own by applying it.
LEMMA OwnsStep ==
    ASSUME CoreInv, NEW k \in Key, KeyStep(k), NEW o \in Object, Owns(k, o)', ~Owns(k, o)
    PROVE  \/ Apply(k) /\ o = Target[k]
           \/ /\ ApplyExtra(k) /\ Read(k).spec.expose
              /\ o = Extra[k][run[k].idx]
<1>0. TypeOK /\ Target[k] \in Object /\ objects \in [Object -> ObjectState]
  BY ObjectAssumption DEF CoreInv, TypeOK
<1>1. CASE Apply(k)
  <2>1. o # Target[k] => objects'[o] = objects[o]
    BY <1>0, <1>1 DEF Apply
  <2> QED BY <1>1, <2>1 DEF Owns
<1>2. CASE ApplyExtra(k)
  <2>1. Extra[k][run[k].idx] \in Object
    BY <1>2, LoopObject DEF ApplyExtra
  <2>2. CASE Read(k).spec.expose
    <3>1. o # Extra[k][run[k].idx] => objects'[o] = objects[o]
      BY <1>0, <1>2, <2>2 DEF ApplyExtra
    <3> QED BY <1>2, <2>2, <3>1 DEF Owns
  <2>3. CASE ~Read(k).spec.expose
    BY <1>0, <1>2, <2>1, <2>3, DeleteChange DEF ApplyExtra
  <2> QED BY <2>2, <2>3
<1>3. CASE DeleteTarget(k)
  BY <1>0, <1>3, DeleteChange DEF DeleteTarget
<1>4. CASE DeleteExtra(k)
  BY <1>0, <1>4, LoopObject, DeleteChange DEF DeleteExtra
<1>5. CASE ~(Apply(k) \/ ApplyExtra(k) \/ DeleteTarget(k) \/ DeleteExtra(k))
  <2>1. objects' = objects
    BY <1>5 DEF KeyStep, Begin, AddFinalizer, GetTarget, UpdateStatus, RemoveFinalizer,
                FailCall, DeliverEvent, TimerFires, UserCreate, UserEdit, UserDelete,
                UserStep, Unhold
  <2> QED BY <2>1 DEF Owns
<1> QED BY <1>1, <1>2, <1>3, <1>4, <1>5
(***************************************************************************)
(* Targets: what they are built from, and when they are announced.         *)
(***************************************************************************)
\* The types a comparison of versions needs.
LEMMA VersionTypes ==
    ASSUME CoreInv, NEW k \in Key
    PROVE  /\ objects[Target[k]].rev \in Nat /\ seen[k] \in Nat /\ run[k].rv \in Nat
           /\ run[k].idx \in Nat
           /\ seen[k] <= Len(history[k]) /\ seen[k] >= 1 /\ Len(history[k]) \in Nat
           /\ Target[k] \in Object /\ objects[Target[k]] \in ObjectState
           /\ run[k].pc # "idle" => run[k].rv \in 1..seen[k]
           /\ Applied(Target[k], k).rev = run[k].rv
<1>1. /\ Target[k] \in Object /\ objects[Target[k]] \in ObjectState /\ run[k] \in RunState
      /\ seen[k] \in 1..Len(history[k]) /\ Len(history[k]) \in Nat
  BY CurTyped, ObjectAssumption DEF CoreInv, TypeOK
<1>2. objects[Target[k]].rev \in Nat
  BY <1>1 DEF ObjectState
<1>3. run[k].rv \in Nat /\ run[k].idx \in Nat
  BY <1>1 DEF RunState
<1>4. run[k].pc # "idle" => run[k].rv \in 1..seen[k]
  BY DEF CoreInv, OnPath
<1>5. Applied(Target[k], k).rev = run[k].rv
  BY DEF Applied
<1> QED BY <1>1, <1>2, <1>3, <1>4, <1>5

\* Step 3 goes on to the auxiliary objects, or the call ends there.
LEMMA ApplyCall ==
    ASSUME CoreInv, NEW k \in Key, Apply(k)
    PROVE  /\ run[k].pc = "apply"
           /\ \/ run'[k].pc = "idle"
              \/ run'[k].pc = "extras" /\ run'[k].rv = run[k].rv /\ run'[k].idx = 1
<1> DEFINE r == [run[k] EXCEPT !.pc = "extras", !.idx = 1, !.ready = objects[Target[k]].ready]
<1>1. run[k].pc = "apply" /\ (Continue(k, r) \/ LoseResponse(k))
  BY DEF Apply
<1>2. r.pc = "extras" /\ r.rv = run[k].rv /\ r.idx = 1
  BY CurTyped DEF CoreInv, RunState
<1> HIDE DEF r
<1>3. run'[k] = r \/ run'[k].pc = "idle"
  BY <1>1, ControlFacts DEF CoreInv
<1> QED BY <1>1, <1>2, <1>3

\* Every step keeps the targets no newer than the call in progress,
LEMMA BuiltNext ==
    ASSUME CoreInv, CoreInv', BuiltFromSeen, [Next]_vars
    PROVE  BuiltFromSeen'
<1> SUFFICES ASSUME NEW k \in Key
             PROVE  /\ objects'[Target[k]].rev <= seen'[k]
                    /\ run'[k].pc # "idle" => objects'[Target[k]].rev <= run'[k].rv
                    /\ run'[k].pc = "extras" => objects'[Target[k]].rev \in {0, run'[k].rv}
  BY DEF BuiltFromSeen
<1>0. /\ objects[Target[k]].rev <= seen[k]
      /\ run[k].pc # "idle" => objects[Target[k]].rev <= run[k].rv
      /\ run[k].pc = "extras" => objects[Target[k]].rev \in {0, run[k].rv}
  BY DEF BuiltFromSeen
<1>t. /\ objects[Target[k]].rev \in Nat /\ seen[k] \in Nat /\ run[k].rv \in Nat
      /\ seen[k] <= Len(history[k]) /\ Len(history[k]) \in Nat
      /\ run[k].pc # "idle" => run[k].rv \in 1..seen[k]
      /\ Applied(Target[k], k).rev = run[k].rv
  BY VersionTypes
<1>1. CASE Quiet(k)
  BY <1>0, <1>1, <1>t DEF Quiet
<1>2. CASE Restart
  <2>1. objects' = objects /\ seen'[k] = Len(history[k]) /\ run'[k] = Idle
    BY <1>2 DEF Restart
  <2> QED BY <1>0, <1>t, <2>1 DEF Idle
<1>3. CASE KeyStep(k)
  <2>1. /\ seen[k] <= seen'[k] /\ seen'[k] \in Nat
    BY <1>3, SeenStep
  <2>2. CASE Apply(k)
    <3>1. objects'[Target[k]].rev = run[k].rv /\ run[k].pc = "apply"
      BY <1>3, <1>t, <2>2, TargetStep DEF Apply
    <3>2. run'[k].pc # "idle" => run'[k].rv = run[k].rv
      BY <2>2, ApplyCall
    <3> QED BY <1>t, <2>1, <3>1, <3>2
  <2>3. CASE ~Apply(k)
    <3>1. objects'[Target[k]].rev \in {0, objects[Target[k]].rev}
      BY <1>3, <2>3, TargetStep
    <3>2. objects'[Target[k]].rev <= seen'[k]
      BY <1>0, <1>t, <2>1, <3>1
    <3>3. CASE run'[k].pc = "idle"
      BY <3>2, <3>3
    <3>4. CASE run'[k].pc # "idle"
      <4>1. Advances(k)
        BY <1>3, <3>4, CallStep
      <4>2. CASE run'[k] = run[k]
        BY <1>0, <1>t, <3>1, <3>2, <4>2
      <4>3. CASE Begin(k) /\ run'[k].pc = Branch(Cached(k)) /\ run'[k].rv = seen[k]
        <5>1. run'[k].pc # "extras"
          BY <4>3, BranchFacts, CurTyped DEF CoreInv
        <5> QED BY <1>0, <1>t, <3>1, <3>2, <4>3, <5>1
      <4>4. CASE GetTarget(k) /\ run'[k].pc = "apply" /\ run'[k].rv = run[k].rv
        BY <1>0, <1>t, <3>1, <3>2, <4>4 DEF GetTarget
      <4>5. CASE ApplyExtra(k) /\ run'[k].rv = run[k].rv
        BY <1>0, <1>t, <3>1, <3>2, <4>5 DEF ApplyExtra
      <4>6. CASE run[k].pc \in DeletePc /\ run'[k].pc = "deleteExtras" /\ run'[k].rv = run[k].rv
        BY <1>0, <1>t, <3>1, <3>2, <4>6 DEF DeletePc
      <4> QED BY <2>3, <4>1, <4>2, <4>3, <4>4, <4>5, <4>6 DEF Advances
    <3> QED BY <3>3, <3>4
  <2> QED BY <2>2, <2>3
<1> QED BY <1>1, <1>2, <1>3, StepsOfKey

\* and leaves a target that step 2 did not find absent until step 3.
LEMMA AbsentNext ==
    ASSUME CoreInv, StillAbsent, [Next]_vars
    PROVE  StillAbsent'
<1> SUFFICES ASSUME NEW k \in Key, run'[k].pc = "apply", ~run'[k].existing
             PROVE  objects'[Target[k]].phase = "absent"
  BY DEF StillAbsent
<1>0. run[k].pc = "apply" /\ ~run[k].existing => objects[Target[k]].phase = "absent"
  BY DEF StillAbsent
<1>1. CASE Quiet(k)
  BY <1>0, <1>1 DEF Quiet
<1>2. CASE Restart
  BY <1>2 DEF Restart, Idle
<1>3. CASE KeyStep(k)
  <2>1. Advances(k)
    BY <1>3, CallStep
  <2>2. ~Apply(k)
    BY ApplyCall
  <2>3. objects[Target[k]].phase = "absent" => objects'[Target[k]].phase = "absent"
    BY <1>3, <2>2, TargetStep
  <2>4. CASE run'[k] = run[k]
    BY <1>0, <2>3, <2>4
  <2>5. CASE run'[k].existing = (objects[Target[k]].phase # "absent")
    BY <2>3, <2>5
  <2>6. Branch(Cached(k)) # "apply"
    BY BranchFacts, CurTyped DEF CoreInv
  <2> QED BY <2>1, <2>2, <2>4, <2>5, <2>6 DEF Advances
<1> QED BY <1>1, <1>2, <1>3, StepsOfKey
(***************************************************************************)
(* The writes of a CR.                                                     *)
(***************************************************************************)
\* s becomes the current version of k, and nothing else of it changes but the
\* call that wrote it.
Writes(k, s) ==
    /\ s \in Snapshot
    /\ history' = [history EXCEPT ![k] = Append(@, s)]
    /\ seen' = seen /\ objects' = objects /\ announced' = announced

\* A user asks for something: a new generation no status has observed.
Asks(k, s) ==
    /\ run' = run /\ budget'.edits # budget.edits
    /\ \/ s = Gone
       \/ s.gen = Cur(k).gen + 1 /\ s.status = Cur(k).status
       \/ s.gen = 1 /\ s.status = NoStatus
    /\ s.spec.replicas \in Replicas \cup {Cur(k).spec.replicas, DefaultReplicas}

\* The garbage collector lets go of it.
Frees(k, s) ==
    /\ run' = run
    /\ \/ s = Gone
       \/ /\ s.present = Cur(k).present /\ s.spec = Cur(k).spec
          /\ s.gen = Cur(k).gen /\ s.status = Cur(k).status

\* A call that holds the current version adds or removes the finalizer.
Marks(k, s) ==
    /\ run' = [run EXCEPT ![k] = Idle] /\ run[k].pc # "idle" /\ Fresh(k)
    /\ Cur(k).present
    /\ \/ s = Gone
       \/ /\ s.present /\ s.spec = RoundTrip(Cur(k).spec) /\ s.status = Cur(k).status
          /\ s.gen = IF RoundTrip(Cur(k).spec) = Cur(k).spec THEN Cur(k).gen
                     ELSE Cur(k).gen + 1

\* A call that holds the current version and is through its loop reports.
Reports(k, s) ==
    /\ run' = [run EXCEPT ![k] = Idle] /\ Fresh(k)
    /\ run[k].pc = "extras" /\ run[k].idx > Len(Extra[k])
    /\ s.present = Cur(k).present /\ s.spec = Cur(k).spec /\ s.gen = Cur(k).gen
    /\ s.status.gen = Cur(k).gen

\* What WriteBack makes of a CR.
LEMMA WriteBackShape ==
    ASSUME NEW s \in Snapshot, NEW fin \in BOOLEAN
    PROVE  \/ WriteBack(s, fin) = Gone
           \/ /\ WriteBack(s, fin).present = s.present
              /\ WriteBack(s, fin).spec = RoundTrip(s.spec)
              /\ WriteBack(s, fin).status = s.status
              /\ WriteBack(s, fin).gen = IF RoundTrip(s.spec) = s.spec THEN s.gen ELSE s.gen + 1
<1> DEFINE spec == RoundTrip(s.spec)
           gen == IF spec = s.spec THEN s.gen ELSE s.gen + 1
           w == [s EXCEPT !.spec = spec, !.fin = fin, !.gen = gen]
<1>1. WriteBack(s, fin) \in {Gone, w}
  BY DEF WriteBack, Settle
<1>2. w.present = s.present /\ w.spec = spec /\ w.status = s.status /\ w.gen = gen
  BY DEF Snapshot
<1> HIDE DEF w
<1> QED BY <1>1, <1>2

\* Every step for a key that changes the CR is one of the four.
LEMMA KeyWrites ==
    ASSUME CoreInv, NEW k \in Key, KeyStep(k), history'[k] # history[k]
    PROVE  \E s : /\ Writes(k, s)
                  /\ Asks(k, s) \/ Frees(k, s) \/ Marks(k, s) \/ Reports(k, s)
<1>0. TypeOK /\ Cur(k) \in Snapshot /\ run[k] \in RunState
  BY CurTyped DEF CoreInv
<1>c. Cur(k).gen \in Nat /\ Cur(k).spec \in CRSpec /\ Cur(k).gen + 1 \in Nat
  BY <1>0 DEF Snapshot
<1>1. ASSUME NEW s, Store(k, s)
      PROVE  history' = [history EXCEPT ![k] = Append(@, s)]
  BY <1>0, <1>1, StoreCases
<1>2. CASE AddFinalizer(k) \/ RemoveFinalizer(k)
  <2>1. PICK fin \in BOOLEAN : Store(k, WriteBack(Read(k), fin)) /\ Fresh(k)
    BY <1>2 DEF AddFinalizer, RemoveFinalizer
  <2>2. /\ run[k].pc \in {"addFinalizer", "deleteExtras"} /\ run' = [run EXCEPT ![k] = Idle]
        /\ seen' = seen /\ objects' = objects /\ announced' = announced
    BY <1>2, RequeueEnds DEF AddFinalizer, RemoveFinalizer
  <2>3. Read(k) = Cur(k)
    BY <2>1, <2>2, FreshFacts
  <2>4. Cur(k).present
    BY <1>0, <2>2, <2>3, PathFacts, BranchFacts DEF DeletePc
  <2> DEFINE s == WriteBack(Cur(k), fin)
  <2>5. s \in Snapshot
    BY <1>0, WriteBackTyped
  <2>6. Writes(k, s)
    BY <1>1, <2>1, <2>2, <2>3, <2>5 DEF Writes
  <2>7. Marks(k, s)
    BY <1>0, <2>1, <2>2, <2>4, WriteBackShape DEF Marks
  <2> QED BY <2>6, <2>7
<1>3. CASE UpdateStatus(k)
  <2> DEFINE st == [gen |-> Cur(k).gen, ready |-> run[k].ready]
             s == [Cur(k) EXCEPT !.status = st]
  <2>1. /\ run[k].pc = "extras" /\ run[k].idx > Len(Extra[k]) /\ Fresh(k)
        /\ seen' = seen /\ objects' = objects /\ announced' = announced
    BY <1>3 DEF UpdateStatus
  <2>2. run' = [run EXCEPT ![k] = Idle]
    BY <1>3, RequeueEnds DEF UpdateStatus
  <2>3. Read(k) = Cur(k)
    BY <2>1, FreshFacts
  <2>4. Store(k, s)
    BY <1>3, <2>3 DEF UpdateStatus
  <2>5. st \in Status /\ st.gen = Cur(k).gen
    BY <1>0, <1>c DEF Status, RunState
  <2> HIDE DEF st
  <2>6. /\ s \in Snapshot /\ s.present = Cur(k).present /\ s.spec = Cur(k).spec
        /\ s.gen = Cur(k).gen /\ s.status = st
    BY <1>0, <2>5 DEF Snapshot
  <2> HIDE DEF s
  <2>7. Writes(k, s)
    BY <1>1, <2>1, <2>4, <2>6 DEF Writes
  <2>8. Reports(k, s)
    BY <2>1, <2>2, <2>5, <2>6 DEF Reports
  <2> QED BY <2>7, <2>8
<1>4. ASSUME NEW s \in Snapshot, UserStep(k, s)
      PROVE  Writes(k, s) /\ run' = run /\ budget'.edits # budget.edits
  <2>1. budget.edits \in Nat /\ budget' = [budget EXCEPT !.edits = @ - 1]
    BY <1>0, <1>4 DEF UserStep, TypeOK, Budget
  <2>2. budget'.edits = budget.edits - 1
    BY <1>0, <2>1 DEF TypeOK, Budget
  <2> QED BY <1>4, <2>1, <2>2 DEF UserStep, Writes
<1>5. CASE \E spec \in UserSpec : UserCreate(k, spec) \/ UserEdit(k, spec)
  <2>1. PICK spec \in UserSpec : UserCreate(k, spec) \/ UserEdit(k, spec)
    BY <1>5
  <2>2. spec \in CRSpec /\ spec.replicas \in Replicas
    BY BoundAssumption DEF UserSpec, CRSpec
  <2>3. CASE UserCreate(k, spec)
    <3> DEFINE s == [Gone EXCEPT !.present = TRUE, !.spec = spec, !.gen = 1]
    <3>1. s \in Snapshot
      BY <2>2, ConstantsTyped, SnapshotUpdates
    <3>2. s.gen = 1 /\ s.status = NoStatus /\ s.spec = spec
      BY DEF Gone
    <3>3. UserStep(k, s)
      BY <2>3 DEF UserCreate
    <3> HIDE DEF s
    <3> QED BY <1>4, <2>2, <3>1, <3>2, <3>3 DEF Asks
  <2>4. CASE UserEdit(k, spec)
    <3> DEFINE s == [Cur(k) EXCEPT !.spec = spec, !.gen = @ + 1]
    <3>1. s \in Snapshot
      BY <1>0, <1>c, <2>2, SnapshotUpdates
    <3>2. s.gen = Cur(k).gen + 1 /\ s.status = Cur(k).status /\ s.spec = spec
      BY <1>0 DEF Snapshot
    <3>3. UserStep(k, s)
      BY <2>4 DEF UserEdit
    <3> HIDE DEF s
    <3> QED BY <1>4, <2>2, <3>1, <3>2, <3>3 DEF Asks
  <2> QED BY <2>1, <2>3, <2>4
<1>6. CASE \E foreground \in BOOLEAN : UserDelete(k, foreground)
  <2>1. PICK foreground \in BOOLEAN : UserDelete(k, foreground)
    BY <1>6
  <2> DEFINE gen == Cur(k).gen + 1
             d == [Cur(k) EXCEPT !.deleting = TRUE, !.held = foreground, !.gen = gen]
             s == Settle(d)
  <2>2. d \in Snapshot
    <3> HIDE DEF gen
    <3>1. gen \in Nat
      BY <1>c DEF gen
    <3> QED BY <1>0, <3>1, SnapshotUpdates
  <2>3. d.gen = gen /\ d.status = Cur(k).status /\ d.spec = Cur(k).spec
    BY <1>0 DEF Snapshot
  <2>4. UserStep(k, s)
    BY <2>1 DEF UserDelete
  <2> HIDE DEF d
  <2>5. s \in Snapshot /\ s \in {Gone, d}
    BY <2>2, SettleTyped DEF Settle
  <2>6. Gone.spec.replicas = DefaultReplicas
    BY DEF Gone, NoSpec
  <2> HIDE DEF s
  <2>7. Asks(k, s)
    BY <1>4, <2>3, <2>4, <2>5, <2>6 DEF Asks
  <2> QED BY <1>4, <2>4, <2>5, <2>7
<1>7. CASE Unhold(k)
  <2> DEFINE d == [Cur(k) EXCEPT !.held = FALSE]
             s == Settle(d)
  <2>1. d \in Snapshot
    BY <1>0 DEF Snapshot
  <2>2. /\ d.present = Cur(k).present /\ d.spec = Cur(k).spec
        /\ d.gen = Cur(k).gen /\ d.status = Cur(k).status
    BY <1>0 DEF Snapshot
  <2>3. /\ history' = [history EXCEPT ![k] = Append(@, s)]
        /\ seen' = seen /\ objects' = objects /\ announced' = announced /\ run' = run
    BY <1>7 DEF Unhold
  <2> HIDE DEF d
  <2>4. s \in Snapshot /\ s \in {Gone, d}
    BY <2>1, SettleTyped DEF Settle
  <2> QED BY <2>2, <2>3, <2>4 DEF Writes, Frees
<1>8. CASE \/ Begin(k) \/ GetTarget(k) \/ Apply(k) \/ ApplyExtra(k) \/ DeleteTarget(k)
           \/ DeleteExtra(k) \/ FailCall(k) \/ DeliverEvent(k) \/ TimerFires(k)
  BY <1>8 DEF Begin, GetTarget, Apply, ApplyExtra, DeleteTarget, DeleteExtra, FailCall,
              DeliverEvent, TimerFires
<1> QED BY <1>2, <1>3, <1>5, <1>6, <1>7, <1>8 DEF KeyStep
(***************************************************************************)
(* What a status vouches for.                                              *)
(***************************************************************************)
\* The three facts of one key.
Behind(k) == Cur(k).status.gen <= Cur(k).gen

Believed(k) ==
    Vouches(k) =>
        /\ \A i \in seen[k]..Len(history[k]) : history[k][i].spec = Cur(k).spec
        /\ run[k].pc # "idle" => history[k][run[k].rv].spec = Cur(k).spec
        /\ objects[Target[k]].rev # 0 =>
             history[k][objects[Target[k]].rev].spec = Cur(k).spec

\* Together they are what the invariant says of all keys.
LEMMA ByKey ==
    /\ StatusBehind <=> \A k \in Key : Behind(k)
    /\ Vouched /\ ObservedMeansApplied <=> \A k \in Key : Believed(k)
BY DEF StatusBehind, Behind, Believed, Vouched, ObservedMeansApplied, Vouches, Read

\* A step that writes no CR and lets the call of k go on.
LEMMA BelievedKept ==
    ASSUME CoreInv, CoreInv', NEW k \in Key, history'[k] = history[k], Believed(k),
           seen[k] <= seen'[k],
           run'[k].pc # "idle" => \/ run'[k].rv = seen[k]
                                  \/ run[k].pc # "idle" /\ run'[k].rv = run[k].rv,
           \/ objects'[Target[k]].rev \in {0, objects[Target[k]].rev}
           \/ run[k].pc # "idle" /\ objects'[Target[k]].rev = run[k].rv
    PROVE  Believed(k)'
<1>1. Cur(k)' = Cur(k) /\ (Vouches(k)' <=> Vouches(k))
  BY DEF Cur, Vouches
<1>2. /\ seen[k] \in Nat /\ seen'[k] \in Nat /\ Len(history[k]) \in Nat
      /\ seen[k] <= Len(history[k])
  BY VersionTypes, CurTyped DEF CoreInv, TypeOK
<1> SUFFICES ASSUME Vouches(k)
             PROVE  /\ \A i \in seen'[k]..Len(history[k]) : history[k][i].spec = Cur(k).spec
                    /\ run'[k].pc # "idle" => history[k][run'[k].rv].spec = Cur(k).spec
                    /\ objects'[Target[k]].rev # 0 =>
                         history[k][objects'[Target[k]].rev].spec = Cur(k).spec
  BY <1>1 DEF Believed
<1>3. /\ \A i \in seen[k]..Len(history[k]) : history[k][i].spec = Cur(k).spec
      /\ run[k].pc # "idle" => history[k][run[k].rv].spec = Cur(k).spec
      /\ objects[Target[k]].rev # 0 =>
           history[k][objects[Target[k]].rev].spec = Cur(k).spec
  BY DEF Believed
<1>4. \A i \in seen'[k]..Len(history[k]) : i \in seen[k]..Len(history[k])
  BY <1>2
<1>5. seen[k] \in seen[k]..Len(history[k])
  BY <1>2
<1> QED BY <1>3, <1>4, <1>5

\* A step for k keeps them,
LEMMA BelievedKeyStep ==
    ASSUME CoreInv, CoreInv', BuiltFromSeen, NEW k \in Key, KeyStep(k), Behind(k), Believed(k)
    PROVE  Behind(k)' /\ Believed(k)'
<1>0. /\ TypeOK /\ Cur(k) \in Snapshot /\ Cur(k).gen \in Nat /\ Cur(k).status.gen \in Nat
      /\ Cur(k) = history[k][Len(history[k])]
  BY CurTyped DEF CoreInv, Snapshot, Status, Cur
<1>v. /\ objects[Target[k]].rev \in Nat /\ seen[k] \in Nat /\ run[k].rv \in Nat
      /\ seen[k] <= Len(history[k]) /\ seen[k] >= 1 /\ Len(history[k]) \in Nat
      /\ run[k].pc # "idle" => run[k].rv \in 1..seen[k]
      /\ Applied(Target[k], k).rev = run[k].rv
  BY VersionTypes
<1>b. /\ objects[Target[k]].rev <= seen[k]
      /\ run[k].pc = "extras" => objects[Target[k]].rev \in {0, run[k].rv}
  BY DEF BuiltFromSeen
<1>1. CASE history'[k] = history[k]
  <2>1. Behind(k)'
    BY <1>1 DEF Behind, Cur
  <2>2. seen[k] <= seen'[k]
    BY SeenStep
  <2>3. run'[k].pc # "idle" => \/ run'[k].rv = seen[k]
                               \/ run[k].pc # "idle" /\ run'[k].rv = run[k].rv
    BY CallStep DEF Advances, GetTarget, Apply, ApplyExtra, DeletePc
  <2>4. \/ objects'[Target[k]].rev \in {0, objects[Target[k]].rev}
        \/ run[k].pc # "idle" /\ objects'[Target[k]].rev = run[k].rv
    BY <1>v, TargetStep DEF Apply
  <2> QED BY <1>1, <2>1, <2>2, <2>3, <2>4, BelievedKept
<1>2. CASE history'[k] # history[k]
  <2>1. PICK s : /\ Writes(k, s)
                 /\ Asks(k, s) \/ Frees(k, s) \/ Marks(k, s) \/ Reports(k, s)
    BY <1>2, KeyWrites
  <2>2. /\ s \in Snapshot /\ Cur(k)' = s /\ Len(history'[k]) = Len(history[k]) + 1
        /\ history'[k][Len(history[k]) + 1] = s
        /\ \A i \in 1..Len(history[k]) : history'[k][i] = history[k][i]
        /\ seen' = seen /\ objects' = objects
    BY <1>0, <2>1, AppendFacts DEF Writes
  <2>3. Vouches(k)' <=> s.present /\ s.status.gen = s.gen
    BY <2>2 DEF Vouches
  <2>4. Behind(k)' <=> s.status.gen <= s.gen
    BY <2>2 DEF Behind
  <2>5. ~Gone.present /\ Gone.gen = 0 /\ Gone.status.gen = 0 /\ NoStatus.gen = 0
    BY DEF Gone, NoStatus
  <2>6. ASSUME s.status.gen <= s.gen, ~(s.present /\ s.status.gen = s.gen)
        PROVE  Behind(k)' /\ Believed(k)'
    BY <2>3, <2>4, <2>6 DEF Believed
  <2>7. CASE s = Gone
    BY <2>5, <2>6, <2>7
  <2>8. CASE Asks(k, s) /\ s # Gone
    <3>1. s.status.gen < s.gen /\ s.status.gen \in Nat /\ s.gen \in Nat
      BY <1>0, <2>5, <2>8 DEF Asks, Behind
    <3> QED BY <2>6, <3>1
  <2>9. ASSUME s.spec = Cur(k).spec, s.status.gen <= s.gen,
               run' = run \/ run' = [run EXCEPT ![k] = Idle],
               \A i \in seen[k]..Len(history[k]) : history[k][i].spec = Cur(k).spec,
               run' = run /\ run[k].pc # "idle" => history[k][run[k].rv].spec = Cur(k).spec,
               objects[Target[k]].rev # 0 =>
                   history[k][objects[Target[k]].rev].spec = Cur(k).spec
        PROVE  Behind(k)' /\ Believed(k)'
    <3>1. \A i \in seen'[k]..Len(history'[k]) : history'[k][i].spec = s.spec
      <4> SUFFICES ASSUME NEW i \in seen[k]..(Len(history[k]) + 1)
                   PROVE  history'[k][i].spec = s.spec
        BY <2>2
      <4>1. CASE i = Len(history[k]) + 1
        BY <2>2, <4>1
      <4>2. CASE i # Len(history[k]) + 1
        <5>1. i \in seen[k]..Len(history[k]) /\ i \in 1..Len(history[k])
          BY <1>v, <4>2
        <5> QED BY <2>2, <2>9, <5>1
      <4> QED BY <4>1, <4>2
    <3>2. run'[k].pc # "idle" => history'[k][run'[k].rv].spec = s.spec
      <4>1. run'[k].pc # "idle" => run'[k] = run[k] /\ run' = run
        BY <1>0, <2>9 DEF TypeOK, Idle
      <4>2. run[k].pc # "idle" => run[k].rv \in 1..Len(history[k])
        BY <1>v
      <4> QED BY <2>2, <2>9, <4>1, <4>2
    <3>3. objects'[Target[k]].rev # 0 => history'[k][objects'[Target[k]].rev].spec = s.spec
      <4>1. objects[Target[k]].rev # 0 => objects[Target[k]].rev \in 1..Len(history[k])
        BY <1>v, <1>b
      <4> QED BY <2>2, <2>9, <4>1
    <3> QED BY <2>2, <2>4, <2>9, <3>1, <3>2, <3>3 DEF Believed
  <2>10. ASSUME s.spec = Cur(k).spec, s.gen = Cur(k).gen, s.status = Cur(k).status,
                s.present = Cur(k).present, run' = run \/ run' = [run EXCEPT ![k] = Idle]
         PROVE  Behind(k)' /\ Believed(k)'
    <3>1. s.status.gen <= s.gen
      BY <2>10 DEF Behind
    <3>2. CASE Vouches(k)
      BY <2>9, <2>10, <3>1, <3>2 DEF Believed
    <3>3. CASE ~Vouches(k)
      BY <2>6, <2>10, <3>1, <3>3 DEF Vouches
    <3> QED BY <3>2, <3>3
  <2>11. CASE Frees(k, s) /\ s # Gone
    BY <2>10, <2>11 DEF Frees
  <2>12. CASE Marks(k, s) /\ s # Gone
    <3>1. CASE RoundTrip(Cur(k).spec) = Cur(k).spec
      BY <2>10, <2>12, <3>1 DEF Marks
    <3>2. CASE RoundTrip(Cur(k).spec) # Cur(k).spec
      <4>1. s.gen = Cur(k).gen + 1 /\ s.status = Cur(k).status
        BY <2>12, <3>2 DEF Marks
      <4>2. s.status.gen < s.gen /\ s.status.gen \in Nat /\ s.gen \in Nat
        BY <1>0, <4>1 DEF Behind
      <4> QED BY <2>6, <4>2
    <3> QED BY <3>1, <3>2
  <2>13. CASE Reports(k, s) /\ s # Gone
    <3>1. /\ Fresh(k) /\ run[k].pc = "extras" /\ run' = [run EXCEPT ![k] = Idle]
          /\ s.spec = Cur(k).spec /\ s.gen = Cur(k).gen /\ s.status.gen = Cur(k).gen
      BY <2>13 DEF Reports
    <3>2. seen[k] = Len(history[k]) /\ run[k].rv = Len(history[k])
      BY <3>1, FreshFacts DEF Fresh
    <3>3. \A i \in seen[k]..Len(history[k]) : history[k][i].spec = Cur(k).spec
      <4> SUFFICES ASSUME NEW i \in seen[k]..Len(history[k]) PROVE i = Len(history[k])
        BY <1>0
      <4> QED BY <1>v, <3>2
    <3>4. objects[Target[k]].rev # 0 => objects[Target[k]].rev = Len(history[k])
      BY <1>b, <3>1, <3>2
    <3>5. history[k][run[k].rv].spec = Cur(k).spec
      BY <1>0, <3>2
    <3>6. s.status.gen <= s.gen
      BY <1>0, <3>1
    <3> QED BY <1>0, <2>9, <3>1, <3>3, <3>4, <3>5, <3>6
  <2> QED BY <2>1, <2>7, <2>8, <2>11, <2>12, <2>13
<1> QED BY <1>1, <1>2

\* and so does every other step.
LEMMA BelievedNext ==
    ASSUME CoreInv, CoreInv', BuiltFromSeen, StatusBehind, Vouched, ObservedMeansApplied,
           [Next]_vars
    PROVE  StatusBehind' /\ Vouched' /\ ObservedMeansApplied'
<1> SUFFICES ASSUME NEW k \in Key PROVE Behind(k)' /\ Believed(k)'
  BY DEF StatusBehind, Behind, Believed, Vouched, ObservedMeansApplied, Vouches, Read
<1>0. Behind(k) /\ Believed(k)
  BY ByKey
<1>v. /\ seen[k] \in Nat /\ seen[k] <= Len(history[k]) /\ Len(history[k]) \in Nat
  BY VersionTypes
<1>1. CASE Quiet(k)
  <2>1. Behind(k)'
    BY <1>0, <1>1 DEF Quiet, Behind, Cur
  <2> QED BY <1>0, <1>1, <1>v, <2>1, BelievedKept DEF Quiet
<1>2. CASE Restart
  <2>1. /\ history'[k] = history[k] /\ objects' = objects /\ seen'[k] = Len(history[k])
        /\ run'[k].pc = "idle"
    BY <1>2 DEF Restart, Idle
  <2>2. Behind(k)'
    BY <1>0, <2>1 DEF Behind, Cur
  <2> QED BY <1>0, <1>v, <2>1, <2>2, BelievedKept
<1>3. CASE KeyStep(k)
  BY <1>0, <1>3, BelievedKeyStep
<1> QED BY <1>1, <1>2, <1>3, StepsOfKey
(***************************************************************************)
(* Pruning.                                                                *)
(***************************************************************************)
\* A version, once stored, stays what it is.
LEMMA ReadKept ==
    ASSUME CoreInv, NEW k \in Key, KeyStep(k), NEW i \in 1..Len(history[k])
    PROVE  history'[k][i] = history[k][i]
<1>1. CASE history'[k] # history[k]
  BY <1>1, KeyWrites, AppendFacts DEF Writes, CoreInv
<1> QED BY <1>1

\* A write after which the status vouches for the CR leaves its spec alone;
\* the status did so before, or is just being written.
LEMMA NewlyVouched ==
    ASSUME CoreInv, NEW k \in Key, KeyStep(k), Behind(k), history'[k] # history[k], Vouches(k)'
    PROVE  /\ Cur(k)'.spec = Cur(k).spec /\ objects' = objects
           /\ Vouches(k) \/ \E s : Reports(k, s)
<1>0. TypeOK /\ Cur(k) \in Snapshot /\ Cur(k).gen \in Nat /\ Cur(k).status.gen \in Nat
  BY CurTyped DEF CoreInv, Snapshot, Status
<1>1. PICK s : /\ Writes(k, s)
               /\ Asks(k, s) \/ Frees(k, s) \/ Marks(k, s) \/ Reports(k, s)
  BY KeyWrites
<1>2. Cur(k)' = s /\ objects' = objects
  BY <1>0, <1>1, AppendFacts DEF Writes
<1>3. s.present /\ s.status.gen = s.gen /\ s # Gone
  BY <1>2 DEF Vouches, Gone
<1>4. ~Asks(k, s)
  BY <1>0, <1>3 DEF Asks, Behind, NoStatus
<1>5. CASE Frees(k, s)
  BY <1>2, <1>3, <1>5 DEF Frees, Vouches
<1>6. CASE Marks(k, s)
  <2>1. RoundTrip(Cur(k).spec) = Cur(k).spec
    BY <1>0, <1>3, <1>6 DEF Marks, Behind
  <2> QED BY <1>2, <1>3, <1>6, <2>1 DEF Marks, Vouches
<1>7. CASE Reports(k, s)
  BY <1>2, <1>7 DEF Reports
<1> QED BY <1>1, <1>4, <1>5, <1>6, <1>7

\* The loop keeps what it has pruned pruned.
LEMMA PrunedNext ==
    ASSUME CoreInv, Pruned, [Next]_vars
    PROVE  Pruned'
<1> SUFFICES ASSUME NEW k \in Key, run'[k].pc = "extras", ~history'[k][run'[k].rv].spec.expose,
                    NEW n \in 1..Len(Extra[k]), n < run'[k].idx
             PROVE  ~Owns(k, Extra[k][n])'
  BY DEF Pruned, Read
<1>0. /\ Extra[k][n] \in Object /\ Len(Extra[k]) \in Nat /\ n \in Nat
      /\ \A j \in Key : Extra[k][n] # Target[j]
  BY ObjectAssumption DEF Range
<1>1. run[k].pc = "extras" /\ ~history[k][run[k].rv].spec.expose /\ n < run[k].idx
        => ~Owns(k, Extra[k][n])
  BY DEF Pruned, Read
<1>2. CASE Quiet(k)
  BY <1>0, <1>1, <1>2 DEF Quiet
<1>3. CASE Restart
  BY <1>3 DEF Restart, Idle
<1>4. CASE KeyStep(k)
  <2>1. Advances(k)
    BY <1>4, CallStep
  <2>2. ASSUME run[k].pc # "idle"
        PROVE  history'[k][run[k].rv] = history[k][run[k].rv]
    <3>1. run[k].rv \in 1..Len(history[k])
      BY <2>2, VersionTypes
    <3> QED BY <1>4, <3>1, ReadKept
  <2>3. ASSUME ~Read(k).spec.expose, ~Owns(k, Extra[k][n])
        PROVE  ~Owns(k, Extra[k][n])'
    BY <1>0, <1>4, <2>3, OwnsStep
  <2>4. CASE run'[k] = run[k]
    BY <1>1, <2>2, <2>3, <2>4 DEF Read
  <2>5. CASE ApplyExtra(k) /\ run'[k].rv = run[k].rv /\ run'[k].idx = run[k].idx + 1
    <3>1. run[k].pc = "extras" /\ run[k].idx <= Len(Extra[k]) /\ run[k].idx \in Nat
      BY <2>5, VersionTypes DEF ApplyExtra
    <3>2. ~Read(k).spec.expose
      BY <2>2, <2>5, <3>1 DEF Read
    <3>3. CASE n < run[k].idx
      BY <1>1, <2>3, <3>1, <3>2, <3>3 DEF Read
    <3>4. CASE n = run[k].idx
      <4>1. DeleteObject(Extra[k][n])
        BY <2>5, <3>2, <3>4 DEF ApplyExtra
      <4> QED BY <1>0, <4>1, DeleteChange DEF Owns, CoreInv
    <3> QED BY <1>0, <2>5, <3>1, <3>3, <3>4
  <2>6. CASE run'[k].idx = 1
    BY <1>0, <2>6
  <2>7. Branch(Cached(k)) # "extras"
    BY BranchFacts, CurTyped DEF CoreInv
  <2> QED BY <2>1, <2>4, <2>5, <2>6, <2>7 DEF Advances
<1> QED BY <1>2, <1>3, <1>4, StepsOfKey

\* When the loop is through, a CR that exposes nothing owns its target only.
LEMMA PrunedAll ==
    ASSUME CoreInv, Pruned, NEW k \in Key, run[k].pc = "extras", run[k].idx > Len(Extra[k]),
           ~Read(k).spec.expose, NEW o \in Object, Owns(k, o)
    PROVE  o = Target[k]
<1>1. PICK j \in Key : objects[o].owner = j /\ (o = Target[j] \/ o \in Range(Extra[j]))
  BY DEF CoreInv, OwnedInPlace, Owns
<1>2. j = k
  BY <1>1 DEF Owns
<1>3. ASSUME o \in Range(Extra[k]) PROVE FALSE
  <2>1. PICK n \in 1..Len(Extra[k]) : o = Extra[k][n]
    BY <1>3, ObjectAssumption DEF Range
  <2>2. n < run[k].idx
    BY <2>1, VersionTypes, ObjectAssumption
  <2> QED BY <2>1, <2>2 DEF Pruned
<1> QED BY <1>1, <1>2, <1>3

\* What the status vouches for stays pruned.
LEMMA ObservedPrunedNext ==
    ASSUME CoreInv, StatusBehind, Vouched, ObservedMeansApplied, Pruned, ObservedMeansPruned,
           [Next]_vars
    PROVE  ObservedMeansPruned'
<1> SUFFICES ASSUME NEW k \in Key, Vouches(k)', ~Cur(k)'.spec.expose,
                    NEW o \in Object, Owns(k, o)'
             PROVE  o = Target[k]
  BY DEF ObservedMeansPruned, Vouches, Owns
<1>0. Vouches(k) /\ ~Cur(k).spec.expose /\ Owns(k, o) => o = Target[k]
  BY DEF ObservedMeansPruned, Vouches, Owns
<1>1. CASE Quiet(k)
  BY <1>0, <1>1 DEF Quiet, Vouches, Cur
<1>2. CASE Restart
  BY <1>0, <1>2 DEF Restart, Vouches, Cur, Owns
<1>3. CASE KeyStep(k) /\ history'[k] = history[k]
  <2>1. Vouches(k) /\ ~Cur(k).spec.expose
    BY <1>3 DEF Vouches, Cur
  <2>2. CASE Owns(k, o)
    BY <1>0, <2>1, <2>2
  <2>3. CASE ~Owns(k, o)
    <3>1. ASSUME ApplyExtra(k) PROVE ~Read(k).spec.expose
      <4>1. run[k].pc # "idle"
        BY <3>1 DEF ApplyExtra
      <4> QED BY <2>1, <4>1 DEF Vouched
    <3> QED BY <1>3, <2>3, <3>1, OwnsStep
  <2> QED BY <2>2, <2>3
<1>4. CASE KeyStep(k) /\ history'[k] # history[k]
  <2>1. /\ Cur(k)'.spec = Cur(k).spec /\ objects' = objects
        /\ Vouches(k) \/ \E s : Reports(k, s)
    BY <1>4, NewlyVouched, ByKey
  <2>2. Owns(k, o) /\ ~Cur(k).spec.expose
    BY <2>1 DEF Owns
  <2>3. ASSUME NEW s, Reports(k, s) PROVE o = Target[k]
    <3>1. Fresh(k) /\ run[k].pc = "extras" /\ run[k].idx > Len(Extra[k])
      BY <2>3 DEF Reports
    <3>2. Read(k) = Cur(k)
      BY <3>1, FreshFacts
    <3> QED BY <2>2, <3>1, <3>2, PrunedAll
  <2> QED BY <1>0, <2>1, <2>2, <2>3
<1> QED BY <1>1, <1>2, <1>3, <1>4, StepsOfKey

(***************************************************************************)
(* No CR is forgotten.                                                     *)
(***************************************************************************)
\* k needs the operator, and someone or something will see to it.
Needs(k) == Cur(k).present /\ (Cur(k).fin \/ ~Cur(k).deleting)

Remembered(k) ==
    \/ k \in queue \cup poll
    \/ run[k].pc # "idle"
    \/ seen[k] < Len(history[k])

\* However a call goes on or ends, unless it ends for good, k is remembered.
LEMMA ForgottenKeyStep ==
    ASSUME CoreInv, NEW k \in Key, KeyStep(k), Needs(k)'
    PROVE  Remembered(k)'
<1>0. /\ TypeOK /\ run \in [Key -> RunState] /\ run[k] \in RunState
      /\ Cur(k) \in Snapshot /\ Cached(k) \in Snapshot
      /\ seen[k] \in 1..Len(history[k]) /\ Len(history[k]) \in Nat
  BY CurTyped DEF CoreInv, TypeOK
<1>1. CASE history'[k] # history[k]
  <2>1. PICK s : Writes(k, s)
    BY <1>1, KeyWrites
  <2>2. Len(history'[k]) = Len(history[k]) + 1 /\ seen' = seen
    BY <1>0, <2>1, AppendFacts DEF Writes
  <2> QED BY <1>0, <2>2 DEF Remembered
<1>2. CASE history'[k] = history[k]
  <2>1. Needs(k)
    BY <1>2 DEF Needs, Cur
  <2>2. ASSUME Requeue(k) \/ LoseResponse(k) PROVE Remembered(k)'
    BY <2>2 DEF Requeue, LoseResponse, Remembered
  <2>3. ASSUME NEW r, Continue(k, r), r.pc # "idle" PROVE Remembered(k)'
    BY <1>0, <2>3 DEF Continue, Remembered
  <2>4. CASE Begin(k)
    <3>1. CASE seen[k] < Len(history[k])
      BY <1>2, <2>4, <3>1 DEF Begin, Remembered
    <3>2. CASE seen[k] = Len(history[k])
      <4>1. Cached(k) = Cur(k)
        BY <3>2 DEF Cached, Cur
      <4>2. Branch(Cached(k)) # "idle"
        BY <1>0, <2>1, <4>1, BranchFacts DEF Needs
      <4>3. run'[k].pc = Branch(Cached(k))
        BY <1>0, <2>4, <4>2 DEF Begin, Idle
      <4> QED BY <4>2, <4>3 DEF Remembered
    <3> QED BY <1>0, <3>1, <3>2
  <2>5. CASE AddFinalizer(k) \/ FailCall(k)
    BY <2>2, <2>5 DEF AddFinalizer, FailCall
  <2>6. CASE GetTarget(k)
    <3>1. [run[k] EXCEPT !.pc = "apply",
             !.existing = objects[Target[k]].phase # "absent"].pc = "apply"
      BY <1>0 DEF RunState
    <3> QED BY <2>3, <2>6, <3>1 DEF GetTarget
  <2>7. CASE Apply(k)
    <3>1. [run[k] EXCEPT !.pc = "extras", !.idx = 1, !.ready = objects[Target[k]].ready].pc = "extras"
      BY <1>0 DEF RunState
    <3> QED BY <2>2, <2>3, <2>7, <3>1 DEF Apply
  <2>8. CASE ApplyExtra(k) \/ DeleteExtra(k)
    <3>1. run[k].pc \in {"extras", "deleteExtras"}
      BY <2>8 DEF ApplyExtra, DeleteExtra
    <3>2. [run[k] EXCEPT !.idx = @ + 1].pc = run[k].pc
      BY <1>0 DEF RunState
    <3> QED BY <2>2, <2>3, <2>8, <3>1, <3>2 DEF ApplyExtra, DeleteExtra
  <2>9. CASE DeleteTarget(k)
    <3>1. [run[k] EXCEPT !.pc = "deleteExtras", !.idx = 1].pc = "deleteExtras"
      BY <1>0 DEF RunState
    <3> QED BY <2>2, <2>3, <2>9, <3>1 DEF DeleteTarget
  <2>10. CASE UpdateStatus(k)
    <3>1. k \in poll' \/ Requeue(k) \/ LoseResponse(k)
      BY <2>10 DEF UpdateStatus
    <3> QED BY <2>2, <3>1 DEF Remembered
  <2>11. CASE RemoveFinalizer(k)
    <3>1. CASE Requeue(k) \/ LoseResponse(k)
      BY <2>2, <3>1
    <3>2. CASE ~(Requeue(k) \/ LoseResponse(k))
      <4>1. run[k].pc = "deleteExtras" /\ Fresh(k) /\ Store(k, WriteBack(Read(k), FALSE))
        BY <2>11, <3>2 DEF RemoveFinalizer
      <4>2. Read(k) = Cur(k)
        BY <4>1, FreshFacts
      <4>3. Cur(k).fin
        BY <1>0, <4>1, <4>2, PathFacts, BranchFacts DEF DeletePc
      <4>4. WriteBack(Cur(k), FALSE).fin = FALSE
        BY <1>0, WriteBackFacts
      <4>5. history' = [history EXCEPT ![k] = Append(@, WriteBack(Cur(k), FALSE))]
        BY <1>0, <4>1, <4>2, <4>3, <4>4, StoreCases
      <4>6. WriteBack(Cur(k), FALSE) \in Snapshot
        BY <1>0, WriteBackTyped
      <4>7. Len(history'[k]) = Len(history[k]) + 1
        BY <1>0, <4>5, <4>6, AppendFacts
      <4> QED BY <1>0, <1>2, <4>7
    <3> QED BY <3>1, <3>2
  <2>12. CASE DeliverEvent(k) \/ TimerFires(k)
    BY <2>12 DEF DeliverEvent, TimerFires, Remembered
  <2>13. CASE \/ Unhold(k)
              \/ \E spec \in UserSpec : UserCreate(k, spec) \/ UserEdit(k, spec)
              \/ \E foreground \in BOOLEAN : UserDelete(k, foreground)
    <3>1. \E s : history' = [history EXCEPT ![k] = Append(@, s)]
      BY <2>13 DEF Unhold, UserCreate, UserEdit, UserDelete, UserStep
    <3>2. PICK s : history'[k] = Append(history[k], s)
      BY <1>0, <3>1 DEF TypeOK
    <3>3. Len(Append(history[k], s)) = Len(history[k]) + 1
      BY <1>0 DEF TypeOK
    <3> QED BY <1>0, <1>2, <3>2, <3>3
  <2> QED BY <2>4, <2>5, <2>6, <2>7, <2>8, <2>9, <2>10, <2>11, <2>12, <2>13 DEF KeyStep
<1> QED BY <1>1, <1>2

LEMMA ForgottenNext ==
    ASSUME CoreInv, NeverForgotten, [Next]_vars
    PROVE  NeverForgotten'
<1> SUFFICES ASSUME NEW k \in Key, Needs(k)' PROVE Remembered(k)'
  BY DEF NeverForgotten, Needs, Remembered
<1>0. Needs(k) => Remembered(k)
  BY DEF NeverForgotten, Needs, Remembered
<1>1. CASE Quiet(k)
  BY <1>0, <1>1 DEF Quiet, Needs, Remembered, Cur
<1>2. CASE Restart
  BY <1>2 DEF Restart, Needs, Remembered, Cur
<1>3. CASE KeyStep(k)
  BY <1>3, ForgottenKeyStep
<1> QED BY <1>1, <1>2, <1>3, StepsOfKey
(***************************************************************************)
(* Theorems.                                                               *)
(***************************************************************************)
LEMMA ObservedInit == Init => ObservedInv
<1> SUFFICES ASSUME Init PROVE ObservedInv
  OBVIOUS
<1>1. /\ \A k \in Key : /\ history[k] = <<Gone>> /\ run[k].pc = "idle" /\ seen[k] = 1
      /\ \A o \in Object : objects[o] = Absent
  BY DEF Init, Idle
<1>2. \A k \in Key : Cur(k) = Gone
  <2>1. Len(<<Gone>>) = 1 /\ <<Gone>>[1] = Gone
    OBVIOUS
  <2> QED BY <1>1, <2>1 DEF Cur
<1>3. ~Gone.present /\ Gone.gen = 0 /\ Gone.status.gen = 0
  BY DEF Gone, NoStatus
<1>4. \A k \in Key : objects[Target[k]].rev = 0 /\ objects[Target[k]].phase = "absent"
  <2>1. \A k \in Key : Target[k] \in Object
    BY ObjectAssumption
  <2>2. Absent.rev = 0 /\ Absent.phase = "absent"
    BY DEF Absent
  <2> QED BY <1>1, <2>1, <2>2
<1>5. NeverForgotten /\ ObservedMeansApplied /\ ObservedMeansPruned /\ Vouched
  BY <1>2, <1>3 DEF NeverForgotten, ObservedMeansApplied, ObservedMeansPruned, Vouched, Vouches
<1>6. StatusBehind
  <2> SUFFICES ASSUME NEW k \in Key PROVE Cur(k).status.gen <= Cur(k).gen
    BY DEF StatusBehind
  <2>1. Cur(k).status.gen = 0 /\ Cur(k).gen = 0
    BY <1>2, <1>3
  <2> QED BY <2>1
<1>7. BuiltFromSeen /\ StillAbsent /\ Pruned
  BY <1>1, <1>4 DEF BuiltFromSeen, StillAbsent, Pruned
<1> QED BY <1>5, <1>6, <1>7, IInvInit DEF ObservedInv

LEMMA ObservedNext == ObservedInv /\ [Next]_vars => ObservedInv'
<1> SUFFICES ASSUME ObservedInv, [Next]_vars PROVE ObservedInv'
  OBVIOUS
<1> USE DEF ObservedInv
<1>0. CoreInv
  BY DEF IInv
<1>1. IInv' /\ CoreInv'
  BY IInvNext DEF IInv
<1>2. NeverForgotten'
  BY <1>0, ForgottenNext
<1>3. BuiltFromSeen' /\ StillAbsent'
  BY <1>0, <1>1, BuiltNext, AbsentNext
<1>4. StatusBehind' /\ Vouched' /\ ObservedMeansApplied'
  BY <1>0, <1>1, BelievedNext
<1>5. Pruned' /\ ObservedMeansPruned'
  BY <1>0, PrunedNext, ObservedPrunedNext
<1> QED BY <1>1, <1>2, <1>3, <1>4, <1>5

\* The inductive invariant: as long as the status of a CR claims to have
\* observed its generation, no copy of an older spec is left in the cache, on
\* the watch or in a call (reconciler.go:147-156, 209-234).
THEOREM ObservedInductive == Spec => []ObservedInv
BY ObservedInit, ObservedNext, PTL DEF Spec

\* A status that claims the current generation vouches for a target built from
\* the current spec, whatever stale reads, conflicts, lost answers, drift and
\* restarts came before (reconciler.go:209-234).
THEOREM StatusMeansApplied == Spec => []ObservedMeansApplied
<1>1. ObservedInv => ObservedMeansApplied
  BY DEF ObservedInv
<1> QED BY <1>1, ObservedInductive, PTL

\* And, when the spec exposes nothing, for auxiliary objects that are gone,
\* also when other CRs name the same ones (reconciler.go:223-234, 287-304).
THEOREM StatusMeansPruned == Spec => []ObservedMeansPruned
<1>1. ObservedInv => ObservedMeansPruned
  BY DEF ObservedInv
<1> QED BY <1>1, ObservedInductive, PTL

\* Every return of Reconcile but the last of the deletion path leaves a CR in
\* the queue, under a timer or with an event to come, and so do crashes
\* (reconciler.go:142-243).
THEOREM NothingForgotten == Spec => []NeverForgotten
<1>1. ObservedInv => NeverForgotten
  BY DEF ObservedInv
<1> QED BY <1>1, ObservedInductive, PTL

\* A target is never rebuilt from an older version of its CR than the one it
\* was last built from (reconciler.go:203-213).
THEOREM NeverRegresses == Spec => NoRegress
<1> DEFINE A == \A k \in Key :
                  /\ objects[Target[k]].rev # 0
                  /\ objects'[Target[k]].rev # 0
                  => objects[Target[k]].rev <= objects'[Target[k]].rev
<1>1. ObservedInv /\ [Next]_vars => [A]_vars
  <2> SUFFICES ASSUME ObservedInv, [Next]_vars, NEW k \in Key,
                      objects[Target[k]].rev # 0, objects'[Target[k]].rev # 0
               PROVE  objects[Target[k]].rev <= objects'[Target[k]].rev
    OBVIOUS
  <2>0. CoreInv /\ objects[Target[k]].rev \in Nat /\ Applied(Target[k], k).rev = run[k].rv
    BY VersionTypes DEF ObservedInv, IInv
  <2>1. CASE Quiet(k)
    BY <2>0, <2>1 DEF Quiet
  <2>2. CASE Restart
    BY <2>0, <2>2 DEF Restart
  <2>3. CASE KeyStep(k)
    <3>1. Apply(k) => objects[Target[k]].rev <= run[k].rv
      BY DEF Apply, ObservedInv, BuiltFromSeen
    <3> QED BY <2>0, <2>3, <3>1, TargetStep
  <2> QED BY <2>0, <2>1, <2>2, <2>3, StepsOfKey
<1>2. Spec => [][A]_vars
  BY <1>1, ObservedInductive, PTL DEF Spec
<1> QED BY <1>2 DEF NoRegress

\* TargetCreated is recorded only by the step that creates the target, although
\* its absence was read in an earlier one (reconciler.go:201-219).
THEOREM CreationAnnounced == Spec => AnnouncesCreation
<1> DEFINE A == \A k \in Key : announced'[k] # announced[k] =>
                  /\ objects[Target[k]].phase = "absent"
                  /\ objects'[Target[k]].phase = "live"
<1>1. ObservedInv /\ [Next]_vars => [A]_vars
  <2> SUFFICES ASSUME ObservedInv, [Next]_vars, NEW k \in Key, announced'[k] # announced[k]
               PROVE  /\ objects[Target[k]].phase = "absent"
                      /\ objects'[Target[k]].phase = "live"
    OBVIOUS
  <2>0. CoreInv
    BY DEF ObservedInv, IInv
  <2>1. ~Quiet(k) /\ ~Restart
    BY DEF Quiet, Restart
  <2>2. KeyStep(k)
    BY <2>0, <2>1, StepsOfKey
  <2>3. Apply(k) /\ run[k].pc = "apply" /\ ~run[k].existing
    BY <2>2 DEF KeyStep, Begin, AddFinalizer, GetTarget, Apply, ApplyExtra, UpdateStatus,
                DeleteTarget, DeleteExtra, RemoveFinalizer, FailCall, DeliverEvent, TimerFires,
                UserCreate, UserEdit, UserDelete, UserStep, Unhold
  <2>4. objects[Target[k]].phase = "absent"
    BY <2>3 DEF ObservedInv, StillAbsent
  <2>5. objects'[Target[k]] = Applied(Target[k], k)
    BY <2>0, <2>2, <2>3, TargetStep
  <2> QED BY <2>4, <2>5 DEF Applied
<1>2. Spec => [][A]_vars
  BY <1>1, ObservedInductive, PTL DEF Spec
<1> QED BY <1>2 DEF AnnouncesCreation

\* No CR asks for zero replicas, if no user does.
NonZero == \A k \in Key : Cur(k).spec.replicas # 0

\* A write back then leaves the spec alone.
LEMMA RoundTripKeeps ==
    ASSUME NEW spec \in CRSpec
    PROVE  /\ RoundTrip(spec).replicas # 0
           /\ spec.replicas # 0 => RoundTrip(spec) = spec
BY DEF RoundTrip, CRSpec, DefaultReplicas

LEMMA NonZeroNext ==
    ASSUME 0 \notin Replicas, CoreInv, NonZero, [Next]_vars
    PROVE  NonZero'
<1> SUFFICES ASSUME NEW k \in Key PROVE Cur(k)'.spec.replicas # 0
  BY DEF NonZero
<1>0. TypeOK /\ Cur(k).spec.replicas # 0 /\ Cur(k).spec \in CRSpec
  BY CurTyped DEF CoreInv, NonZero, Snapshot
<1>1. CASE history'[k] = history[k]
  BY <1>0, <1>1 DEF Cur
<1>2. CASE history'[k] # history[k]
  <2>1. KeyStep(k)
    BY <1>2, StepsOfKey DEF Quiet, Restart
  <2>2. PICK s : /\ Writes(k, s)
                 /\ Asks(k, s) \/ Frees(k, s) \/ Marks(k, s) \/ Reports(k, s)
    BY <1>2, <2>1, KeyWrites
  <2>3. Cur(k)' = s
    BY <1>0, <2>2, AppendFacts DEF Writes
  <2>4. Gone.spec.replicas = DefaultReplicas /\ DefaultReplicas # 0
    BY DEF Gone, NoSpec, DefaultReplicas
  <2> QED BY <1>0, <2>2, <2>3, <2>4, RoundTripKeeps DEF Asks, Frees, Marks, Reports
<1> QED BY <1>1, <1>2

\* At first there is no CR.
LEMMA NonZeroInit == Init => NonZero
<1> SUFFICES ASSUME Init, NEW k \in Key PROVE Cur(k).spec.replicas # 0
  BY DEF NonZero
<1>1. history[k] = <<Gone>> /\ Len(<<Gone>>) = 1 /\ <<Gone>>[1] = Gone
  BY DEF Init
<1> QED BY <1>1 DEF Cur, Gone, NoSpec, DefaultReplicas

\* A step that is no user's leaves every spec as it is.
LEMMA SpecKept ==
    ASSUME CoreInv, NonZero, [Next]_vars, budget'.edits = budget.edits,
           NEW k \in Key, Cur(k)'.present
    PROVE  Cur(k).present /\ Cur(k)'.spec = Cur(k).spec
<1>0. TypeOK /\ Cur(k).spec.replicas # 0 /\ Cur(k).spec \in CRSpec
  BY CurTyped DEF CoreInv, NonZero, Snapshot
<1>1. CASE history'[k] = history[k]
  BY <1>1 DEF Cur
<1>2. CASE history'[k] # history[k]
  <2>1. KeyStep(k)
    BY <1>2, StepsOfKey DEF Quiet, Restart
  <2>2. PICK s : /\ Writes(k, s)
                 /\ Asks(k, s) \/ Frees(k, s) \/ Marks(k, s) \/ Reports(k, s)
    BY <1>2, <2>1, KeyWrites
  <2>3. Cur(k)' = s /\ s # Gone
    <3>1. Cur(k)' = s
      BY <1>0, <2>2, AppendFacts DEF Writes
    <3>2. ~Gone.present
      BY DEF Gone
    <3> QED BY <3>1, <3>2
  <2>4. RoundTrip(Cur(k).spec) = Cur(k).spec
    BY <1>0, RoundTripKeeps
  <2> QED BY <2>2, <2>3, <2>4 DEF Asks, Frees, Marks, Reports
<1> QED BY <1>1, <1>2

\* Only users change what a CR asks for, or bring it back: the operator's full
\* Updates undo no edit made between its read and its write. Asking for zero
\* replicas is the exception, and the CRDs of PrometheusInstance and
\* GrafanaInstance alone admit it (reconciler.go:178-181, 193-199).
THEOREM EditsKept ==
    ASSUME 0 \notin Replicas
    PROVE  Spec => NoLostEdit
<1> DEFINE A == budget'.edits = budget.edits =>
                  \A k \in Key : Cur(k)'.present =>
                      Cur(k).present /\ Cur(k)'.spec = Cur(k).spec
<1>1. IInv => CoreInv
  BY DEF IInv
<1>2. CoreInv /\ NonZero /\ [Next]_vars => NonZero' /\ [A]_vars
  BY NonZeroNext, SpecKept
<1>3. Spec => [][A]_vars
  BY <1>1, <1>2, NonZeroInit, Inductive, PTL DEF Spec
<1> QED BY <1>3 DEF NoLostEdit
=============================================================================
