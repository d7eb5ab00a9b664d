-------------------------- MODULE LifecycleProofs --------------------------
(***************************************************************************)
(* The reconciler implements Lifecycle: every step of it, seen through the *)
(* mapping of ReconcilerLifecycle, is a step of the abstract life cycle or *)
(* changes nothing there.                                                  *)
(***************************************************************************)
EXTENDS ReconcilerLifecycle, ReconcilerProofs

Promised == [Promise!Next]_(Promise!vars)

\* The phase of a CR in terms of its marks.
LEMMA PhaseFacts ==
    ASSUME NEW s \in Snapshot
    PROVE  /\ ~s.present => PhaseOf(s) = "none"
           /\ s.present /\ ~s.deleting /\ ~s.fin => PhaseOf(s) = "plain"
           /\ s.present /\ ~s.deleting /\ s.fin => PhaseOf(s) = "guarded"
           /\ s.present /\ s.deleting /\ s.fin => PhaseOf(s) = "closing"
           /\ s.present /\ s.deleting /\ ~s.fin => PhaseOf(s) = "released"
BY DEF PhaseOf

\* Without a write of a CR every CR stays where it is in its life,
LEMMA SameCr ==
    ASSUME history' = history
    PROVE  crBar' = crBar
BY DEF crBar, PhaseOf, Cur

\* and without a write of an object everyone keeps what they own.
LEMMA SameOwned ==
    ASSUME objects' = objects
    PROVE  ownedBar' = ownedBar
BY DEF ownedBar, LiveOf

\* A step that touches neither is none at all in the abstract.
LEMMA Stutter ==
    ASSUME history' = history, objects' = objects
    PROVE  Promised
BY SameCr, SameOwned DEF Promised, Promise!vars

\* A new version of k moves k, and k alone, to the phase of that version.
LEMMA VersionMoves ==
    ASSUME TypeOK, NEW k \in Key, NEW s \in Snapshot,
           history' = [history EXCEPT ![k] = Append(@, s)]
    PROVE  /\ crBar[k] = PhaseOf(Cur(k))
           /\ crBar' = [crBar EXCEPT ![k] = PhaseOf(s)]
<1>1. Cur(k)' = s /\ \A j \in Key : j # k => Cur(j)' = Cur(j)
  BY AppendFacts
<1>2. crBar' = [j \in Key |-> PhaseOf(Cur(j)')]
  BY DEF crBar, PhaseOf
<1>3. crBar = [j \in Key |-> PhaseOf(Cur(j))]
  BY DEF crBar
<1> QED BY <1>1, <1>2, <1>3

\* The moves a CR may make in its life.
Allowed(k, from, to) ==
    \/ from = to
    \/ from = "none" /\ to = "plain"
    \/ from = "plain" /\ to \in {"guarded", "none", "released"}
    \/ from = "guarded" /\ to = "closing"
    \/ from = "closing" /\ to \in {"none", "released"} /\ LiveOf(k) = {}
    \/ from = "released" /\ to = "none"

\* Writing a version that makes such a move is a step of the life cycle.
LEMMA VersionStep ==
    ASSUME TypeOK, NEW k \in Key, NEW s \in Snapshot,
           history' = [history EXCEPT ![k] = Append(@, s)], objects' = objects,
           Allowed(k, PhaseOf(Cur(k)), PhaseOf(s))
    PROVE  Promised
<1> DEFINE from == PhaseOf(Cur(k))
           to == PhaseOf(s)
<1>1. crBar[k] = from /\ crBar' = [crBar EXCEPT ![k] = to] /\ ownedBar' = ownedBar
  BY VersionMoves, SameOwned
<1>2. crBar \in [Key -> {crBar[j] : j \in Key}]
  BY DEF crBar
<1>3. LiveOf(k) = ownedBar[k]
  BY DEF ownedBar
<1>4. Allowed(k, from, to)
  OBVIOUS
<1> HIDE DEF from, to
<1>5. CASE from = to
  BY <1>1, <1>2, <1>5 DEF Promised, Promise!vars
<1>6. CASE from = "none" /\ to = "plain"
  <2>1. Promise!Create(k)
    BY <1>1, <1>6 DEF Promise!Create, Promise!Move
  <2> QED BY <2>1 DEF Promised, Promise!Next
<1>7. CASE from = "plain" /\ to = "guarded"
  <2>1. Promise!Guard(k)
    BY <1>1, <1>7 DEF Promise!Guard, Promise!Move
  <2> QED BY <2>1 DEF Promised, Promise!Next
<1>8. CASE from = "plain" /\ to \in {"none", "released"}
  <2>1. Promise!Abandon(k)
    BY <1>1, <1>8 DEF Promise!Abandon, Promise!Move
  <2> QED BY <2>1 DEF Promised, Promise!Next
<1>9. CASE from = "guarded" /\ to = "closing"
  <2>1. Promise!Close(k)
    BY <1>1, <1>9 DEF Promise!Close, Promise!Move
  <2> QED BY <2>1 DEF Promised, Promise!Next
<1>10. CASE from = "closing" /\ to \in {"none", "released"} /\ LiveOf(k) = {}
  <2>1. Promise!Release(k)
    BY <1>1, <1>3, <1>10 DEF Promise!Release, Promise!Move
  <2> QED BY <2>1 DEF Promised, Promise!Next
<1>11. CASE from = "released" /\ to = "none"
  <2>1. Promise!Collect(k)
    BY <1>1, <1>11 DEF Promise!Collect, Promise!Move
  <2> QED BY <2>1 DEF Promised, Promise!Next
<1> QED BY <1>4, <1>5, <1>6, <1>7, <1>8, <1>9, <1>10, <1>11 DEF Allowed

\* So is a write of such a version that may change nothing.
LEMMA StoreStep ==
    ASSUME TypeOK, NEW k \in Key, NEW s \in Snapshot, Store(k, s),
           objects' = objects, Allowed(k, PhaseOf(Cur(k)), PhaseOf(s))
    PROVE  Promised
BY StoreCases, VersionStep, Stutter

(***************************************************************************)
(* Objects.                                                                *)
(***************************************************************************)
\* Applying an object for a CR that has the finalizer acquires it.
LEMMA ApplyStep ==
    ASSUME IInv, NEW k \in Key, Cur(k).fin, NEW o \in Object, history' = history,
           objects' = [objects EXCEPT ![o] = Applied(o, k)]
    PROVE  Promised
<1>1. objects \in [Object -> ObjectState]
  BY DEF IInv, CoreInv, TypeOK
<1>2. crBar' = crBar /\ crBar[k] \in {"guarded", "closing"}
  <2>1. Cur(k) \in Snapshot /\ Cur(k).present
    BY CurTyped DEF IInv, CoreInv, WellFormed, Cur
  <2>2. PhaseOf(Cur(k)) \in {"guarded", "closing"}
    BY <2>1, PhaseFacts DEF Snapshot
  <2> QED BY <2>2, SameCr DEF crBar
<1>3. CASE objects[o].phase = "terminating"
  <2>1. \A x \in Object : /\ objects'[x].phase = "live" <=> objects[x].phase = "live"
                          /\ objects[x].phase = "live" => objects'[x].owner = objects[x].owner
    BY <1>1, <1>3 DEF Applied
  <2>2. ownedBar' = ownedBar
    BY <2>1 DEF ownedBar, LiveOf
  <2> QED BY <1>2, <2>2 DEF Promised, Promise!vars
<1>4. CASE objects[o].phase # "terminating"
  <2>1. /\ objects'[o].phase = "live" /\ objects'[o].owner = k
        /\ \A x \in Object : x # o => objects'[x] = objects[x]
    BY <1>1, <1>4 DEF Applied, ObjectState
  <2>2. ASSUME NEW j \in Key
        PROVE  LiveOf(j)' = IF j = k THEN LiveOf(j) \cup {o} ELSE LiveOf(j) \ {o}
    BY <2>1 DEF LiveOf
  <2>3. ownedBar' = [j \in Key |->
                       IF j = k THEN ownedBar[j] \cup {o} ELSE ownedBar[j] \ {o}]
    BY <2>2 DEF ownedBar
  <2>4. Promise!Acquire(k, o)
    BY <1>2, <2>3 DEF Promise!Acquire
  <2> QED BY <2>4 DEF Promised, Promise!Next
<1> QED BY <1>3, <1>4

\* An object that is not live after the step, while the others stay, is lost by
\* whoever had it.
LEMMA LossStep ==
    ASSUME IInv, NEW o \in Object, history' = history,
           objects' \in [Object -> ObjectState], objects'[o].phase # "live",
           \A x \in Object : x # o => objects'[x] = objects[x]
    PROVE  Promised
<1>1. CASE objects[o].phase # "live"
  <2>1. ownedBar' = ownedBar
    BY <1>1 DEF ownedBar, LiveOf
  <2> QED BY <2>1, SameCr DEF Promised, Promise!vars
<1>2. CASE objects[o].phase = "live"
  <2> DEFINE k == objects[o].owner
  <2>1. k \in Key
    BY <1>2 DEF IInv, CoreInv, NoOrphan
  <2>2. ASSUME NEW j \in Key
        PROVE  LiveOf(j)' = IF j = k THEN LiveOf(j) \ {o} ELSE LiveOf(j)
    BY DEF LiveOf
  <2>3. ownedBar' = [ownedBar EXCEPT ![k] = @ \ {o}]
    BY <2>2 DEF ownedBar
  <2>4. o \in ownedBar[k]
    BY <1>2, <2>1 DEF ownedBar, LiveOf
  <2>5. Promise!Lose(k, o)
    BY <2>3, <2>4, SameCr DEF Promise!Lose
  <2> QED BY <2>1, <2>5 DEF Promised, Promise!Next
<1> QED BY <1>1, <1>2

\* Deleting an object does that.
LEMMA DeleteStep ==
    ASSUME IInv, NEW o \in Object, history' = history, DeleteObject(o)
    PROVE  Promised
<1>1. objects' \in [Object -> ObjectState]
  BY DeleteObjectTyped DEF IInv, CoreInv
<1>2. objects'[o].phase # "live"
  BY DeleteChange, OwnerAssumption DEF IInv, CoreInv
<1>3. \A x \in Object : x # o => objects'[x] = objects[x]
  BY DEF DeleteObject, IInv, CoreInv, TypeOK
<1> QED BY <1>1, <1>2, <1>3, LossStep

(***************************************************************************)
(* The steps of the reconciler.                                            *)
(***************************************************************************)
\* Every step for a key,
LEMMA PromisedKeyStep ==
    ASSUME IInv, NEW k \in Key, KeyStep(k)
    PROVE  Promised
<1>t. TypeOK /\ Cur(k) \in Snapshot /\ WellFormed
  BY CurTyped DEF IInv, CoreInv
<1>p. Cur(k).fin \/ Cur(k).deleting => Cur(k).present
  BY <1>t, CurTyped DEF WellFormed, Cur
<1>b. /\ Cur(k).present \in BOOLEAN /\ Cur(k).fin \in BOOLEAN
      /\ Cur(k).deleting \in BOOLEAN /\ Cur(k).held \in BOOLEAN
  BY <1>t DEF Snapshot
<1>1. CASE Begin(k) \/ GetTarget(k) \/ FailCall(k) \/ DeliverEvent(k) \/ TimerFires(k)
  BY <1>1, Stutter DEF Begin, GetTarget, FailCall, DeliverEvent, TimerFires
<1>2. CASE AddFinalizer(k)
  <2>1. CASE ~Fresh(k)
    BY <1>2, <2>1, Stutter DEF AddFinalizer
  <2>2. CASE Fresh(k)
    <3> DEFINE s == WriteBack(Cur(k), TRUE)
    <3>1. Read(k) = Cur(k) /\ Branch(Cur(k)) = "addFinalizer"
      BY <1>2, <2>2, FreshFacts, PathFacts DEF IInv, AddFinalizer
    <3>2. Cur(k).present /\ ~Cur(k).fin /\ ~Cur(k).deleting
      BY <1>t, <3>1, BranchFacts
    <3>3. s \in Snapshot /\ s.present /\ s.fin /\ ~s.deleting
      BY <1>t, <3>2, WriteBackFacts, WriteBackTyped
    <3>4. Store(k, s) /\ objects' = objects
      BY <1>2, <2>2, <3>1 DEF AddFinalizer
    <3> HIDE DEF s
    <3>5. PhaseOf(Cur(k)) = "plain" /\ PhaseOf(s) = "guarded"
      BY <1>t, <3>2, <3>3, PhaseFacts
    <3> QED BY <1>t, <3>3, <3>4, <3>5, StoreStep DEF Allowed
  <2> QED BY <2>1, <2>2
<1>3. CASE Apply(k)
  <2>1. Cur(k).fin /\ Target[k] \in Object
    BY <1>3, PathFacts, ObjectAssumption DEF IInv, Apply, NormalPc
  <2> QED BY <1>3, <2>1, ApplyStep DEF Apply
<1>4. CASE ApplyExtra(k)
  <2> DEFINE o == Extra[k][run[k].idx]
  <2>1. o \in Object
    <3>1. run[k].idx \in Nat /\ run[k].idx >= 1 /\ run[k].idx <= Len(Extra[k])
      BY <1>4, CurTyped DEF ApplyExtra, IInv, CoreInv, Indexed, RunState
    <3> QED BY <3>1, ObjectAssumption
  <2>2. Cur(k).fin
    BY <1>4, PathFacts DEF IInv, ApplyExtra, NormalPc
  <2>3. history' = history
    BY <1>4 DEF ApplyExtra
  <2>4. objects' = [objects EXCEPT ![o] = Applied(o, k)] \/ DeleteObject(o)
    BY <1>4 DEF ApplyExtra
  <2> HIDE DEF o
  <2> QED BY <2>1, <2>2, <2>3, <2>4, ApplyStep, DeleteStep
<1>5. CASE UpdateStatus(k)
  <2>1. CASE ~Fresh(k)
    BY <1>5, <2>1, Stutter DEF UpdateStatus
  <2>2. CASE Fresh(k)
    <3> DEFINE s == [Cur(k) EXCEPT !.status = [gen |-> Cur(k).gen, ready |-> run[k].ready]]
    <3>1. Read(k) = Cur(k)
      BY <1>5, <2>2, FreshFacts DEF IInv, UpdateStatus
    <3>2. Store(k, s) /\ objects' = objects
      BY <1>5, <2>2, <3>1 DEF UpdateStatus
    <3>3. s \in Snapshot
      BY <1>t, CurTyped DEF Snapshot, Status, RunState
    <3>4. s.present = Cur(k).present /\ s.fin = Cur(k).fin /\ s.deleting = Cur(k).deleting
      BY <1>t DEF Snapshot
    <3> HIDE DEF s
    <3>5. PhaseOf(s) = PhaseOf(Cur(k))
      BY <3>4 DEF PhaseOf
    <3> QED BY <1>t, <3>2, <3>3, <3>5, StoreStep DEF Allowed
  <2> QED BY <2>1, <2>2
<1>6. CASE DeleteTarget(k)
  BY <1>6, DeleteStep, ObjectAssumption DEF DeleteTarget
<1>7. CASE DeleteExtra(k)
  <2>1. run[k].idx \in Nat /\ run[k].idx >= 1 /\ run[k].idx <= Len(Extra[k])
    BY <1>7, CurTyped DEF DeleteExtra, IInv, CoreInv, Indexed, RunState
  <2>2. Extra[k][run[k].idx] \in Object
    BY <2>1, ObjectAssumption
  <2> QED BY <1>7, <2>2, DeleteStep DEF DeleteExtra
<1>8. CASE RemoveFinalizer(k)
  <2>1. CASE ~Fresh(k)
    BY <1>8, <2>1, Stutter DEF RemoveFinalizer
  <2>2. CASE Fresh(k)
    <3> DEFINE s == WriteBack(Cur(k), FALSE)
    <3>1. Read(k) = Cur(k) /\ Branch(Cur(k)) = "deleteTarget"
      BY <1>8, <2>2, FreshFacts, PathFacts DEF IInv, RemoveFinalizer, DeletePc
    <3>2. Cur(k).present /\ Cur(k).fin /\ Cur(k).deleting
      BY <1>t, <3>1, BranchFacts
    <3>3. s \in Snapshot /\ ~s.fin /\ (s.present => s.deleting)
      <4>1. s \in Snapshot /\ ~s.fin
        BY <1>t, WriteBackFacts, WriteBackTyped
      <4>2. s.present => s.deleting
        BY <1>t, <3>2 DEF WriteBack, Settle, Gone, Snapshot
      <4> QED BY <4>1, <4>2
    <3>4. Store(k, s) /\ objects' = objects
      BY <1>8, <2>2, <3>1 DEF RemoveFinalizer
    <3>5. LiveOf(k) = {}
      <4>1. \A o \in Passed(k, run[k].idx) : ~Owns(k, o)
        BY <1>8 DEF RemoveFinalizer, IInv, CoreInv, Cleaned
      <4>2. run[k].idx \in Nat /\ run[k].idx > Len(Extra[k]) /\ Len(Extra[k]) \in Nat
        BY <1>8, CurTyped, ObjectAssumption DEF RemoveFinalizer, IInv, CoreInv, RunState
      <4>3. ASSUME NEW o \in Object, Owns(k, o) PROVE o \in Passed(k, run[k].idx)
        <5>1. o = Target[k] \/ o \in Range(Extra[k])
          BY <4>3 DEF Owns, IInv, CoreInv, OwnedInPlace
        <5> QED BY <4>2, <5>1, ObjectAssumption DEF Passed, Range
      <4> QED BY <4>1, <4>3 DEF LiveOf, Owns
    <3> HIDE DEF s
    <3>6. PhaseOf(Cur(k)) = "closing" /\ PhaseOf(s) \in {"none", "released"}
      BY <1>t, <3>2, <3>3, PhaseFacts DEF Snapshot
    <3> QED BY <1>t, <3>3, <3>4, <3>5, <3>6, StoreStep DEF Allowed
  <2> QED BY <2>1, <2>2
<1>9. ASSUME NEW spec \in UserSpec, UserCreate(k, spec) PROVE Promised
  <2> DEFINE s == [Gone EXCEPT !.present = TRUE, !.spec = spec, !.gen = 1]
  <2>1. s \in Snapshot /\ s.present /\ ~s.fin /\ ~s.deleting
    <3>1. spec \in CRSpec
      BY <1>9, BoundAssumption DEF UserSpec, CRSpec
    <3> QED BY <3>1, ConstantsTyped, SnapshotUpdates DEF Gone
  <2>2. history' = [history EXCEPT ![k] = Append(@, s)] /\ objects' = objects
    BY <1>9 DEF UserCreate, UserStep
  <2>3. ~Cur(k).present
    BY <1>9 DEF UserCreate
  <2> HIDE DEF s
  <2>4. PhaseOf(Cur(k)) = "none" /\ PhaseOf(s) = "plain"
    BY <1>t, <2>1, <2>3, PhaseFacts
  <2> QED BY <1>t, <2>1, <2>2, <2>4, VersionStep DEF Allowed
<1>10. ASSUME NEW spec \in UserSpec, UserEdit(k, spec) PROVE Promised
  <2> DEFINE s == [Cur(k) EXCEPT !.spec = spec, !.gen = @ + 1]
  <2>1. s \in Snapshot
    <3>1. spec \in CRSpec
      BY <1>10, BoundAssumption DEF UserSpec, CRSpec
    <3>2. Cur(k).gen + 1 \in Nat
      BY <1>t DEF Snapshot
    <3> QED BY <1>t, <3>1, <3>2, SnapshotUpdates
  <2>2. history' = [history EXCEPT ![k] = Append(@, s)] /\ objects' = objects
    BY <1>10 DEF UserEdit, UserStep
  <2>3. s.present = Cur(k).present /\ s.fin = Cur(k).fin /\ s.deleting = Cur(k).deleting
    BY <1>t DEF Snapshot
  <2> HIDE DEF s
  <2>4. PhaseOf(s) = PhaseOf(Cur(k))
    BY <2>3 DEF PhaseOf
  <2> QED BY <1>t, <2>1, <2>2, <2>4, VersionStep DEF Allowed
<1>11. ASSUME NEW foreground \in BOOLEAN, UserDelete(k, foreground) PROVE Promised
  <2> DEFINE marked == [Cur(k) EXCEPT !.deleting = TRUE, !.held = foreground, !.gen = @ + 1]
             s == Settle(marked)
  <2>1. marked \in Snapshot /\ s \in Snapshot
    <3>1. Cur(k).gen + 1 \in Nat
      BY <1>t DEF Snapshot
    <3>2. marked \in Snapshot
      BY <1>t, <3>1, SnapshotUpdates
    <3> QED BY <3>2, SettleTyped
  <2>2. history' = [history EXCEPT ![k] = Append(@, s)] /\ objects' = objects
    BY <1>11 DEF UserDelete, UserStep
  <2>3. Cur(k).present /\ ~Cur(k).deleting
    BY <1>11 DEF UserDelete
  <2>4. /\ marked.present = Cur(k).present /\ marked.fin = Cur(k).fin
        /\ marked.deleting = TRUE
    BY <1>t DEF Snapshot
  <2> HIDE DEF marked
  <2>5. /\ Cur(k).fin => s.present /\ s.fin /\ s.deleting
        /\ ~Cur(k).fin => ~s.present \/ (s.present /\ ~s.fin /\ s.deleting)
    BY <2>3, <2>4 DEF Settle, Gone
  <2> HIDE DEF s
  <2>6. CASE Cur(k).fin
    <3>1. PhaseOf(Cur(k)) = "guarded" /\ PhaseOf(s) = "closing"
      BY <1>t, <2>1, <2>3, <2>5, <2>6, PhaseFacts
    <3> QED BY <1>t, <2>1, <2>2, <3>1, VersionStep DEF Allowed
  <2>7. CASE ~Cur(k).fin
    <3>1. PhaseOf(Cur(k)) = "plain" /\ PhaseOf(s) \in {"none", "released"}
      BY <1>t, <2>1, <2>3, <2>5, <2>7, PhaseFacts
    <3> QED BY <1>t, <2>1, <2>2, <3>1, VersionStep DEF Allowed
  <2> QED BY <2>6, <2>7
<1>12. CASE Unhold(k)
  <2> DEFINE freed == [Cur(k) EXCEPT !.held = FALSE]
             s == Settle(freed)
  <2>1. freed \in Snapshot /\ s \in Snapshot
    <3>1. freed \in Snapshot
      BY <1>t DEF Snapshot
    <3> QED BY <3>1, SettleTyped
  <2>2. history' = [history EXCEPT ![k] = Append(@, s)] /\ objects' = objects
    BY <1>12 DEF Unhold
  <2>3. /\ freed.present = Cur(k).present /\ freed.fin = Cur(k).fin
        /\ freed.deleting = Cur(k).deleting
    BY <1>t DEF Snapshot
  <2> HIDE DEF freed
  <2>4. CASE Cur(k).deleting /\ ~Cur(k).fin
    <3>1. PhaseOf(Cur(k)) = "released"
      BY <1>t, <1>p, <2>4, PhaseFacts
    <3>2. s = freed \/ s = Gone
      BY DEF Settle
    <3>3. PhaseOf(s) \in {"released", "none"}
      BY <1>p, <2>3, <2>4, <3>2, PhaseFacts, <2>1 DEF Gone
    <3> HIDE DEF s
    <3> QED BY <1>t, <2>1, <2>2, <3>1, <3>3, VersionStep DEF Allowed
  <2>5. CASE ~(Cur(k).deleting /\ ~Cur(k).fin)
    <3>1. s = freed
      BY <2>3, <2>5 DEF Settle
    <3>2. PhaseOf(s) = PhaseOf(Cur(k))
      BY <2>3, <3>1 DEF PhaseOf
    <3> HIDE DEF s
    <3> QED BY <1>t, <2>1, <2>2, <3>2, VersionStep DEF Allowed
  <2> QED BY <2>4, <2>5
<1> QED
  BY <1>1, <1>2, <1>3, <1>4, <1>5, <1>6, <1>7, <1>8, <1>9, <1>10, <1>11, <1>12
     DEF KeyStep

\* every step for an object,
LEMMA PromisedObjectStep ==
    ASSUME IInv, NEW o \in Object, ObjectStep(o)
    PROVE  Promised
<1>1. objects \in [Object -> ObjectState]
  BY DEF IInv, CoreInv, TypeOK
<1>2. history' = history
  BY DEF ObjectStep, VendorReports, VendorFinishes, OutsiderDeletes, OutsiderEdits, Drift
<1>3. CASE VendorReports(o) \/ OutsiderEdits(o)
  <2>1. \A x \in Object : /\ objects'[x].phase = objects[x].phase
                          /\ objects'[x].owner = objects[x].owner
    BY <1>1, <1>3 DEF VendorReports, OutsiderEdits, ObjectState
  <2>2. ownedBar' = ownedBar
    BY <2>1 DEF ownedBar, LiveOf
  <2> QED BY <1>2, <2>2, SameCr DEF Promised, Promise!vars
<1>4. CASE VendorFinishes(o)
  <2>1. /\ objects' \in [Object -> ObjectState] /\ objects'[o].phase # "live"
        /\ \A x \in Object : x # o => objects'[x] = objects[x]
    BY <1>1, <1>4, ConstantsTyped DEF VendorFinishes, Absent
  <2> QED BY <1>2, <2>1, LossStep
<1>5. CASE OutsiderDeletes(o)
  BY <1>2, <1>5, DeleteStep DEF OutsiderDeletes
<1> QED BY <1>3, <1>4, <1>5 DEF ObjectStep

\* and a restart are steps of the life cycle, or nothing to it.
LEMMA PromisedNext == IInv /\ [Next]_vars => Promised
<1> SUFFICES ASSUME IInv, [Next]_vars PROVE Promised
  OBVIOUS
<1>1. CASE UNCHANGED vars
  BY <1>1, Stutter DEF vars
<1>2. CASE Restart
  BY <1>2, Stutter DEF Restart
<1> QED BY <1>1, <1>2, PromisedKeyStep, PromisedObjectStep DEF Next

\* No CR, no object: the life cycle's own beginning.
LEMMA PromisedInit == Init => Promise!Init
<1> SUFFICES ASSUME Init PROVE Promise!Init
  OBVIOUS
<1>1. ASSUME NEW k \in Key PROVE PhaseOf(Cur(k)) = "none" /\ LiveOf(k) = {}
  <2>1. Cur(k) = Gone
    BY DEF Init, Cur
  <2>2. PhaseOf(Gone) = "none"
    BY PhaseFacts, ConstantsTyped DEF Gone
  <2>3. \A o \in Object : objects[o].phase = "absent"
    BY DEF Init, Absent
  <2> QED BY <2>1, <2>2, <2>3 DEF LiveOf
<1> QED BY <1>1 DEF Promise!Init, crBar, ownedBar

\* The reconciler implements the finalizer-gated life cycle, for any CRs, any
\* number of controllers and auxiliary objects, shared ones included, and
\* through stale reads, faults, restarts and drift (reconciler.go:142-243).
THEOREM Refinement == Spec => ImplementsLifecycle
<1>1. IInv /\ [Next]_vars => [Promise!Next]_(Promise!vars)
  BY PromisedNext DEF Promised
<1> QED
  BY <1>1, PromisedInit, Inductive, PTL DEF Spec, ImplementsLifecycle, Promise!Spec
=============================================================================
