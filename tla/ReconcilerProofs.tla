-------------------------- MODULE ReconcilerProofs --------------------------
(***************************************************************************)
(* Proofs about Reconciler, for every set of keys and objects, every       *)
(* naming of auxiliary objects and every bound on the environment.         *)
(***************************************************************************)
EXTENDS Reconciler, TLAPS

(***************************************************************************)
(* Typing.                                                                 *)
(***************************************************************************)
\* The records the model starts from have their types.
LEMMA ConstantsTyped ==
    /\ Gone \in Snapshot
    /\ Absent \in ObjectState
    /\ Idle \in RunState
    /\ "idle" \in Pc /\ "addFinalizer" \in Pc
    /\ NormalPc \subseteq Pc /\ DeletePc \subseteq Pc
BY DEF Gone, Snapshot, NoSpec, CRSpec, NoStatus, Status, DefaultReplicas,
       Absent, ObjectState, Idle, RunState, Pc, NormalPc, DeletePc

\* Settling a version of a CR yields a version of a CR.
LEMMA SettleTyped ==
    ASSUME NEW s \in Snapshot
    PROVE  Settle(s) \in Snapshot
BY ConstantsTyped DEF Settle

\* So do the updates of one that the operator and the users make.
LEMMA SnapshotUpdates ==
    ASSUME NEW s \in Snapshot, NEW gen \in Nat
    PROVE  /\ \A spec \in CRSpec, fin \in BOOLEAN :
                [s EXCEPT !.spec = spec, !.fin = fin, !.gen = gen] \in Snapshot
           /\ \A spec \in CRSpec :
                /\ [s EXCEPT !.spec = spec, !.gen = gen] \in Snapshot
                /\ [s EXCEPT !.present = TRUE, !.spec = spec, !.gen = gen] \in Snapshot
           /\ \A held \in BOOLEAN :
                [s EXCEPT !.deleting = TRUE, !.held = held, !.gen = gen] \in Snapshot
<1>1. \A spec \in CRSpec, fin \in BOOLEAN :
        [s EXCEPT !.spec = spec, !.fin = fin, !.gen = gen] \in Snapshot
  BY DEF Snapshot
<1>2. \A spec \in CRSpec : [s EXCEPT !.spec = spec, !.gen = gen] \in Snapshot
  BY DEF Snapshot
<1>3. \A spec \in CRSpec :
        [s EXCEPT !.present = TRUE, !.spec = spec, !.gen = gen] \in Snapshot
  BY DEF Snapshot
<1>4. \A held \in BOOLEAN :
        [s EXCEPT !.deleting = TRUE, !.held = held, !.gen = gen] \in Snapshot
  BY DEF Snapshot
<1> QED
  BY <1>1, <1>2, <1>3, <1>4

\* Spending from a budget leaves a budget.
LEMMA BudgetUpdates ==
    ASSUME NEW b \in Budget
    PROVE  /\ b.edits > 0 => [b EXCEPT !.edits = @ - 1] \in Budget
           /\ b.faults > 0 => [b EXCEPT !.faults = @ - 1] \in Budget
           /\ b.drift > 0 => [b EXCEPT !.drift = @ - 1] \in Budget
           /\ b.reports > 0 => [b EXCEPT !.reports = @ - 1] \in Budget
BY DEF Budget

\* What an Update stores is a version of a CR.
LEMMA WriteBackTyped ==
    ASSUME NEW s \in Snapshot, NEW fin \in BOOLEAN
    PROVE  WriteBack(s, fin) \in Snapshot
<1> DEFINE spec == RoundTrip(s.spec)
           gen == IF spec = s.spec THEN s.gen ELSE s.gen + 1
<1>1. spec \in CRSpec
  BY DEF Snapshot, CRSpec, RoundTrip, DefaultReplicas
<1>2. gen \in Nat
  BY DEF Snapshot
<1> HIDE DEF spec, gen
<1>3. [s EXCEPT !.spec = spec, !.fin = fin, !.gen = gen] \in Snapshot
  BY <1>1, <1>2, SnapshotUpdates
<1> QED
  BY <1>3, SettleTyped DEF WriteBack, spec, gen

\* Reconcile goes to one of its program points.
LEMMA BranchTyped ==
    ASSUME NEW s \in Snapshot
    PROVE  Branch(s) \in Pc
BY DEF Branch, Pc, NormalPc, DeletePc, Snapshot

\* The versions a step looks at exist.
LEMMA CurTyped ==
    ASSUME TypeOK, NEW k \in Key
    PROVE  /\ Cur(k) \in Snapshot
           /\ Len(history[k]) \in Nat \ {0}
           /\ seen[k] \in 1..Len(history[k])
           /\ Cached(k) \in Snapshot
           /\ run[k] \in RunState
BY DEF TypeOK, Cur, Cached

\* A new version keeps the history typed and the cache inside it.
LEMMA AppendTyped ==
    ASSUME TypeOK, NEW k \in Key, NEW s \in Snapshot,
           history' = [history EXCEPT ![k] = Append(@, s)], seen' = seen
    PROVE  /\ history' \in [Key -> Seq(Snapshot)]
           /\ \A j \in Key : seen'[j] \in 1..Len(history'[j])
BY DEF TypeOK

\* So does a write that may change nothing.
LEMMA StoreTyped ==
    ASSUME TypeOK, NEW k \in Key, NEW s \in Snapshot, Store(k, s), seen' = seen
    PROVE  /\ history' \in [Key -> Seq(Snapshot)]
           /\ \A j \in Key : seen'[j] \in 1..Len(history'[j])
BY DEF TypeOK, Store

\* Server-Side Apply leaves an object of the right type.
LEMMA AppliedTyped ==
    ASSUME TypeOK, NEW k \in Key, NEW o \in Object
    PROVE  Applied(o, k) \in ObjectState
BY DEF TypeOK, Applied, ObjectState, RunState

\* So does Delete.
LEMMA DeleteObjectTyped ==
    ASSUME TypeOK, NEW o, DeleteObject(o)
    PROVE  objects' \in [Object -> ObjectState]
<1>1. CASE objects' = [objects EXCEPT ![o] = Absent]
  BY <1>1, ConstantsTyped DEF TypeOK
<1>2. CASE objects' = [objects EXCEPT ![o].phase = "terminating"]
  <2>1. \A x \in ObjectState : [x EXCEPT !.phase = "terminating"] \in ObjectState
    BY DEF ObjectState
  <2> QED
    BY <1>2, <2>1 DEF TypeOK
<1> QED
  BY <1>1, <1>2 DEF DeleteObject

\* The three ways a Reconcile call goes on keep the types: it runs on,
LEMMA ContinueTyped ==
    ASSUME TypeOK, NEW k \in Key, NEW r \in RunState, Continue(k, r)
    PROVE  /\ run' \in [Key -> RunState] /\ queue' \subseteq Key
           /\ poll' \subseteq Key /\ budget' \in Budget
BY DEF TypeOK, Continue

\* it ends and the key is queued again,
LEMMA RequeueTyped ==
    ASSUME TypeOK, NEW k \in Key, Requeue(k)
    PROVE  /\ run' \in [Key -> RunState] /\ queue' \subseteq Key
           /\ poll' \subseteq Key
BY ConstantsTyped DEF TypeOK, Requeue

\* or it fails and the key is queued again.
LEMMA LoseResponseTyped ==
    ASSUME TypeOK, NEW k \in Key, LoseResponse(k)
    PROVE  /\ run' \in [Key -> RunState] /\ queue' \subseteq Key
           /\ poll' \subseteq Key /\ budget' \in Budget
BY RequeueTyped, BudgetUpdates DEF TypeOK, LoseResponse

\* Every step for a key keeps the types,
LEMMA TypingKeyStep ==
    ASSUME TypeOK, NEW k \in Key, KeyStep(k)
    PROVE  TypeOK'
<1> USE CurTyped
<1>1. CASE Begin(k)
  <2> DEFINE r == IF Branch(Cached(k)) = "idle" THEN Idle
                  ELSE [Idle EXCEPT !.pc = Branch(Cached(k)), !.rv = seen[k]]
  <2>1. r \in RunState
    <3>1. \A pc \in Pc, rv \in Nat : [Idle EXCEPT !.pc = pc, !.rv = rv] \in RunState
      BY ConstantsTyped DEF RunState, Idle
    <3>2. seen[k] \in Nat
      OBVIOUS
    <3> QED
      BY <3>1, <3>2, BranchTyped, ConstantsTyped
  <2> QED
    BY <1>1, <2>1 DEF TypeOK, Begin
<1>2. CASE AddFinalizer(k)
  <2>1. Fresh(k) => Read(k) = Cur(k)
    BY DEF Fresh, Read, Cur
  <2>2. history' \in [Key -> Seq(Snapshot)] /\ \A j \in Key : seen'[j] \in 1..Len(history'[j])
    BY <1>2, <2>1, WriteBackTyped, StoreTyped DEF AddFinalizer, TypeOK
  <2> QED
    BY <1>2, <2>2, RequeueTyped DEF AddFinalizer, TypeOK
<1>3. CASE GetTarget(k)
  <2>1. [run[k] EXCEPT !.pc = "apply",
           !.existing = objects[Target[k]].phase # "absent"] \in RunState
    BY DEF RunState, Pc, NormalPc
  <2> QED
    BY <1>3, <2>1, ContinueTyped DEF GetTarget, TypeOK
<1>4. CASE Apply(k)
  <2>1. Target[k] \in Object
    BY ObjectAssumption
  <2>2. objects' \in [Object -> ObjectState]
    BY <1>4, <2>1, AppliedTyped DEF Apply, TypeOK
  <2>3. [run[k] EXCEPT !.pc = "extras", !.idx = 1,
           !.ready = objects[Target[k]].ready] \in RunState
    BY <2>1 DEF RunState, Pc, NormalPc, TypeOK, ObjectState
  <2>4. announced' \in [Key -> Nat]
    BY <1>4 DEF Apply, TypeOK
  <2> QED
    BY <1>4, <2>2, <2>3, <2>4, ContinueTyped, LoseResponseTyped DEF Apply, TypeOK
<1>5. CASE ApplyExtra(k)
  <2> DEFINE o == Extra[k][run[k].idx]
  <2>1. objects' \in [Object -> ObjectState]
    <3>1. objects \in [Object -> ObjectState]
      BY DEF TypeOK
    <3>2. objects' = [objects EXCEPT ![o] = Applied(o, k)] \/ DeleteObject(o)
      BY <1>5 DEF ApplyExtra
    <3> HIDE DEF o
    <3>3. CASE objects' = [objects EXCEPT ![o] = Applied(o, k)]
      <4>1. o \in Object => Applied(o, k) \in ObjectState
        BY AppliedTyped
      <4> QED
        BY <3>1, <3>3, <4>1
    <3>4. CASE DeleteObject(o)
      BY <3>4, DeleteObjectTyped
    <3> QED
      BY <3>2, <3>3, <3>4
  <2>2. [run[k] EXCEPT !.idx = @ + 1] \in RunState
    BY DEF RunState
  <2> QED
    BY <1>5, <2>1, <2>2, ContinueTyped, LoseResponseTyped DEF ApplyExtra, TypeOK
<1>6. CASE UpdateStatus(k)
  <2> DEFINE s == [Read(k) EXCEPT
                     !.status = [gen |-> Read(k).gen, ready |-> run[k].ready]]
  <2>1. Fresh(k) => s \in Snapshot
    <3>1. Fresh(k) => Read(k) = Cur(k)
      BY DEF Fresh, Read, Cur
    <3> QED
      BY <3>1 DEF Snapshot, Status, RunState
  <2>2. history' \in [Key -> Seq(Snapshot)] /\ \A j \in Key : seen'[j] \in 1..Len(history'[j])
    BY <1>6, <2>1, StoreTyped DEF UpdateStatus, TypeOK
  <2> QED
    BY <1>6, <2>2, RequeueTyped, LoseResponseTyped, ConstantsTyped
    DEF UpdateStatus, TypeOK
<1>7. CASE DeleteTarget(k)
  <2>1. [run[k] EXCEPT !.pc = "deleteExtras", !.idx = 1] \in RunState
    BY DEF RunState, Pc, DeletePc
  <2> QED
    BY <1>7, <2>1, DeleteObjectTyped, ContinueTyped, LoseResponseTyped
    DEF DeleteTarget, TypeOK
<1>8. CASE DeleteExtra(k)
  <2>1. [run[k] EXCEPT !.idx = @ + 1] \in RunState
    BY DEF RunState
  <2> QED
    BY <1>8, <2>1, DeleteObjectTyped, ContinueTyped, LoseResponseTyped
    DEF DeleteExtra, TypeOK
<1>9. CASE RemoveFinalizer(k)
  <2>1. Fresh(k) => Read(k) = Cur(k)
    BY DEF Fresh, Read, Cur
  <2>2. history' \in [Key -> Seq(Snapshot)] /\ \A j \in Key : seen'[j] \in 1..Len(history'[j])
    BY <1>9, <2>1, WriteBackTyped, StoreTyped DEF RemoveFinalizer, TypeOK
  <2> QED
    BY <1>9, <2>2, RequeueTyped, ContinueTyped, LoseResponseTyped, ConstantsTyped
    DEF RemoveFinalizer, TypeOK
<1>10. CASE FailCall(k)
  BY <1>10, LoseResponseTyped DEF FailCall, TypeOK
<1>11. CASE DeliverEvent(k)
  BY <1>11 DEF DeliverEvent, TypeOK
<1>12. CASE TimerFires(k)
  BY <1>12 DEF TimerFires, TypeOK
<1>13. ASSUME NEW s \in Snapshot, UserStep(k, s)
       PROVE  TypeOK'
  <2>1. history' \in [Key -> Seq(Snapshot)] /\ \A j \in Key : seen'[j] \in 1..Len(history'[j])
    BY <1>13, AppendTyped DEF UserStep
  <2> QED
    BY <1>13, <2>1, BudgetUpdates DEF UserStep, TypeOK
<1>14. CASE \E spec \in UserSpec : UserCreate(k, spec) \/ UserEdit(k, spec)
  <2>1. PICK spec \in UserSpec : UserCreate(k, spec) \/ UserEdit(k, spec)
    BY <1>14
  <2>2. spec \in CRSpec
    BY BoundAssumption DEF UserSpec, CRSpec
  <2>3. [Gone EXCEPT !.present = TRUE, !.spec = spec, !.gen = 1] \in Snapshot
    BY <2>2, ConstantsTyped, SnapshotUpdates
  <2>5. Cur(k).gen + 1 \in Nat
    BY DEF Snapshot
  <2>4. [Cur(k) EXCEPT !.spec = spec, !.gen = @ + 1] \in Snapshot
    BY <2>2, <2>5, SnapshotUpdates
  <2> QED
    BY <2>1, <2>3, <2>4, <1>13 DEF UserCreate, UserEdit
<1>15. CASE \E foreground \in BOOLEAN : UserDelete(k, foreground)
  <2>1. PICK foreground \in BOOLEAN : UserDelete(k, foreground)
    BY <1>15
  <2>2. [Cur(k) EXCEPT !.deleting = TRUE, !.held = foreground, !.gen = @ + 1]
          \in Snapshot
    <3> DEFINE gen == Cur(k).gen + 1
    <3>1. gen \in Nat
      BY DEF Snapshot
    <3>3. Cur(k) \in Snapshot
      OBVIOUS
    <3> HIDE DEF gen
    <3>2. [Cur(k) EXCEPT !.deleting = TRUE, !.held = foreground, !.gen = gen]
            \in Snapshot
      BY <3>1, <3>3, SnapshotUpdates
    <3> QED
      BY <3>2 DEF gen
  <2> QED
    BY <2>1, <2>2, SettleTyped, <1>13 DEF UserDelete
<1>16. CASE Unhold(k)
  <2>1. [Cur(k) EXCEPT !.held = FALSE] \in Snapshot
    BY DEF Snapshot
  <2>2. history' \in [Key -> Seq(Snapshot)] /\ \A j \in Key : seen'[j] \in 1..Len(history'[j])
    BY <1>16, <2>1, SettleTyped, AppendTyped DEF Unhold
  <2> QED
    BY <1>16, <2>2 DEF Unhold, TypeOK
<1> QED
  BY <1>1, <1>2, <1>3, <1>4, <1>5, <1>6, <1>7, <1>8, <1>9, <1>10, <1>11,
     <1>12, <1>14, <1>15, <1>16 DEF KeyStep

\* every step of a foreign object does,
LEMMA TypingObjectStep ==
    ASSUME TypeOK, NEW o \in Object, ObjectStep(o)
    PROVE  TypeOK'
<1>1. CASE VendorReports(o)
  <2>1. \A x \in ObjectState : [x EXCEPT !.ready = ~@] \in ObjectState
    BY DEF ObjectState
  <2> QED
    BY <1>1, <2>1, BudgetUpdates DEF VendorReports, TypeOK
<1>2. CASE VendorFinishes(o)
  BY <1>2, ConstantsTyped DEF VendorFinishes, TypeOK
<1>3. CASE OutsiderDeletes(o)
  BY <1>3, DeleteObjectTyped, BudgetUpdates DEF OutsiderDeletes, Drift, TypeOK
<1>4. CASE OutsiderEdits(o)
  <2>1. \A x \in ObjectState : [x EXCEPT !.rev = 0] \in ObjectState
    BY DEF ObjectState
  <2> QED
    BY <1>4, <2>1, BudgetUpdates DEF OutsiderEdits, Drift, TypeOK
<1> QED
  BY <1>1, <1>2, <1>3, <1>4 DEF ObjectStep

\* and so does a restart.
LEMMA TypingRestart ==
    ASSUME TypeOK, Restart
    PROVE  TypeOK'
<1>1. ASSUME NEW k \in Key
      PROVE  Len(history[k]) \in Nat /\ Len(history[k]) \in 1..Len(history[k])
  <2>1. Len(history[k]) \in Nat \ {0}
    BY CurTyped
  <2> QED
    BY <2>1
<1>2. history' = history /\ seen' = [k \in Key |-> Len(history[k])]
  BY DEF Restart
<1>3. seen' \in [Key -> Nat] /\ \A k \in Key : seen'[k] \in 1..Len(history'[k])
  BY <1>1, <1>2
<1>4. budget' \in Budget
  BY BudgetUpdates DEF Restart, TypeOK
<1>5. queue' \subseteq Key /\ poll' \subseteq Key /\ run' \in [Key -> RunState]
  BY ConstantsTyped DEF Restart
<1> QED
  BY <1>3, <1>4, <1>5 DEF Restart, TypeOK

\* The types hold at first,
LEMMA TypingInit == Init => TypeOK
BY ConstantsTyped, BoundAssumption DEF Init, TypeOK, Budget

\* and every step keeps them.
LEMMA TypingNext == TypeOK /\ [Next]_vars => TypeOK'
<1> SUFFICES ASSUME TypeOK, [Next]_vars PROVE TypeOK'
  OBVIOUS
<1>1. CASE UNCHANGED vars
  BY <1>1 DEF vars, TypeOK
<1> QED
  BY <1>1, TypingKeyStep, TypingObjectStep, TypingRestart DEF Next

\* Every variable keeps its type, and the informer cache always holds some
\* version the API server has stored.
THEOREM Typing == Spec => []TypeOK
BY TypingInit, TypingNext, PTL DEF Spec

(***************************************************************************)
(* The inductive invariant.                                                *)
(***************************************************************************)
\* The branch Reconcile takes, in terms of finalizer and deletion mark.
LEMMA BranchFacts ==
    ASSUME NEW s \in Snapshot
    PROVE  /\ Branch(s) = "getTarget" <=> s.present /\ s.fin /\ ~s.deleting
           /\ Branch(s) = "deleteTarget" <=> s.present /\ s.fin /\ s.deleting
           /\ Branch(s) = "addFinalizer" <=> s.present /\ ~s.fin /\ ~s.deleting
           /\ Branch(s) \in {"idle", "addFinalizer", "getTarget", "deleteTarget"}
BY DEF Branch

\* What a new version of k changes, and what it leaves alone.
LEMMA AppendFacts ==
    ASSUME TypeOK, NEW k \in Key, NEW s \in Snapshot,
           history' = [history EXCEPT ![k] = Append(@, s)]
    PROVE  /\ Cur(k)' = s
           /\ Len(history'[k]) = Len(history[k]) + 1
           /\ history'[k][Len(history[k]) + 1] = s
           /\ \A i \in 1..Len(history[k]) : history'[k][i] = history[k][i]
           /\ \A j \in Key : j # k => history'[j] = history[j] /\ Cur(j)' = Cur(j)
<1>1. history[k] \in Seq(Snapshot) /\ history'[k] = Append(history[k], s)
  BY DEF TypeOK
<1>2. Len(history'[k]) = Len(history[k]) + 1 /\ history'[k][Len(history[k]) + 1] = s
  BY <1>1
<1>3. \A i \in 1..Len(history[k]) : history'[k][i] = history[k][i]
  BY <1>1
<1>4. \A j \in Key : j # k => history'[j] = history[j]
  BY DEF TypeOK
<1> QED
  BY <1>2, <1>3, <1>4 DEF Cur

\* A new version of k that neither adds nor removes the finalizer, and does
\* not take a deletion back.
Keeps(k, s) ==
    /\ s.fin \/ s.deleting => s.present
    /\ s.fin <=> Cur(k).fin
    /\ Cur(k).fin /\ Cur(k).deleting => s.deleting

\* What a step may do to the Reconcile calls while others write: nothing, or
\* end that of k.
Ends(k) == run' = run \/ run' = [run EXCEPT ![k] = Idle]

\* A call that is in progress after such a step was in progress before it.
LEMMA EndsFacts ==
    ASSUME TypeOK, NEW k \in Key, Ends(k)
    PROVE  \A j \in Key : run'[j].pc # "idle" => run'[j] = run[j]
BY DEF TypeOK, Ends, Idle

\* Such a version, written by anyone, keeps the inductive invariant.
LEMMA KeepsPreserves ==
    ASSUME NEW S, InvBut(S), TypeOK', NEW k \in Key, NEW s \in Snapshot, Keeps(k, s),
           history' = [history EXCEPT ![k] = Append(@, s)],
           seen' = seen, objects' = objects, Ends(k)
    PROVE  InvBut(S)'
<1> USE AppendFacts, EndsFacts DEF InvBut, CoreInv
<1>1. WellFormed'
  BY DEF WellFormed, Keeps
<1>2. OnPath'
  <2> SUFFICES ASSUME NEW j \in Key, run'[j].pc # "idle"
               PROVE  run'[j] = run[j] /\ run[j].rv \in 1..seen[j] /\ Read(j)' = Read(j)
    BY DEF OnPath
  <2>1. run'[j] = run[j] /\ run[j].rv \in 1..seen[j]
    BY DEF OnPath
  <2>2. run[j].rv \in 1..Len(history[j])
    BY <2>1, CurTyped
  <2> QED
    BY <2>1, <2>2 DEF Read
<1>3. ASSUME NEW i \in seen[k]..Len(history'[k])
      PROVE  /\ Branch(history'[k][i]) = "getTarget" => s.fin
             /\ Branch(history'[k][i]) = "deleteTarget" /\ s.fin => s.deleting
  <2>1. CASE i = Len(history[k]) + 1
    BY <2>1, BranchFacts
  <2>2. CASE i # Len(history[k]) + 1
    <3>1. i \in seen[k]..Len(history[k]) /\ i \in 1..Len(history[k])
      BY <2>2, CurTyped
    <3>2. history'[k][i] = history[k][i]
      BY <3>1
    <3> QED
      BY <3>1, <3>2 DEF CacheGuarded, CacheDoomed, Keeps
  <2> QED
    BY <2>1, <2>2
<1>4. CacheGuarded' /\ CacheDoomed'
  <2> SUFFICES ASSUME NEW j \in Key, NEW i \in seen'[j]..Len(history'[j])
               PROVE  /\ Branch(history'[j][i]) = "getTarget" => Cur(j)'.fin
                      /\ Branch(history'[j][i]) = "deleteTarget" /\ Cur(j)'.fin
                           => Cur(j)'.deleting
    BY DEF CacheGuarded, CacheDoomed
  <2>1. CASE j = k
    BY <2>1, <1>3
  <2>2. CASE j # k
    <3>1. history'[j] = history[j] /\ Cur(j)' = Cur(j) /\ seen'[j] = seen[j]
      BY <2>2
    <3>2. i \in seen[j]..Len(history[j])
      BY <3>1
    <3>3. /\ Branch(history[j][i]) = "getTarget" => Cur(j).fin
          /\ Branch(history[j][i]) = "deleteTarget" /\ Cur(j).fin => Cur(j).deleting
      BY <3>2 DEF CacheGuarded, CacheDoomed
    <3> QED
      BY <3>1, <3>3
  <2> QED
    BY <2>1, <2>2
<1>5. RunGuarded'
  <2> SUFFICES ASSUME NEW j \in Key
               PROVE  /\ run'[j].pc \in NormalPc => Cur(j)'.fin
                      /\ run'[j].pc \in DeletePc /\ Cur(j)'.fin => Cur(j)'.deleting
    BY DEF RunGuarded
  <2>1. run'[j].pc \in NormalPc \cup DeletePc => run'[j] = run[j]
    BY DEF NormalPc, DeletePc
  <2>2. CASE j = k
    BY <2>1, <2>2 DEF RunGuarded, Keeps
  <2>3. CASE j # k
    BY <2>1, <2>3 DEF RunGuarded
  <2> QED
    BY <2>2, <2>3
<1>6. OwnedInPlace'
  BY DEF OwnedInPlace
<1>7. CleanedBut(S)'
  BY DEF CleanedBut, Owns
<1>8. NoOrphanBut(S)'
  <2>1. \A o \in Object : objects[o].phase = "live" => objects[o].owner \in Key
    BY DEF OwnedInPlace
  <2>2. \A j \in Key : Cur(j).fin => Cur(j)'.fin
    BY DEF Keeps
  <2> QED
    BY <2>1, <2>2 DEF NoOrphanBut
<1>9. Indexed'
  BY DEF Indexed
<1> QED
  BY <1>1, <1>2, <1>4, <1>5, <1>6, <1>7, <1>8, <1>9

\* A call that holds the current resourceVersion has read the current CR, and
\* so has the cache.
LEMMA FreshFacts ==
    ASSUME CoreInv, NEW k \in Key, run[k].pc # "idle", Fresh(k)
    PROVE  /\ Read(k) = Cur(k)
           /\ seen[k] = Len(history[k])
<1>1. run[k].rv \in 1..seen[k] /\ run[k].rv = Len(history[k])
  BY DEF CoreInv, OnPath, Fresh
<1>2. seen[k] \in 1..Len(history[k]) /\ Len(history[k]) \in Nat
  BY CurTyped DEF CoreInv
<1> QED
  BY <1>1, <1>2 DEF Read, Cur

\* A write by a Reconcile call that has seen the latest version leaves only
\* that version and the new one for the cache to show.
LEMMA FreshWritePreserves ==
    ASSUME NEW S, InvBut(S), TypeOK', NEW k \in Key, NEW s \in Snapshot,
           history' = [history EXCEPT ![k] = Append(@, s)],
           seen' = seen, objects' = objects,
           Ends(k), seen[k] = Len(history[k]),
           run'[k].pc \in NormalPc => s.fin,
           run'[k].pc \in DeletePc /\ s.fin => s.deleting,
           s.fin \/ s.deleting => s.present,
           Branch(Cur(k)) = "getTarget" => s.fin,
           Branch(Cur(k)) = "deleteTarget" /\ s.fin => s.deleting,
           s.fin \/ \A o \in Object : Owns(k, o) => <<o, k>> \in S
    PROVE  InvBut(S)'
<1> USE AppendFacts, EndsFacts DEF InvBut, CoreInv
<1>0. \A j \in Key : /\ run'[j].pc # "idle" => run'[j] = run[j]
                    /\ seen'[j] = seen[j]
  OBVIOUS
<1>1. WellFormed'
  BY DEF WellFormed
<1>2. OnPath'
  <2> SUFFICES ASSUME NEW j \in Key, run'[j].pc # "idle"
               PROVE  run'[j] = run[j] /\ run[j].rv \in 1..seen[j] /\ Read(j)' = Read(j)
    BY <1>0 DEF OnPath
  <2>1. run'[j] = run[j] /\ run[j].rv \in 1..seen[j]
    BY <1>0 DEF OnPath
  <2>2. run[j].rv \in 1..Len(history[j])
    BY <2>1, CurTyped
  <2> QED
    BY <2>1, <2>2 DEF Read
<1>3. ASSUME NEW i \in seen[k]..Len(history'[k])
      PROVE  /\ Branch(history'[k][i]) = "getTarget" => s.fin
             /\ Branch(history'[k][i]) = "deleteTarget" /\ s.fin => s.deleting
  <2>1. CASE i = Len(history[k]) + 1
    BY <2>1, BranchFacts
  <2>2. CASE i = Len(history[k])
    <3>1. history'[k][i] = Cur(k)
      BY <2>2, CurTyped DEF Cur
    <3> QED
      BY <3>1
  <2> QED
    BY <2>1, <2>2, CurTyped
<1>4. CacheGuarded' /\ CacheDoomed'
  <2> SUFFICES ASSUME NEW j \in Key, NEW i \in seen'[j]..Len(history'[j])
               PROVE  /\ Branch(history'[j][i]) = "getTarget" => Cur(j)'.fin
                      /\ Branch(history'[j][i]) = "deleteTarget" /\ Cur(j)'.fin
                           => Cur(j)'.deleting
    BY DEF CacheGuarded, CacheDoomed
  <2>1. CASE j = k
    <3>1. Cur(k)' = s /\ i \in seen[k]..Len(history'[k])
      BY <2>1
    <3>2. /\ Branch(history'[k][i]) = "getTarget" => s.fin
          /\ Branch(history'[k][i]) = "deleteTarget" /\ s.fin => s.deleting
      BY <3>1, <1>3
    <3> QED
      BY <2>1, <3>1, <3>2
  <2>2. CASE j # k
    <3>1. history'[j] = history[j] /\ Cur(j)' = Cur(j) /\ seen'[j] = seen[j]
      BY <2>2
    <3>2. i \in seen[j]..Len(history[j])
      BY <3>1
    <3>3. /\ Branch(history[j][i]) = "getTarget" => Cur(j).fin
          /\ Branch(history[j][i]) = "deleteTarget" /\ Cur(j).fin => Cur(j).deleting
      BY <3>2 DEF CacheGuarded, CacheDoomed
    <3> QED
      BY <3>1, <3>3
  <2> QED
    BY <2>1, <2>2
<1>5. RunGuarded'
  <2>1. \A j \in Key : run'[j].pc \in NormalPc \cup DeletePc /\ j # k =>
            run'[j] = run[j] /\ Cur(j)' = Cur(j)
    BY <1>0 DEF NormalPc, DeletePc
  <2> QED
    BY <2>1 DEF RunGuarded
<1>6. OwnedInPlace'
  BY DEF OwnedInPlace
<1>7. CleanedBut(S)'
  BY <1>0 DEF CleanedBut, Owns
<1>8. NoOrphanBut(S)'
  <2> SUFFICES ASSUME NEW o \in Object, objects[o].phase = "live"
               PROVE  \/ Cur(objects[o].owner)'.fin
                      \/ <<o, objects[o].owner>> \in S
    BY DEF NoOrphanBut
  <2>1. /\ objects[o].owner \in Key
        /\ Cur(objects[o].owner).fin \/ <<o, objects[o].owner>> \in S
    BY DEF NoOrphanBut, OwnedInPlace
  <2>2. CASE objects[o].owner = k
    BY <2>1, <2>2 DEF Owns
  <2>3. CASE objects[o].owner # k
    BY <2>1, <2>3
  <2> QED
    BY <2>2, <2>3, <2>1
<1>9. Indexed'
  BY <1>0 DEF Indexed
<1> QED
  BY <1>1, <1>2, <1>4, <1>5, <1>6, <1>7, <1>8, <1>9

\* What one step may do to a foreign object: take it away, leave it to whom
\* it belongs, or give it to k, which has the finalizer.
ObjectChange(k, o) ==
    \/ objects'[o].phase = "absent"
    \/ /\ objects[o].phase # "absent"
       /\ objects'[o].owner = objects[o].owner
       /\ objects'[o].phase \in {objects[o].phase, "terminating"}
    \/ /\ k \in Key /\ Cur(k).fin
       /\ objects'[o].owner = k
       /\ o = Target[k] \/ o \in Range(Extra[k])

\* Such changes of the objects keep them owned and not orphaned.
LEMMA ObjectFacts ==
    ASSUME NEW S, InvBut(S), history' = history, NEW k, \A o \in Object : ObjectChange(k, o)
    PROVE  /\ OwnedInPlace'
           /\ NoOrphanBut(S)'
           /\ \A j \in Key, o \in Object : j # k /\ Owns(j, o)' => Owns(j, o)
<1>1. OwnedInPlace'
  BY DEF InvBut, CoreInv, ObjectChange, OwnedInPlace
<1>2. NoOrphanBut(S)'
  BY DEF InvBut, CoreInv, ObjectChange, NoOrphanBut, Cur
<1>3. \A j \in Key, o \in Object : j # k /\ Owns(j, o)' => Owns(j, o)
  BY DEF ObjectChange, Owns
<1> QED
  BY <1>1, <1>2, <1>3

\* The deletion path goes through objects.
LEMMA PassedObjects ==
    ASSUME NEW k \in Key, NEW n
    PROVE  Passed(k, n) \subseteq Object
BY ObjectAssumption DEF Passed

\* At its end it has been through all objects of the CR.
LEMMA AllPassed ==
    ASSUME NEW k \in Key, NEW n \in Nat, n > Len(Extra[k])
    PROVE  Passed(k, n) = {Target[k]} \cup Range(Extra[k])
<1>1. Len(Extra[k]) \in Nat /\ DOMAIN Extra[k] = 1..Len(Extra[k])
  BY ObjectAssumption
<1>2. {i \in 1..Len(Extra[k]) : i < n} = DOMAIN Extra[k]
  BY <1>1
<1> QED
  BY <1>2 DEF Passed, Range

\* A step that writes no CR: the Reconcile call of k moves on to run'[k].
LEMMA CallPreserves ==
    ASSUME NEW S, InvBut(S), TypeOK', NEW k \in Key,
           history' = history, seen' = seen,
           \A o \in Object : ObjectChange(k, o),
           \A j \in Key : j # k => run'[j] = run[j],
           run'[k].pc # "idle" =>
               /\ run'[k].rv \in 1..seen[k]
               /\ \/ run'[k].pc = Branch(history[k][run'[k].rv])
                  \/ run'[k].pc \in NormalPc
                     /\ Branch(history[k][run'[k].rv]) = "getTarget"
                  \/ run'[k].pc \in DeletePc
                     /\ Branch(history[k][run'[k].rv]) = "deleteTarget",
           run'[k].pc \in {"extras", "deleteExtras"} => run'[k].idx >= 1,
           run'[k].pc \in NormalPc => Cur(k).fin,
           run'[k].pc \in DeletePc /\ Cur(k).fin => Cur(k).deleting,
           run'[k].pc = "deleteExtras" =>
               \A o \in Passed(k, run'[k].idx) : Owns(k, o)' => <<o, k>> \in S
    PROVE  InvBut(S)'
<1>1. WellFormed' /\ CacheGuarded' /\ CacheDoomed'
  BY DEF InvBut, CoreInv, WellFormed, CacheGuarded, CacheDoomed, Cur
<1>2. OnPath'
  <2> SUFFICES ASSUME NEW j \in Key, run'[j].pc # "idle"
               PROVE  /\ run'[j].rv \in 1..seen'[j]
                      /\ \/ run'[j].pc = Branch(history'[j][run'[j].rv])
                         \/ /\ run'[j].pc \in NormalPc
                            /\ Branch(history'[j][run'[j].rv]) = "getTarget"
                         \/ /\ run'[j].pc \in DeletePc
                            /\ Branch(history'[j][run'[j].rv]) = "deleteTarget"
    BY DEF OnPath, Read
  <2>1. CASE j = k
    BY <2>1
  <2>2. CASE j # k
    BY <2>2 DEF InvBut, CoreInv, OnPath, Read
  <2> QED
    BY <2>1, <2>2
<1>3. RunGuarded'
  BY DEF InvBut, CoreInv, RunGuarded, Cur
<1>4. CleanedBut(S)'
  <2> SUFFICES ASSUME NEW j \in Key, run'[j].pc = "deleteExtras",
                      NEW o \in Passed(j, run'[j].idx), Owns(j, o)'
               PROVE  <<o, j>> \in S
    BY DEF CleanedBut
  <2>1. CASE j = k
    BY <2>1
  <2>2. CASE j # k
    BY <2>2, ObjectFacts, PassedObjects DEF InvBut, CoreInv, CleanedBut
  <2> QED
    BY <2>1, <2>2
<1>5. Indexed'
  BY DEF InvBut, CoreInv, Indexed
<1> QED
  BY <1>1, <1>2, <1>3, <1>4, <1>5, ObjectFacts DEF InvBut, CoreInv

\* What adding and removing the finalizer do to the marks of a CR.
LEMMA WriteBackFacts ==
    ASSUME NEW s \in Snapshot
    PROVE  /\ WriteBack(s, TRUE).present = s.present
           /\ WriteBack(s, TRUE).fin = TRUE
           /\ WriteBack(s, TRUE).deleting = s.deleting
           /\ WriteBack(s, FALSE).fin = FALSE
           /\ s.present /\ WriteBack(s, FALSE).deleting
                => WriteBack(s, FALSE).present
BY DEF WriteBack, Settle, Snapshot, Gone

\* Settling touches no CR that has the finalizer.
LEMMA SettleFacts ==
    ASSUME NEW s \in Snapshot, s.present
    PROVE  /\ Settle(s).fin \/ Settle(s).deleting => Settle(s).present
           /\ Settle(s).fin <=> s.fin
           /\ s.fin => Settle(s) = s
BY DEF Settle, Gone, Snapshot

\* A write stores a new version or changes nothing.
LEMMA StoreCases ==
    ASSUME NEW k, NEW s, Store(k, s), TypeOK
    PROVE  \/ history' = [history EXCEPT ![k] = Append(@, s)]
           \/ history' = history /\ s = Cur(k)
BY DEF Store, TypeOK

\* Leaving the objects alone is a change of that kind.
LEMMA UnchangedObjects ==
    ASSUME TypeOK, objects' = objects, NEW k
    PROVE  \A o \in Object : ObjectChange(k, o)
BY DEF ObjectChange, TypeOK, ObjectState

\* However a call ends, it leaves its key idle.
LEMMA RequeueEnds ==
    ASSUME NEW k, Requeue(k) \/ LoseResponse(k) \/ Continue(k, Idle)
    PROVE  run' = [run EXCEPT ![k] = Idle]
BY DEF Requeue, LoseResponse, Continue

\* Deleting an object is one too, and it is not live afterwards.
LEMMA DeleteChange ==
    ASSUME TypeOK, NEW o \in Object, DeleteObject(o), NEW k
    PROVE  /\ \A x \in Object : ObjectChange(k, x)
           /\ objects'[o].phase # "live"
           /\ \A j \in Key, x \in Object : Owns(j, x)' => Owns(j, x)
<1>1. \A x \in Object : x # o => objects'[x] = objects[x]
  BY DEF TypeOK, DeleteObject
<1>2. objects \in [Object -> ObjectState]
  BY DEF TypeOK
<1>3. \/ objects'[o] = Absent
      \/ /\ objects[o].phase # "absent"
         /\ objects'[o] = [objects[o] EXCEPT !.phase = "terminating"]
  BY <1>2 DEF DeleteObject
<1>4. \/ objects'[o].phase = "absent"
      \/ /\ objects[o].phase # "absent"
         /\ objects'[o].phase = "terminating"
         /\ objects'[o].owner = objects[o].owner
  BY <1>2, <1>3 DEF Absent, ObjectState
<1>5. \A x \in Object : ObjectChange(k, x)
  BY <1>1, <1>2, <1>4 DEF ObjectChange, ObjectState
<1> QED
  BY <1>1, <1>4, <1>5 DEF Owns

\* And so is applying one for a CR that has the finalizer.
LEMMA ApplyChange ==
    ASSUME TypeOK, NEW k \in Key, Cur(k).fin, NEW o \in Object,
           o = Target[k] \/ o \in Range(Extra[k]),
           objects' = [objects EXCEPT ![o] = Applied(o, k)]
    PROVE  \A x \in Object : ObjectChange(k, x)
BY DEF TypeOK, ObjectState, ObjectChange, Applied

\* What a call in progress may rely on.
LEMMA PathFacts ==
    ASSUME CoreInv, NEW k \in Key, run[k].pc # "idle"
    PROVE  /\ run[k].rv \in 1..seen[k]
           /\ Read(k) \in Snapshot
           /\ run[k].pc \in NormalPc => Branch(Read(k)) = "getTarget" /\ Cur(k).fin
           /\ run[k].pc \in DeletePc =>
                /\ Branch(Read(k)) = "deleteTarget"
                /\ Cur(k).fin => Cur(k).deleting
           /\ run[k].pc = "addFinalizer" => Branch(Read(k)) = "addFinalizer"
<1>1. run[k].rv \in 1..seen[k]
  BY DEF CoreInv, OnPath
<1>2. Read(k) \in Snapshot
  BY <1>1 DEF CoreInv, TypeOK, Read
<1>3. Branch(Read(k)) \in {"idle", "addFinalizer", "getTarget", "deleteTarget"}
  BY <1>2, BranchFacts
<1> QED
  BY <1>1, <1>2, <1>3 DEF CoreInv, OnPath, RunGuarded, NormalPc, DeletePc

\* A Reconcile call goes on with r, or ends for want of an answer.
LEMMA ControlFacts ==
    ASSUME TypeOK, NEW k \in Key, NEW r, Continue(k, r) \/ LoseResponse(k)
    PROVE  /\ \A j \in Key : j # k => run'[j] = run[j]
           /\ run'[k] = r \/ run'[k].pc = "idle"
BY DEF TypeOK, Continue, LoseResponse, Requeue, Idle

\* Every step for a key keeps the inductive invariant,
LEMMA InvKeyStep ==
    ASSUME NEW S, InvBut(S), NEW k \in Key, KeyStep(k), TypeOK'
    PROVE  InvBut(S)'
<1> USE CurTyped DEF InvBut, CoreInv
<1>0. ASSUME history' = history, seen' = seen, objects' = objects,
             run' = [run EXCEPT ![k] = Idle]
      PROVE  InvBut(S)'
  <2>1. run'[k] = Idle /\ \A j \in Key : j # k => run'[j] = run[j]
    BY <1>0 DEF TypeOK
  <2>2. run'[k].pc = "idle"
    BY <2>1 DEF Idle
  <2> QED
    BY <1>0, <2>1, <2>2, UnchangedObjects, CallPreserves DEF NormalPc, DeletePc
<1>0b. ASSUME run' = [run EXCEPT ![k] = Idle]
       PROVE  Ends(k) /\ run'[k].pc \notin NormalPc /\ run'[k].pc \notin DeletePc
  BY <1>0b DEF TypeOK, Ends, Idle, NormalPc, DeletePc
<1>1. CASE Begin(k)
  <2>1. \A j \in Key : j # k => run'[j] = run[j]
    BY <1>1 DEF Begin, TypeOK
  <2>2. CASE Branch(Cached(k)) = "idle"
    BY <1>0, <1>1, <2>2 DEF Begin
  <2>3. CASE Branch(Cached(k)) # "idle"
    <3>1. run'[k].pc = Branch(Cached(k)) /\ run'[k].rv = seen[k]
      BY <1>1, <2>3 DEF Begin, TypeOK, Idle
    <3>2. /\ Branch(Cached(k)) = "getTarget" => Cur(k).fin
          /\ Branch(Cached(k)) = "deleteTarget" /\ Cur(k).fin => Cur(k).deleting
      BY DEF CacheGuarded, CacheDoomed, Cached
    <3>3. Branch(Cached(k)) \in {"idle", "addFinalizer", "getTarget", "deleteTarget"}
      BY BranchFacts
    <3>4. seen[k] \in 1..seen[k]
      OBVIOUS
    <3>5. history' = history /\ seen' = seen /\ objects' = objects
      BY <1>1 DEF Begin
    <3> QED
      BY <2>1, <3>1, <3>2, <3>3, <3>4, <3>5, UnchangedObjects, CallPreserves
      DEF NormalPc, DeletePc, Cached
  <2> QED
    BY <2>2, <2>3
<1>2. CASE AddFinalizer(k)
  <2>1. run' = [run EXCEPT ![k] = Idle] /\ seen' = seen /\ objects' = objects
    BY <1>2, RequeueEnds DEF AddFinalizer
  <2>2. CASE ~Fresh(k)
    BY <1>0, <1>2, <2>1, <2>2 DEF AddFinalizer
  <2>3. CASE Fresh(k)
    <3> DEFINE s == WriteBack(Read(k), TRUE)
    <3>1. Read(k) = Cur(k) /\ seen[k] = Len(history[k])
      BY <1>2, <2>3, FreshFacts DEF AddFinalizer
    <3>2. Branch(Cur(k)) = "addFinalizer"
      BY <1>2, <3>1 DEF AddFinalizer, OnPath, NormalPc, DeletePc
    <3>3. Cur(k).present /\ ~Cur(k).fin /\ ~Cur(k).deleting
      BY <3>2, BranchFacts
    <3>4. s \in Snapshot /\ s.fin /\ s.present /\ ~s.deleting
      <4>1. Cur(k) \in Snapshot /\ TRUE \in BOOLEAN
        OBVIOUS
      <4>2. s \in Snapshot
        BY <3>1, <4>1, WriteBackTyped
      <4>3. s.fin = TRUE /\ s.present = Cur(k).present /\ s.deleting = Cur(k).deleting
        BY <3>1, <4>1, WriteBackFacts
      <4> QED
        BY <3>3, <4>2, <4>3
    <3>5. Store(k, s)
      BY <1>2, <2>3 DEF AddFinalizer
    <3> HIDE DEF s
    <3>6. history' = [history EXCEPT ![k] = Append(@, s)]
      BY <3>3, <3>4, <3>5, StoreCases
    <3> QED
      BY <1>0b, <2>1, <3>1, <3>2, <3>4, <3>6, FreshWritePreserves
  <2> QED
    BY <2>2, <2>3
<1>3. CASE GetTarget(k)
  <2>1. /\ run'[k].pc = "apply" /\ run'[k].rv = run[k].rv
        /\ \A j \in Key : j # k => run'[j] = run[j]
    BY <1>3 DEF GetTarget, Continue, TypeOK, RunState
  <2>2. run[k].pc = "getTarget" /\ run[k].rv \in 1..seen[k] /\ Branch(Read(k)) = "getTarget"
    BY <1>3 DEF GetTarget, OnPath, DeletePc
  <2>3. Cur(k).fin
    BY <2>2 DEF RunGuarded, NormalPc
  <2>4. history' = history /\ seen' = seen /\ objects' = objects
    BY <1>3 DEF GetTarget
  <2> QED
    BY <2>1, <2>2, <2>3, <2>4, UnchangedObjects, CallPreserves
    DEF NormalPc, DeletePc, Read
<1>4. CASE Apply(k)
  <2>1. run[k].pc = "apply" /\ run[k].rv \in 1..seen[k] /\ Branch(Read(k)) = "getTarget"
    BY <1>4, PathFacts DEF Apply, NormalPc
  <2>2. Cur(k).fin /\ Target[k] \in Object
    BY <2>1, PathFacts, ObjectAssumption DEF NormalPc
  <2>3. \A o \in Object : ObjectChange(k, o)
    BY <1>4, <2>2, ApplyChange DEF Apply
  <2>4. /\ \A j \in Key : j # k => run'[j] = run[j]
        /\ \/ run'[k].pc = "extras" /\ run'[k].rv = run[k].rv /\ run'[k].idx = 1
           \/ run'[k].pc = "idle"
    <3> DEFINE r == [run[k] EXCEPT !.pc = "extras", !.idx = 1,
                       !.ready = objects[Target[k]].ready]
    <3>1. r.pc = "extras" /\ r.rv = run[k].rv /\ r.idx = 1
      BY DEF RunState
    <3>2. Continue(k, r) \/ LoseResponse(k)
      BY <1>4 DEF Apply
    <3> HIDE DEF r
    <3> QED
      BY <3>1, <3>2, ControlFacts
  <2>5. history' = history /\ seen' = seen
    BY <1>4 DEF Apply
  <2> QED
    BY <2>1, <2>2, <2>3, <2>4, <2>5, CallPreserves DEF NormalPc, DeletePc, Read
<1>5. CASE ApplyExtra(k)
  <2> DEFINE o == Extra[k][run[k].idx]
  <2>1. run[k].pc = "extras" /\ run[k].rv \in 1..seen[k] /\ Branch(Read(k)) = "getTarget"
    BY <1>5, PathFacts DEF ApplyExtra, NormalPc
  <2>2. Cur(k).fin
    BY <2>1, PathFacts DEF NormalPc
  <2>3. run[k].idx \in 1..Len(Extra[k])
    BY <1>5, <2>1, ObjectAssumption DEF ApplyExtra, Indexed, RunState
  <2>4. o \in Object /\ o \in Range(Extra[k])
    BY <2>3, ObjectAssumption DEF Range
  <2>5. \A x \in Object : ObjectChange(k, x)
    BY <1>5, <2>2, <2>4, ApplyChange, DeleteChange DEF ApplyExtra
  <2>6. /\ \A j \in Key : j # k => run'[j] = run[j]
        /\ \/ run'[k].pc = "extras" /\ run'[k].rv = run[k].rv /\ run'[k].idx >= 1
           \/ run'[k].pc = "idle"
    <3> DEFINE r == [run[k] EXCEPT !.idx = @ + 1]
    <3>1. r.pc = "extras" /\ r.rv = run[k].rv /\ r.idx >= 1
      BY <2>1, <2>3 DEF RunState
    <3>2. Continue(k, r) \/ LoseResponse(k)
      BY <1>5 DEF ApplyExtra
    <3> HIDE DEF r
    <3> QED
      BY <3>1, <3>2, ControlFacts
  <2>7. history' = history /\ seen' = seen
    BY <1>5 DEF ApplyExtra
  <2> QED
    BY <2>1, <2>2, <2>5, <2>6, <2>7, CallPreserves DEF NormalPc, DeletePc, Read
<1>6. CASE UpdateStatus(k)
  <2>1. run' = [run EXCEPT ![k] = Idle] /\ seen' = seen /\ objects' = objects
    BY <1>6, RequeueEnds DEF UpdateStatus
  <2>2. CASE history' = history
    BY <1>0, <2>1, <2>2
  <2>3. CASE history' # history
    <3> DEFINE s == [Read(k) EXCEPT
                       !.status = [gen |-> Read(k).gen, ready |-> run[k].ready]]
    <3>1. Fresh(k) /\ Store(k, s) /\ run[k].pc = "extras"
      BY <1>6, <2>3 DEF UpdateStatus
    <3>2. Read(k) = Cur(k)
      BY <3>1, FreshFacts
    <3>3. s \in Snapshot
      BY <3>2 DEF Snapshot, Status, RunState
    <3>4. s.present = Cur(k).present /\ s.fin = Cur(k).fin /\ s.deleting = Cur(k).deleting
      BY <3>2 DEF Snapshot
    <3> HIDE DEF s
    <3>5. history' = [history EXCEPT ![k] = Append(@, s)]
      BY <2>3, <3>1, StoreCases
    <3>6. Keeps(k, s)
      BY <3>4 DEF Keeps, WellFormed, Cur
    <3> QED
      BY <2>1, <3>3, <3>5, <3>6, KeepsPreserves DEF Ends
  <2> QED
    BY <2>2, <2>3
<1>7. CASE DeleteTarget(k)
  <2>1. /\ run[k].pc = "deleteTarget" /\ run[k].rv \in 1..seen[k]
        /\ Branch(Read(k)) = "deleteTarget"
        /\ Cur(k).fin => Cur(k).deleting
    BY <1>7, PathFacts DEF DeleteTarget, DeletePc
  <2>2. /\ \A x \in Object : ObjectChange(k, x)
        /\ objects'[Target[k]].phase # "live"
    BY <1>7, ObjectAssumption, DeleteChange DEF DeleteTarget
  <2>3. /\ \A j \in Key : j # k => run'[j] = run[j]
        /\ \/ run'[k].pc = "deleteExtras" /\ run'[k].rv = run[k].rv /\ run'[k].idx = 1
           \/ run'[k].pc = "idle"
    <3> DEFINE r == [run[k] EXCEPT !.pc = "deleteExtras", !.idx = 1]
    <3>1. r.pc = "deleteExtras" /\ r.rv = run[k].rv /\ r.idx = 1
      BY DEF RunState
    <3>2. Continue(k, r) \/ LoseResponse(k)
      BY <1>7 DEF DeleteTarget
    <3> HIDE DEF r
    <3> QED
      BY <3>1, <3>2, ControlFacts
  <2>4. Passed(k, 1) = {Target[k]}
    BY ObjectAssumption DEF Passed
  <2>5. history' = history /\ seen' = seen
    BY <1>7 DEF DeleteTarget
  <2>6. \A o \in Passed(k, 1) : Owns(k, o)' => <<o, k>> \in S
    BY <2>2, <2>4 DEF Owns
  <2> QED
    BY <2>1, <2>2, <2>3, <2>5, <2>6, CallPreserves DEF NormalPc, DeletePc, Read
<1>8. CASE DeleteExtra(k)
  <2> DEFINE n == run[k].idx
             o == Extra[k][n]
  <2>1. /\ run[k].pc = "deleteExtras" /\ run[k].rv \in 1..seen[k]
        /\ Branch(Read(k)) = "deleteTarget"
        /\ Cur(k).fin => Cur(k).deleting
    BY <1>8, PathFacts DEF DeleteExtra, DeletePc
  <2>2. n \in 1..Len(Extra[k])
    BY <1>8, <2>1, ObjectAssumption DEF DeleteExtra, Indexed, RunState
  <2>3. o \in Object
    BY <2>2, ObjectAssumption
  <2>4. /\ \A x \in Object : ObjectChange(k, x)
        /\ objects'[o].phase # "live"
        /\ \A x \in Object : Owns(k, x)' => Owns(k, x)
    BY <1>8, <2>3, DeleteChange DEF DeleteExtra
  <2>5. /\ \A j \in Key : j # k => run'[j] = run[j]
        /\ \/ run'[k].pc = "deleteExtras" /\ run'[k].rv = run[k].rv /\ run'[k].idx = n + 1
           \/ run'[k].pc = "idle"
    <3> DEFINE r == [run[k] EXCEPT !.idx = @ + 1]
    <3>1. r.pc = "deleteExtras" /\ r.rv = run[k].rv /\ r.idx = n + 1
      BY <2>1 DEF RunState
    <3>2. Continue(k, r) \/ LoseResponse(k)
      BY <1>8 DEF DeleteExtra
    <3> HIDE DEF r
    <3> QED
      BY <3>1, <3>2, ControlFacts
  <2>6. Passed(k, n + 1) = Passed(k, n) \cup {o}
    BY <2>2 DEF Passed
  <2>7. \A x \in Passed(k, n + 1) : Owns(k, x)' => <<x, k>> \in S
    <3>1. \A x \in Passed(k, n) : x \in Object /\ (Owns(k, x) => <<x, k>> \in S)
      <4>1. Passed(k, n) \subseteq Object
        BY PassedObjects
      <4>2. \A x \in Passed(k, n) : Owns(k, x) => <<x, k>> \in S
        BY <2>1 DEF CleanedBut
      <4> QED
        BY <4>1, <4>2
    <3>2. \A x \in Object : x = o => ~Owns(k, x)'
      BY <2>4 DEF Owns
    <3> QED
      BY <2>3, <2>4, <2>6, <3>1, <3>2
  <2>8. history' = history /\ seen' = seen
    BY <1>8 DEF DeleteExtra
  <2>9. n + 1 >= 1
    BY <2>2, ObjectAssumption
  <2> HIDE DEF n, o
  <2> QED
    BY <2>1, <2>4, <2>5, <2>7, <2>8, <2>9, CallPreserves DEF NormalPc, DeletePc, Read
<1>9. CASE RemoveFinalizer(k)
  <2>1. run' = [run EXCEPT ![k] = Idle] /\ seen' = seen /\ objects' = objects
    BY <1>9, RequeueEnds DEF RemoveFinalizer
  <2>2. CASE ~Fresh(k)
    BY <1>0, <1>9, <2>1, <2>2 DEF RemoveFinalizer
  <2>3. CASE Fresh(k)
    <3> DEFINE s == WriteBack(Read(k), FALSE)
    <3>1. run[k].pc = "deleteExtras" /\ run[k].idx > Len(Extra[k]) /\ Store(k, s)
      BY <1>9, <2>3 DEF RemoveFinalizer
    <3>2. Read(k) = Cur(k) /\ seen[k] = Len(history[k])
      BY <2>3, <3>1, FreshFacts
    <3>3. Branch(Cur(k)) = "deleteTarget"
      BY <3>1, <3>2, PathFacts DEF DeletePc
    <3>4. Cur(k).present /\ Cur(k).fin
      BY <3>3, BranchFacts
    <3>5. s \in Snapshot /\ ~s.fin /\ (s.deleting => s.present)
      <4>1. Cur(k) \in Snapshot /\ FALSE \in BOOLEAN
        OBVIOUS
      <4>2. s \in Snapshot
        BY <3>2, <4>1, WriteBackTyped
      <4>3. s.fin = FALSE /\ (Cur(k).present /\ s.deleting => s.present)
        BY <3>2, <4>1, WriteBackFacts
      <4> QED
        BY <3>4, <4>2, <4>3
    <3>6. \A o \in Object : Owns(k, o) => <<o, k>> \in S
      <4>1. Passed(k, run[k].idx) = {Target[k]} \cup Range(Extra[k])
        BY <3>1, AllPassed DEF RunState
      <4>2. \A o \in {Target[k]} \cup Range(Extra[k]) : Owns(k, o) => <<o, k>> \in S
        BY <3>1, <4>1 DEF CleanedBut
      <4> QED
        BY <4>2 DEF OwnedInPlace, Owns
    <3> HIDE DEF s
    <3>7. history' = [history EXCEPT ![k] = Append(@, s)]
      BY <3>1, <3>4, <3>5, StoreCases
    <3> QED
      BY <1>0b, <2>1, <3>2, <3>3, <3>5, <3>6, <3>7, FreshWritePreserves
  <2> QED
    BY <2>2, <2>3
<1>10. CASE FailCall(k)
  BY <1>0, <1>10, RequeueEnds DEF FailCall
<1>11. CASE DeliverEvent(k)
  <2>1. /\ history' = history /\ run' = run /\ objects' = objects
        /\ seen[k] < Len(history[k]) /\ seen' = [seen EXCEPT ![k] = @ + 1]
    BY <1>11 DEF DeliverEvent
  <2>2. \A j \in Key : seen'[j] \in Nat /\ seen[j] \in Nat /\ seen[j] <= seen'[j]
    BY <2>1 DEF TypeOK
  <2>3. /\ WellFormed' /\ Indexed' /\ RunGuarded' /\ OwnedInPlace'
        /\ CleanedBut(S)' /\ NoOrphanBut(S)'
    BY <2>1 DEF WellFormed, Indexed, RunGuarded, OwnedInPlace, CleanedBut, Owns,
                NoOrphanBut, Cur
  <2>4. OnPath'
    BY <2>1, <2>2 DEF OnPath, Read
  <2>5. CacheGuarded' /\ CacheDoomed'
    BY <2>1, <2>2 DEF CacheGuarded, CacheDoomed, Cur
  <2> QED
    BY <2>3, <2>4, <2>5
<1>12. CASE TimerFires(k)
  <2>1. history' = history /\ run' = run /\ objects' = objects /\ seen' = seen
    BY <1>12 DEF TimerFires
  <2> QED
    BY <2>1 DEF WellFormed, OnPath, Indexed, CacheGuarded, CacheDoomed, RunGuarded,
                OwnedInPlace, CleanedBut, Owns, NoOrphanBut, Cur, Read
<1>13. ASSUME NEW s \in Snapshot, UserStep(k, s), Keeps(k, s)
       PROVE  InvBut(S)'
  BY <1>13, KeepsPreserves DEF UserStep, Ends
<1>14. Cur(k).fin \/ Cur(k).deleting => Cur(k).present
  BY DEF WellFormed, Cur
<1>15. Cur(k).gen + 1 \in Nat /\ 1 \in Nat
  BY DEF Snapshot
<1>16. CASE \E spec \in UserSpec : UserCreate(k, spec) \/ UserEdit(k, spec)
  <2>1. PICK spec \in UserSpec : UserCreate(k, spec) \/ UserEdit(k, spec)
    BY <1>16
  <2>2. spec \in CRSpec
    BY BoundAssumption DEF UserSpec, CRSpec
  <2>3. CASE UserCreate(k, spec)
    <3> DEFINE s == [Gone EXCEPT !.present = TRUE, !.spec = spec, !.gen = 1]
    <3>1. s \in Snapshot
      BY <2>2, <1>15, ConstantsTyped, SnapshotUpdates
    <3>2. s.present /\ ~s.fin /\ ~s.deleting
      BY DEF Gone
    <3>3. UserStep(k, s) /\ ~Cur(k).present
      BY <2>3 DEF UserCreate
    <3> HIDE DEF s
    <3> QED
      BY <3>1, <3>2, <3>3, <1>13, <1>14 DEF Keeps
  <2>4. CASE UserEdit(k, spec)
    <3> DEFINE s == [Cur(k) EXCEPT !.spec = spec, !.gen = @ + 1]
    <3>1. s \in Snapshot
      BY <2>2, <1>15, SnapshotUpdates
    <3>2. s.present = Cur(k).present /\ s.fin = Cur(k).fin /\ s.deleting = Cur(k).deleting
      BY DEF Snapshot
    <3>3. UserStep(k, s)
      BY <2>4 DEF UserEdit
    <3> HIDE DEF s
    <3> QED
      BY <3>1, <3>2, <3>3, <1>13, <1>14 DEF Keeps
  <2> QED
    BY <2>1, <2>3, <2>4
<1>17. ASSUME NEW s \in Snapshot, s.present, s.fin = Cur(k).fin,
              Cur(k).deleting => s.deleting
       PROVE  Keeps(k, Settle(s))
  BY <1>17, SettleFacts DEF Keeps
<1>18. CASE \E foreground \in BOOLEAN : UserDelete(k, foreground)
  <2>1. PICK foreground \in BOOLEAN : UserDelete(k, foreground)
    BY <1>18
  <2> DEFINE gen == Cur(k).gen + 1
             s == [Cur(k) EXCEPT !.deleting = TRUE, !.held = foreground, !.gen = gen]
  <2>2. s \in Snapshot
    <3>1. gen \in Nat /\ Cur(k) \in Snapshot
      BY <1>15
    <3> HIDE DEF gen
    <3> QED
      BY <3>1, SnapshotUpdates
  <2>3. s.deleting = TRUE /\ s.present = Cur(k).present /\ s.fin = Cur(k).fin
    BY DEF Snapshot
  <2>4. UserStep(k, Settle(s)) /\ Cur(k).present
    BY <2>1 DEF UserDelete
  <2> HIDE DEF s
  <2> QED
    BY <2>2, <2>3, <2>4, <1>13, <1>17, SettleTyped
<1>19. CASE Unhold(k)
  <2> DEFINE s == [Cur(k) EXCEPT !.held = FALSE]
  <2>1. s \in Snapshot
    BY DEF Snapshot
  <2>2. /\ s.deleting = Cur(k).deleting /\ s.present = Cur(k).present
        /\ s.fin = Cur(k).fin /\ s.held = FALSE
    BY DEF Snapshot
  <2>3. /\ history' = [history EXCEPT ![k] = Append(@, Settle(s))]
        /\ seen' = seen /\ run' = run /\ objects' = objects
    BY <1>19 DEF Unhold
  <2>4. Settle(s) \in Snapshot /\ Keeps(k, Settle(s))
    <3>1. CASE Cur(k).present
      BY <2>1, <2>2, <3>1, <1>17, SettleTyped
    <3>2. CASE ~Cur(k).present
      <4>1. Settle(s) = s
        BY <2>2, <3>2, <1>14 DEF Settle
      <4> HIDE DEF s
      <4> QED
        BY <2>1, <2>2, <4>1, <1>14 DEF Keeps
    <3> QED
      BY <3>1, <3>2
  <2> QED
    BY <2>3, <2>4, KeepsPreserves DEF Ends
<1> QED
  BY <1>1, <1>2, <1>3, <1>4, <1>5, <1>6, <1>7, <1>8, <1>9, <1>10, <1>11,
     <1>12, <1>16, <1>18, <1>19 DEF KeyStep

\* every step of a foreign object does,
LEMMA InvObjectStep ==
    ASSUME NEW S, InvBut(S), NEW o \in Object, ObjectStep(o), TypeOK'
    PROVE  InvBut(S)'
<1>1. history' = history /\ seen' = seen /\ run' = run
  BY DEF ObjectStep, VendorReports, VendorFinishes, OutsiderDeletes,
         OutsiderEdits, Drift
<1>2. objects \in [Object -> ObjectState]
  BY DEF InvBut, CoreInv, TypeOK
<1>3. \A x \in Object : ObjectChange(NoOne, x)
  <2>1. CASE VendorReports(o) \/ OutsiderEdits(o)
    <3>1. objects[o].phase # "absent"
      BY <2>1, <1>2 DEF VendorReports, OutsiderEdits
    <3>2. \A x \in Object : /\ objects'[x].phase = objects[x].phase
                            /\ objects'[x].owner = objects[x].owner
      BY <2>1, <1>2 DEF VendorReports, OutsiderEdits, ObjectState
    <3>3. \A x \in Object : x # o => objects'[x] = objects[x]
      BY <2>1, <1>2 DEF VendorReports, OutsiderEdits
    <3> QED
      BY <3>1, <3>2, <3>3, <1>2 DEF ObjectChange, ObjectState
  <2>2. CASE VendorFinishes(o)
    <3>1. objects'[o].phase = "absent" /\ \A x \in Object : x # o => objects'[x] = objects[x]
      BY <2>2, <1>2 DEF VendorFinishes, Absent
    <3> QED
      BY <3>1, <1>2 DEF ObjectChange, ObjectState
  <2>3. CASE OutsiderDeletes(o)
    BY <2>3, DeleteChange DEF OutsiderDeletes, InvBut, CoreInv
  <2> QED
    BY <2>1, <2>2, <2>3 DEF ObjectStep
<1>4. WellFormed' /\ OnPath' /\ Indexed' /\ CacheGuarded' /\ CacheDoomed' /\ RunGuarded'
  BY <1>1 DEF InvBut, CoreInv, WellFormed, OnPath, Indexed, CacheGuarded, CacheDoomed,
              RunGuarded, Cur, Read
<1>5. \A j \in Key : j # NoOne
  BY OwnerAssumption
<1>6. CleanedBut(S)'
  <2> SUFFICES ASSUME NEW j \in Key, run[j].pc = "deleteExtras",
                      NEW x \in Passed(j, run[j].idx), Owns(j, x)'
               PROVE  <<x, j>> \in S
    BY <1>1 DEF CleanedBut
  <2>1. x \in Object /\ (Owns(j, x) => <<x, j>> \in S)
    BY PassedObjects DEF InvBut, CoreInv, CleanedBut
  <2> QED
    BY <2>1, <1>1, <1>3, <1>5, ObjectFacts
<1> QED
  BY <1>1, <1>3, <1>4, <1>6, ObjectFacts DEF InvBut, CoreInv

\* and so does a restart, after which the cache is current.
LEMMA InvRestart ==
    ASSUME NEW S, InvBut(S), Restart, TypeOK'
    PROVE  InvBut(S)'
<1>1. /\ history' = history /\ objects' = objects
      /\ \A k \in Key : seen'[k] = Len(history[k]) /\ run'[k].pc = "idle"
  BY DEF Restart, Idle
<1>2. WellFormed' /\ OwnedInPlace' /\ NoOrphanBut(S)'
  BY <1>1 DEF InvBut, CoreInv, WellFormed, OwnedInPlace, NoOrphanBut, Cur
<1>3. OnPath' /\ Indexed' /\ RunGuarded' /\ CleanedBut(S)'
  BY <1>1 DEF OnPath, Indexed, RunGuarded, CleanedBut, NormalPc, DeletePc
<1>4. CacheGuarded' /\ CacheDoomed'
  <2> SUFFICES ASSUME NEW k \in Key, NEW i \in seen'[k]..Len(history'[k])
               PROVE  /\ Branch(history'[k][i]) = "getTarget" => Cur(k)'.fin
                      /\ Branch(history'[k][i]) = "deleteTarget" /\ Cur(k)'.fin
                           => Cur(k)'.deleting
    BY DEF CacheGuarded, CacheDoomed
  <2>1. i = Len(history[k])
    BY <1>1, CurTyped DEF InvBut, CoreInv
  <2>2. history'[k][i] = Cur(k) /\ Cur(k)' = Cur(k)
    BY <1>1, <2>1 DEF Cur
  <2> QED
    BY <2>2, BranchFacts, CurTyped DEF InvBut, CoreInv
<1> QED
  BY <1>2, <1>3, <1>4 DEF InvBut, CoreInv

\* The inductive invariant holds at first,
LEMMA IInvInit == Init => IInv
<1> SUFFICES ASSUME Init PROVE IInv
  OBVIOUS
<1>1. /\ \A k \in Key : history[k] = <<Gone>> /\ run[k].pc = "idle"
      /\ \A o \in Object : objects[o] = Absent
  BY DEF Init, Idle
<1>2. \A k \in Key : Len(history[k]) = 1 /\ history[k][1] = Gone
  <2>1. Len(<<Gone>>) = 1 /\ <<Gone>>[1] = Gone
    OBVIOUS
  <2> QED
    BY <1>1, <2>1
<1>3. ~Gone.fin /\ ~Gone.deleting /\ Branch(Gone) = "idle"
  BY DEF Gone, Branch
<1>4. WellFormed /\ CacheGuarded /\ CacheDoomed
  BY <1>2, <1>3 DEF WellFormed, CacheGuarded, CacheDoomed, Init
<1>5. OnPath /\ Indexed /\ RunGuarded /\ Cleaned
  BY <1>1 DEF OnPath, Indexed, RunGuarded, Cleaned, NormalPc, DeletePc
<1>6. OwnedInPlace /\ NoOrphan
  BY <1>1 DEF OwnedInPlace, NoOrphan, Absent
<1> QED
  BY <1>4, <1>5, <1>6, TypingInit DEF IInv, CoreInv

\* every step keeps it, whatever is excused,
LEMMA InvNext ==
    ASSUME NEW S, InvBut(S), [Next]_vars
    PROVE  InvBut(S)'
<1>1. TypeOK'
  BY TypingNext DEF InvBut, CoreInv
<1>2. CASE UNCHANGED vars
  BY <1>2 DEF vars, InvBut, CoreInv, TypeOK, WellFormed, OnPath, Indexed, CacheGuarded,
              CacheDoomed, RunGuarded, OwnedInPlace, CleanedBut, Owns, NoOrphanBut,
              Cur, Read
<1> QED
  BY <1>1, <1>2, InvKeyStep, InvObjectStep, InvRestart DEF Next

\* and nothing needs to be.
LEMMA NothingExcused == IInv <=> InvBut({})
<1>1. Cleaned <=> CleanedBut({})
  BY DEF Cleaned, CleanedBut
<1>2. CoreInv => (NoOrphan <=> NoOrphanBut({}))
  BY DEF CoreInv, OwnedInPlace, NoOrphan, NoOrphanBut
<1> QED
  BY <1>1, <1>2 DEF IInv, InvBut

LEMMA IInvNext == IInv /\ [Next]_vars => IInv'
<1> SUFFICES ASSUME IInv, [Next]_vars PROVE IInv'
  OBVIOUS
<1>1. InvBut({})'
  BY NothingExcused, InvNext
<1>2. Cleaned' <=> CleanedBut({})'
  BY DEF Cleaned, CleanedBut
<1>3. CoreInv' => (NoOrphan' <=> NoOrphanBut({})')
  BY DEF CoreInv, OwnedInPlace, NoOrphan, NoOrphanBut
<1> QED
  BY <1>1, <1>2, <1>3 DEF IInv, InvBut

\* The inductive invariant holds throughout: whatever the cache, a watch event
\* on its way or a call in progress shows of a CR, a finalizer seen without a
\* deletion mark is still there (reconciler.go:147-199).
THEOREM Inductive == Spec => []IInv
BY IInvInit, IInvNext, PTL DEF Spec

\* Nothing is orphaned: a live foreign object always belongs to a CR that
\* still carries the cleanup finalizer. For any number of CRs, any sharing of
\* auxiliary names, and any number of faults, edits and restarts.
THEOREM NothingOrphaned == Spec => []NoOrphan
<1>1. IInv => NoOrphan
  BY DEF IInv
<1> QED
  BY Inductive, <1>1, PTL

(***************************************************************************)
(* A live target is never taken from a CR that stays.                      *)
(***************************************************************************)
\* A live target belongs to a CR with the finalizer, and to its own CR.
LEMMA LiveTargetGuarded ==
    ASSUME IInv, NEW k \in Key, objects[Target[k]].phase = "live"
    PROVE  Cur(k).fin
<1>1. Target[k] \in Object
  BY ObjectAssumption
<1>2. PICK j \in Key :
        /\ objects[Target[k]].owner = j
        /\ Target[k] = Target[j] \/ Target[k] \in Range(Extra[j])
  BY <1>1 DEF IInv, CoreInv, OwnedInPlace
<1>3. j = k
  BY <1>2, ObjectAssumption
<1>4. objects[Target[k]].owner = k
  BY <1>2, <1>3
<1>5. Cur(objects[Target[k]].owner).fin
  BY <1>1 DEF IInv, NoOrphan
<1> QED
  BY <1>4, <1>5

\* The loops over auxiliary objects never touch a target.
LEMMA ExtraIsNoTarget ==
    ASSUME CoreInv, NEW k \in Key, NEW j \in Key, run[j].idx <= Len(Extra[j]),
           run[j].pc \in {"extras", "deleteExtras"}
    PROVE  Extra[j][run[j].idx] # Target[k]
<1>1. run[j].idx \in 1..Len(Extra[j])
  <2>1. Len(Extra[j]) \in Nat /\ run[j].idx \in Nat
    BY ObjectAssumption DEF CoreInv, TypeOK, RunState
  <2>2. run[j].idx >= 1
    BY DEF CoreInv, Indexed
  <2> QED
    BY <2>1, <2>2
<1>2. Extra[j][run[j].idx] \in Range(Extra[j])
  BY <1>1, ObjectAssumption DEF Range
<1> QED
  BY <1>2, ObjectAssumption

\* The prefix of a step in NoPrematureDelete.
TakesTarget(k) ==
    /\ objects[Target[k]].phase = "live"
    /\ objects'[Target[k]].phase # "live"
    /\ budget'.drift = budget.drift

\* A step other than drift that takes a target finds its CR being deleted.
LEMMA TakenWhileDeleting ==
    ASSUME CoreInv, [Next]_vars, NEW k \in Key, TakesTarget(k), Cur(k).fin
    PROVE  Cur(k).deleting
<1>1. /\ Target[k] \in Object /\ objects \in [Object -> ObjectState]
      /\ objects'[Target[k]] # objects[Target[k]]
  BY ObjectAssumption DEF CoreInv, TypeOK, TakesTarget
<1>2. ASSUME NEW j \in Key, KeyStep(j)
      PROVE  Cur(k).deleting
  <2>1. CASE Apply(j)
    <3>1. objects' = [objects EXCEPT ![Target[j]] = Applied(Target[j], j)]
      BY <2>1 DEF Apply
    <3> QED
      BY <1>1, <3>1 DEF Applied, TakesTarget
  <2>2. CASE ApplyExtra(j) \/ DeleteExtra(j)
    <3>1. Extra[j][run[j].idx] # Target[k]
      BY <2>2, ExtraIsNoTarget DEF ApplyExtra, DeleteExtra
    <3>2. objects'[Target[k]] = objects[Target[k]]
      BY <1>1, <2>2, <3>1 DEF ApplyExtra, DeleteExtra, DeleteObject
    <3> QED
      BY <1>1, <3>2
  <2>3. CASE DeleteTarget(j)
    <3>1. Target[j] = Target[k]
      BY <1>1, <2>3 DEF DeleteTarget, DeleteObject
    <3>2. j = k
      BY <3>1, ObjectAssumption
    <3> QED
      BY <2>3, <3>2, PathFacts DEF DeleteTarget, DeletePc
  <2>4. CASE objects' = objects
    BY <1>1, <2>4
  <2> QED
    BY <1>2, <2>1, <2>2, <2>3, <2>4
    DEF KeyStep, Begin, AddFinalizer, GetTarget, UpdateStatus, RemoveFinalizer,
        FailCall, DeliverEvent, TimerFires, UserCreate, UserEdit, UserDelete,
        UserStep, Unhold
<1>3. ASSUME NEW o \in Object, ObjectStep(o)
      PROVE  FALSE
  <2>1. CASE VendorReports(o) \/ OutsiderEdits(o)
    <3>1. objects'[Target[k]].phase = objects[Target[k]].phase
      BY <1>1, <2>1 DEF VendorReports, OutsiderEdits, ObjectState
    <3> QED
      BY <3>1 DEF TakesTarget
  <2>2. CASE VendorFinishes(o)
    BY <1>1, <2>2 DEF VendorFinishes, TakesTarget
  <2>3. CASE OutsiderDeletes(o)
    <3>1. budget.drift \in Nat /\ budget'.drift = budget.drift - 1
      BY <2>3 DEF OutsiderDeletes, Drift, CoreInv, TypeOK, Budget
    <3> QED
      BY <3>1 DEF TakesTarget
  <2> QED
    BY <1>3, <2>1, <2>2, <2>3 DEF ObjectStep
<1>4. CASE Restart \/ UNCHANGED vars
  BY <1>1, <1>4 DEF Restart, vars
<1> QED
  BY <1>2, <1>3, <1>4 DEF Next

\* The operator takes a live target away only while its CR is being deleted,
\* however stale the copy of the CR it decides from.
THEOREM NeverPrematurelyDeleted == Spec => NoPrematureDelete
<1>1. IInv /\ [Next]_vars =>
        [\A k \in Key :
            /\ objects[Target[k]].phase = "live"
            /\ objects'[Target[k]].phase # "live"
            /\ budget'.drift = budget.drift
            => Cur(k).deleting]_vars
  BY LiveTargetGuarded, TakenWhileDeleting DEF TakesTarget, IInv
<1> QED
  BY Inductive, <1>1, PTL DEF Spec, NoPrematureDelete
=============================================================================
