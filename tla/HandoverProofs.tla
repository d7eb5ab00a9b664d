--------------------------- MODULE HandoverProofs ---------------------------
(***************************************************************************)
(* What late requests can and cannot do, for every set of keys and         *)
(* objects, every naming, and any number of requests on their way.         *)
(***************************************************************************)
EXTENDS Handover, ObservationProofs

(***************************************************************************)
(* Requests.                                                               *)
(***************************************************************************)
\* The fields of a request on its way.
LEMMA RequestFields ==
    ASSUME HandoverTypeOK, NEW w \in late
    PROVE  /\ w.key \in Key /\ w.obj \in Object /\ w.rv \in Nat
           /\ w.ready \in BOOLEAN /\ w.verb \in Verb
BY DEF HandoverTypeOK, Request

\* A call sends one request at a time, built from the version it read, about
\* an object of its key.
LEMMA PendingShape ==
    ASSUME CoreInv, NEW k \in Key, NEW w \in Pending(k)
    PROVE  /\ \E verb \in Verb, o \in Object :
                 w = [verb |-> verb, key |-> k, obj |-> o, rv |-> run[k].rv,
                      ready |-> run[k].ready]
           /\ w.obj = Target[k] \/ w.obj \in Range(Extra[k])
           /\ run[k].pc # "idle"
           /\ w.verb = "addFinalizer" => run[k].pc = "addFinalizer"
           /\ w.verb = "removeFinalizer" =>
                run[k].pc = "deleteExtras" /\ run[k].idx > Len(Extra[k])
<1> DEFINE Body(verb, o) == [verb |-> verb, key |-> k, obj |-> o, rv |-> run[k].rv,
                             ready |-> run[k].ready]
<1>0. Target[k] \in Object
  BY ObjectAssumption
<1>1. ASSUME NEW verb \in Verb, NEW o \in Object, w = Body(verb, o)
      PROVE  w.verb = verb /\ w.obj = o
  BY <1>1
<1>2. CASE run[k].pc = "addFinalizer"
  <2>1. w = Body("addFinalizer", Target[k])
    BY <1>2 DEF Pending
  <2> QED BY <1>0, <1>1, <1>2, <2>1 DEF Verb
<1>3. CASE run[k].pc = "apply"
  <2>1. w = Body("apply", Target[k])
    BY <1>3 DEF Pending
  <2> QED BY <1>0, <1>1, <1>3, <2>1 DEF Verb
<1>4. CASE run[k].pc = "deleteTarget"
  <2>1. w = Body("delete", Target[k])
    BY <1>4 DEF Pending
  <2> QED BY <1>0, <1>1, <1>4, <2>1 DEF Verb
<1>5. CASE run[k].pc \in {"extras", "deleteExtras"} /\ run[k].idx <= Len(Extra[k])
  <2>1. Extra[k][run[k].idx] \in Object /\ Extra[k][run[k].idx] \in Range(Extra[k])
    BY <1>5, LoopObject
  <2>2. ~(run[k].idx > Len(Extra[k]))
    BY <1>5, ObjectAssumption DEF CoreInv, TypeOK, RunState
  <2>3. PICK verb \in {"apply", "delete"} : w = Body(verb, Extra[k][run[k].idx])
    <3>1. CASE run[k].pc = "extras"
      <4>1. w = Body(IF Read(k).spec.expose THEN "apply" ELSE "delete", Extra[k][run[k].idx])
        BY <1>5, <2>2, <3>1 DEF Pending
      <4> QED BY <4>1
    <3>2. CASE run[k].pc = "deleteExtras"
      <4>1. w = Body("delete", Extra[k][run[k].idx])
        BY <1>5, <2>2, <3>2 DEF Pending
      <4> QED BY <4>1
    <3> QED BY <1>5, <3>1, <3>2
  <2> QED BY <1>1, <1>5, <2>1, <2>3 DEF Verb
<1>6. CASE run[k].pc = "extras" /\ ~(run[k].idx <= Len(Extra[k]))
  <2>1. w = Body("updateStatus", Target[k])
    BY <1>6 DEF Pending
  <2> QED BY <1>0, <1>1, <1>6, <2>1 DEF Verb
<1>7. CASE run[k].pc = "deleteExtras" /\ ~(run[k].idx <= Len(Extra[k]))
  <2>1. run[k].idx > Len(Extra[k])
    BY <1>7, ObjectAssumption DEF CoreInv, TypeOK, RunState
  <2>2. w = Body("removeFinalizer", Target[k])
    BY <1>7, <2>1 DEF Pending
  <2> QED BY <1>0, <1>1, <1>7, <2>1, <2>2 DEF Verb
<1> QED BY <1>2, <1>3, <1>4, <1>5, <1>6, <1>7 DEF Pending

\* A request is accountable when it is left behind.
LEMMA PendingAccountable ==
    ASSUME InvBut(stray), NEW k \in Key, NEW w \in Pending(k)
    PROVE  w \in Request /\ Accountable(w)
<1>0. CoreInv /\ run[k] \in RunState
  BY CurTyped DEF InvBut, CoreInv
<1>1. PICK verb \in Verb, o \in Object :
        w = [verb |-> verb, key |-> k, obj |-> o, rv |-> run[k].rv, ready |-> run[k].ready]
  BY <1>0, PendingShape
<1>2. w.key = k /\ w.rv = run[k].rv
  BY <1>1
<1>3. w \in Request
  BY <1>0, <1>1 DEF Request, RunState
<1>4. /\ w.obj = Target[k] \/ w.obj \in Range(Extra[k])
      /\ run[k].pc # "idle"
      /\ w.verb = "addFinalizer" => run[k].pc = "addFinalizer"
      /\ w.verb = "removeFinalizer" =>
           run[k].pc = "deleteExtras" /\ run[k].idx > Len(Extra[k])
  BY <1>0, PendingShape
<1>5. /\ run[k].rv \in 1..seen[k] /\ run[k].rv \in Nat
      /\ w.verb = "addFinalizer" => Branch(Read(k)) = "addFinalizer"
      /\ w.verb = "removeFinalizer" => Branch(Read(k)) = "deleteTarget"
  BY <1>0, <1>4, PathFacts DEF DeletePc, RunState
<1>6. ASSUME w.verb = "removeFinalizer", NEW x \in Object, Owns(k, x)
      PROVE  <<x, k>> \in stray
  <2>1. x \in {Target[k]} \cup Range(Extra[k])
    BY <1>0, <1>6 DEF CoreInv, OwnedInPlace, Owns
  <2>2. Passed(k, run[k].idx) = {Target[k]} \cup Range(Extra[k])
    BY <1>0, <1>4, <1>6, AllPassed DEF RunState
  <2> QED BY <1>4, <1>6, <2>1, <2>2 DEF InvBut, CleanedBut
<1> QED BY <1>2, <1>3, <1>4, <1>5, <1>6 DEF Accountable, Read
(***************************************************************************)
(* Steps of the reconciler, while requests are on their way.               *)
(***************************************************************************)
\* The steps of the reconciler keep its invariant up to the strays.
LEMMA StraysExcused ==
    ASSUME InvBut(stray), [Next]_vars, stray' = stray
    PROVE  InvBut(stray)'
<1>1. PICK S : S = stray
  OBVIOUS
<1>2. InvBut(S)
  BY <1>1
<1>3. InvBut(S)'
  BY <1>2, InvNext
<1> QED BY <1>1, <1>3 DEF InvBut, CleanedBut, NoOrphanBut

\* What a step of the reconciler does to the versions of a key: they stay, and
\* new ones come after them.
LEMMA VersionsStay ==
    ASSUME CoreInv, [Next]_vars, NEW k \in Key
    PROVE  /\ \A i \in 1..Len(history[k]) : history'[k][i] = history[k][i]
           /\ Len(history[k]) \in Nat /\ Len(history'[k]) \in Nat
           /\ Len(history'[k]) = Len(history[k]) => history'[k] = history[k]
           /\ Len(history[k]) <= Len(history'[k])
<1>0. TypeOK /\ Len(history[k]) \in Nat
  BY CurTyped DEF CoreInv
<1>1. CASE history'[k] = history[k]
  BY <1>0, <1>1
<1>2. CASE history'[k] # history[k]
  <2>1. KeyStep(k)
    BY <1>2, StepsOfKey DEF Quiet, Restart
  <2>2. PICK s : Writes(k, s)
    BY <1>2, <2>1, KeyWrites
  <2> QED BY <1>0, <2>2, AppendFacts DEF Writes
<1> QED BY <1>1, <1>2

\* The cache moves forward,
LEMMA CacheAdvances ==
    ASSUME CoreInv, [Next]_vars, NEW k \in Key
    PROVE  seen[k] \in Nat /\ seen'[k] \in Nat /\ seen[k] <= seen'[k]
<1>0. seen[k] \in 1..Len(history[k]) /\ Len(history[k]) \in Nat /\ seen[k] \in Nat
  BY CurTyped DEF CoreInv
<1>1. CASE Restart
  BY <1>0, <1>1 DEF Restart
<1>2. CASE Quiet(k)
  BY <1>0, <1>2 DEF Quiet
<1> QED BY <1>1, <1>2, StepsOfKey, SeenStep

\* and so does a call: it goes on with the version it has, or begins with the
\* one in the cache.
LEMMA CallAdvances ==
    ASSUME CoreInv, [Next]_vars, NEW k \in Key, run'[k].pc # "idle"
    PROVE  \/ run'[k].rv = seen[k]
           \/ run[k].pc # "idle" /\ run'[k].rv = run[k].rv
<1>1. CASE Restart
  BY <1>1 DEF Restart, Idle
<1>2. CASE Quiet(k)
  BY <1>2 DEF Quiet
<1>3. CASE KeyStep(k)
  BY <1>3, CallStep DEF Advances, GetTarget, Apply, ApplyExtra, DeletePc
<1> QED BY <1>1, <1>2, <1>3, StepsOfKey

\* A call that may apply works on a version with the finalizer, so that nobody
\* comes to own an object while the latest version, already left behind by a
\* request, is one in its deletion.
LEMMA NothingAcquired ==
    ASSUME CoreInv, [Next]_vars, NEW k \in Key, NEW o \in Object,
           Branch(Cur(k)) = "deleteTarget",
           run[k].pc # "idle" => Len(history[k]) <= run[k].rv,
           Owns(k, o)'
    PROVE  Owns(k, o)
<1>1. CASE Restart
  BY <1>1 DEF Restart, Owns
<1>2. CASE Quiet(k)
  BY <1>2 DEF Quiet
<1>3. CASE KeyStep(k)
  <2> SUFFICES ASSUME ~Owns(k, o) PROVE FALSE
    OBVIOUS
  <2>1. run[k].pc \in NormalPc /\ run[k].pc # "idle"
    BY <1>3, OwnsStep DEF Apply, ApplyExtra, NormalPc
  <2>2. Branch(Read(k)) = "getTarget" /\ run[k].rv \in 1..seen[k]
    BY <2>1, PathFacts
  <2>3. run[k].rv = Len(history[k])
    <3>1. seen[k] \in 1..Len(history[k]) /\ Len(history[k]) \in Nat
      BY CurTyped DEF CoreInv
    <3> QED BY <2>1, <2>2, <3>1
  <2> QED BY <2>2, <2>3 DEF Read, Cur
<1> QED BY <1>1, <1>2, <1>3, StepsOfKey

\* A request on its way stays accountable.
LEMMA AccountableNext ==
    ASSUME InvBut(stray), [Next]_vars, stray' = stray, NEW w \in Request, Accountable(w)
    PROVE  Accountable(w)'
<1> DEFINE k == w.key
<1>0. CoreInv /\ k \in Key /\ Accountable(w) /\ w.rv \in Nat
  BY DEF InvBut, Request
<1>1. /\ \A i \in 1..Len(history[k]) : history'[k][i] = history[k][i]
      /\ Len(history'[k]) = Len(history[k]) => history'[k] = history[k]
      /\ Len(history[k]) <= Len(history'[k])
      /\ Len(history[k]) \in Nat /\ Len(history'[k]) \in Nat
  BY <1>0, VersionsStay
<1>2. seen[k] <= seen'[k] /\ seen[k] \in Nat /\ seen'[k] \in Nat /\ seen[k] <= Len(history[k])
  BY <1>0, CacheAdvances, CurTyped DEF CoreInv
<1>3. w.rv \in 1..seen[k] /\ w.rv \in 1..Len(history[k])
  BY <1>0, <1>2, <1>1 DEF Accountable
<1>4. w.rv \in 1..seen'[k]
  BY <1>2, <1>3
<1>5. run'[k].pc # "idle" => w.rv <= run'[k].rv
  <2>1. run[k].pc # "idle" => w.rv <= run[k].rv
    BY <1>0 DEF Accountable
  <2> QED BY <1>0, <1>3, <2>1, CallAdvances
<1>6. history'[k][w.rv] = history[k][w.rv]
  BY <1>1, <1>3
<1>7. ASSUME w.verb = "removeFinalizer", w.rv = Len(history'[k]),
             NEW o \in Object, Owns(k, o)'
      PROVE  <<o, k>> \in stray
  <2>1. w.rv = Len(history[k])
    BY <1>1, <1>3, <1>7
  <2>2. /\ Branch(Cur(k)) = "deleteTarget"
        /\ run[k].pc # "idle" => Len(history[k]) <= run[k].rv
        /\ \A x \in Object : Owns(k, x) => <<x, k>> \in stray
    BY <1>0, <1>7, <2>1 DEF Accountable, Cur
  <2> QED BY <1>0, <1>7, <2>2, NothingAcquired
<1> HIDE DEF k
<1> QED BY <1>0, <1>4, <1>5, <1>6, <1>7 DEF Accountable, k
(***************************************************************************)
(* Late requests arrive.                                                   *)
(***************************************************************************)
\* A request that changes no CR leaves all calls and the cache alone, so that
\* of the core only the owners of objects can change.
LEMMA CoreKept ==
    ASSUME CoreInv, TypeOK', OwnedInPlace', history' = history, seen' = seen, run' = run
    PROVE  CoreInv'
BY DEF CoreInv, WellFormed, OnPath, Indexed, CacheGuarded, CacheDoomed, RunGuarded, Cur, Read

\* A late apply orphans nothing but strays.
LEMMA LandApplyKeeps ==
    ASSUME HandoverInv, NEW w \in late, LandApply(w)
    PROVE  HandoverInv'
<1> DEFINE k == w.key
           new == [phase |-> IF objects[w.obj].phase = "absent" THEN "live"
                             ELSE objects[w.obj].phase,
                   owner |-> k, rev |-> w.rv, ready |-> objects[w.obj].ready]
<1>0. /\ CoreInv /\ TypeOK /\ k \in Key /\ w.obj \in Object /\ w.rv \in Nat
      /\ Accountable(w) /\ objects \in [Object -> ObjectState]
  BY RequestFields DEF HandoverInv, InvBut, CoreInv, TypeOK
<1>1. /\ history' = history /\ seen' = seen /\ run' = run /\ queue' = queue
      /\ poll' = poll /\ announced' = announced /\ budget' = budget
      /\ late' \subseteq late
  BY DEF LandApply, Arrive
<1>2. objects' = [objects EXCEPT ![w.obj] = new]
  BY DEF LandApply
<1>3. new \in ObjectState /\ new.owner = k
  BY <1>0 DEF ObjectState
<1> HIDE DEF new
<1>4. \A x \in Object : objects'[x] = IF x = w.obj THEN new ELSE objects[x]
  BY <1>0, <1>2
<1>5. TypeOK'
  BY <1>0, <1>1, <1>2, <1>3 DEF TypeOK
<1>6. /\ stray \subseteq stray' /\ stray' \subseteq Object \X Key
      /\ Branch(Cur(k)) # "getTarget" => <<w.obj, k>> \in stray'
  BY <1>0 DEF LandApply, HandoverInv, HandoverTypeOK
<1>7. \A j \in Key, x \in Object : Owns(j, x)' => Owns(j, x) \/ (x = w.obj /\ j = k)
  BY <1>3, <1>4 DEF Owns
<1>8. OwnedInPlace'
  BY <1>0, <1>3, <1>4 DEF CoreInv, OwnedInPlace, Accountable
<1>9. CoreInv'
  BY <1>0, <1>1, <1>5, <1>8, CoreKept
<1>10. CleanedBut(stray)'
  <2> SUFFICES ASSUME NEW j \in Key, run[j].pc = "deleteExtras",
                      NEW x \in Passed(j, run[j].idx), Owns(j, x)'
               PROVE  <<x, j>> \in stray'
    BY <1>1 DEF CleanedBut
  <2>1. x \in Object
    BY PassedObjects
  <2>2. CASE Owns(j, x)
    BY <1>6, <2>2 DEF HandoverInv, InvBut, CleanedBut
  <2>3. CASE x = w.obj /\ j = k
    <3>1. Branch(Cur(k)) # "getTarget"
      BY <1>0, <2>3, BranchFacts, CurTyped DEF CoreInv, RunGuarded, DeletePc
    <3> QED BY <1>6, <2>3, <3>1
  <2> QED BY <1>7, <2>1, <2>2, <2>3
<1>11. NoOrphanBut(stray)'
  <2> SUFFICES ASSUME NEW x \in Object, objects'[x].phase = "live"
               PROVE  \/ Cur(objects'[x].owner).fin
                      \/ <<x, objects'[x].owner>> \in stray'
    BY <1>1 DEF NoOrphanBut, Cur
  <2>1. CASE x = w.obj
    <3>1. Branch(Cur(k)) = "getTarget" => Cur(k).fin
      BY <1>0, BranchFacts, CurTyped
    <3> QED BY <1>3, <1>4, <1>6, <2>1, <3>1
  <2>2. CASE x # w.obj
    BY <1>4, <1>6, <2>2 DEF HandoverInv, InvBut, NoOrphanBut
  <2> QED BY <2>1, <2>2
<1>12. ASSUME NEW v \in late PROVE Accountable(v)'
  <2>0. v.key \in Key /\ Accountable(v)
    BY RequestFields DEF HandoverInv
  <2>1. ASSUME v.verb = "removeFinalizer", v.rv = Len(history[v.key]),
               NEW x \in Object, Owns(v.key, x)'
        PROVE  <<x, v.key>> \in stray'
    <3>1. CASE Owns(v.key, x)
      BY <1>6, <2>0, <2>1, <3>1 DEF Accountable
    <3>2. CASE x = w.obj /\ v.key = k
      <4>1. Branch(Cur(k)) = "deleteTarget"
        BY <2>0, <2>1, <3>2 DEF Accountable, Cur
      <4> QED BY <1>6, <3>2, <4>1
    <3> QED BY <1>7, <2>0, <2>1, <3>1, <3>2
  <2> QED BY <1>1, <2>0, <2>1 DEF Accountable
<1>13. HandoverTypeOK'
  BY <1>1, <1>5, <1>6 DEF HandoverInv, HandoverTypeOK
<1> QED BY <1>1, <1>9, <1>10, <1>11, <1>12, <1>13 DEF HandoverInv, InvBut

\* A late delete orphans nothing.
LEMMA LandDeleteKeeps ==
    ASSUME HandoverInv, NEW w \in late, LandDelete(w)
    PROVE  HandoverInv'
<1>0. CoreInv /\ TypeOK /\ w.obj \in Object
  BY RequestFields DEF HandoverInv, InvBut, CoreInv
<1>1. /\ history' = history /\ seen' = seen /\ run' = run /\ queue' = queue
      /\ poll' = poll /\ announced' = announced /\ budget' = budget
      /\ late' \subseteq late /\ stray' = stray /\ DeleteObject(w.obj)
  BY DEF LandDelete, Arrive
<1>2. TypeOK'
  BY <1>0, <1>1, DeleteObjectTyped DEF TypeOK
<1>3. /\ \A x \in Object : ObjectChange(NoOne, x)
      /\ \A j \in Key, x \in Object : Owns(j, x)' => Owns(j, x)
  BY <1>0, <1>1, DeleteChange
<1>4. OwnedInPlace'
  BY <1>0, <1>3, OwnerAssumption DEF CoreInv, OwnedInPlace, ObjectChange
<1>5. CoreInv'
  BY <1>0, <1>1, <1>2, <1>4, CoreKept
<1>6. CleanedBut(stray)'
  BY <1>1, <1>3, PassedObjects DEF HandoverInv, InvBut, CleanedBut
<1>7. NoOrphanBut(stray)'
  BY <1>1, <1>3, OwnerAssumption DEF HandoverInv, InvBut, NoOrphanBut, ObjectChange, Cur
<1>8. ASSUME NEW v \in late PROVE Accountable(v)'
  <2>0. v.key \in Key /\ Accountable(v)
    BY RequestFields DEF HandoverInv
  <2> QED BY <1>1, <1>3, <2>0 DEF Accountable
<1>9. HandoverTypeOK'
  BY <1>1, <1>2 DEF HandoverInv, HandoverTypeOK
<1> QED BY <1>1, <1>5, <1>6, <1>7, <1>8, <1>9 DEF HandoverInv, InvBut
\* A late Update that is accepted finds the version it was built from in the
\* cache and in every call in progress, and stores what that call would have.
LEMMA AcceptedFacts ==
    ASSUME HandoverInv, NEW w \in late, w.rv = Len(history[w.key]),
           w.verb \notin {"apply", "delete"}
    PROVE  /\ history[w.key][w.rv] = Cur(w.key) /\ Cur(w.key) \in Snapshot
           /\ seen[w.key] = Len(history[w.key])
           /\ run[w.key].pc # "idle" => Read(w.key) = Cur(w.key)
           /\ Stored(w) \in Snapshot
           /\ \/ /\ w.verb = "addFinalizer"
                 /\ Branch(Cur(w.key)) = "addFinalizer"
                 /\ Stored(w) = WriteBack(Cur(w.key), TRUE)
              \/ /\ w.verb = "removeFinalizer"
                 /\ Branch(Cur(w.key)) = "deleteTarget"
                 /\ Stored(w) = WriteBack(Cur(w.key), FALSE)
                 /\ \A o \in Object : Owns(w.key, o) => <<o, w.key>> \in stray
              \/ /\ w.verb = "updateStatus"
                 /\ Stored(w).present = Cur(w.key).present
                 /\ Stored(w).fin = Cur(w.key).fin
                 /\ Stored(w).deleting = Cur(w.key).deleting
                 /\ Stored(w).spec = Cur(w.key).spec
<1> DEFINE k == w.key
<1>0. /\ CoreInv /\ TypeOK /\ k \in Key /\ w.rv \in Nat /\ w.ready \in BOOLEAN
      /\ w.verb \in Verb /\ Accountable(w)
  BY RequestFields DEF HandoverInv, InvBut, CoreInv
<1>1. /\ Cur(k) \in Snapshot /\ seen[k] \in 1..Len(history[k]) /\ Len(history[k]) \in Nat
      /\ run[k] \in RunState
  BY <1>0, CurTyped
<1>2. history[k][w.rv] = Cur(k)
  BY DEF Cur
<1>3. seen[k] = Len(history[k])
  BY <1>0, <1>1 DEF Accountable
<1>4. ASSUME run[k].pc # "idle" PROVE Read(k) = Cur(k)
  <2>1. w.rv <= run[k].rv /\ run[k].rv \in 1..seen[k]
    BY <1>0, <1>4, PathFacts DEF Accountable
  <2>2. run[k].rv = Len(history[k])
    BY <1>1, <1>3, <2>1
  <2> QED BY <2>2 DEF Read, Cur
<1>5. CASE w.verb = "addFinalizer"
  <2>1. Stored(w) = WriteBack(Cur(k), TRUE)
    BY <1>2, <1>5 DEF Stored
  <2>2. Stored(w) \in Snapshot
    BY <1>1, <2>1, WriteBackTyped
  <2>3. Branch(Cur(k)) = "addFinalizer"
    BY <1>0, <1>2, <1>5 DEF Accountable
  <2> QED BY <1>1, <1>2, <1>3, <1>4, <1>5, <2>1, <2>2, <2>3
<1>6. CASE w.verb = "removeFinalizer"
  <2>1. Stored(w) = WriteBack(Cur(k), FALSE)
    BY <1>2, <1>6 DEF Stored
  <2>2. Stored(w) \in Snapshot
    BY <1>1, <2>1, WriteBackTyped
  <2>3. /\ Branch(Cur(k)) = "deleteTarget"
        /\ \A o \in Object : Owns(k, o) => <<o, k>> \in stray
    BY <1>0, <1>2, <1>6 DEF Accountable
  <2> QED BY <1>1, <1>2, <1>3, <1>4, <1>6, <2>1, <2>2, <2>3
<1>7. CASE w.verb = "updateStatus"
  <2>1. Stored(w) = [Cur(k) EXCEPT !.status = [gen |-> Cur(k).gen, ready |-> w.ready]]
    BY <1>2, <1>7 DEF Stored
  <2>2. Stored(w) \in Snapshot
    BY <1>0, <1>1, <2>1 DEF Snapshot, Status
  <2>3. /\ Stored(w).present = Cur(k).present /\ Stored(w).fin = Cur(k).fin
        /\ Stored(w).deleting = Cur(k).deleting /\ Stored(w).spec = Cur(k).spec
    BY <1>1, <2>1 DEF Snapshot
  <2> QED BY <1>1, <1>2, <1>3, <1>4, <1>7, <2>2, <2>3
<1> QED BY <1>0, <1>5, <1>6, <1>7 DEF Verb

\* A late Update is refused, or keeps the invariant as the call itself would.
LEMMA LandUpdateKeeps ==
    ASSUME HandoverInv, NEW w \in late, LandUpdate(w)
    PROVE  HandoverInv'
<1> DEFINE k == w.key
           s == Stored(w)
<1>0. CoreInv /\ TypeOK /\ k \in Key /\ w.verb \notin {"apply", "delete"}
  BY RequestFields DEF HandoverInv, InvBut, CoreInv, LandUpdate
<1>1. /\ seen' = seen /\ run' = run /\ queue' = queue /\ objects' = objects
      /\ poll' = poll /\ announced' = announced /\ budget' = budget
      /\ late' \subseteq late /\ stray' = stray
  BY DEF LandUpdate, Arrive
<1>2. CASE history' = history
  <2>1. UNCHANGED vars
    BY <1>1, <1>2 DEF vars
  <2>2. InvBut(stray)'
    BY <1>1, <2>1, StraysExcused DEF HandoverInv
  <2>3. \A v \in late : Accountable(v)'
    BY <1>1, <2>1, AccountableNext DEF HandoverInv, HandoverTypeOK
  <2>4. HandoverTypeOK'
    BY <1>1, <2>2 DEF HandoverInv, HandoverTypeOK, InvBut, CoreInv
  <2> QED BY <1>1, <2>2, <2>3, <2>4 DEF HandoverInv
<1>3. CASE history' # history
  <2>1. w.rv = Len(history[k]) /\ Store(k, s)
    BY <1>3 DEF LandUpdate
  <2>2. s \in Snapshot /\ seen[k] = Len(history[k])
    BY <1>0, <2>1, AcceptedFacts
  <2>3. run[k].pc # "idle" => Read(k) = Cur(k)
    BY <1>0, <2>1, AcceptedFacts
  <2>4. \/ /\ Branch(Cur(k)) = "addFinalizer"
           /\ s = WriteBack(Cur(k), TRUE)
        \/ /\ Branch(Cur(k)) = "deleteTarget"
           /\ s = WriteBack(Cur(k), FALSE)
           /\ \A o \in Object : Owns(k, o) => <<o, k>> \in stray
        \/ /\ s.present = Cur(k).present /\ s.fin = Cur(k).fin
           /\ s.deleting = Cur(k).deleting
    BY <1>0, <2>1, AcceptedFacts
  <2>c. Cur(k) \in Snapshot
    BY <1>0, CurTyped
  <2> HIDE DEF s
  <2>5. history' = [history EXCEPT ![k] = Append(@, s)]
    BY <1>0, <1>3, <2>1, StoreCases
  <2>6. TypeOK'
    BY <1>0, <1>1, <2>1, <2>2, StoreTyped DEF TypeOK
  <2>7. PICK S : S = stray
    OBVIOUS
  <2>8. InvBut(S) /\ Ends(k)
    BY <1>1, <2>7 DEF HandoverInv, Ends
  <2>9. InvBut(S)'
    <3>1. CASE /\ Branch(Cur(k)) = "addFinalizer"
               /\ s = WriteBack(Cur(k), TRUE)
      <4>1. s.fin /\ s.present /\ ~s.deleting
        BY <2>c, <3>1, BranchFacts, WriteBackFacts
      <4>2. run[k].pc \notin DeletePc
        <5>1. run[k].pc # "idle" => Branch(Read(k)) = "addFinalizer"
          BY <2>3, <3>1
        <5> QED BY <1>0, <5>1, PathFacts DEF DeletePc
      <4> QED BY <1>0, <1>1, <2>2, <2>5, <2>6, <2>8, <3>1, <4>1, <4>2, FreshWritePreserves
    <3>2. CASE /\ Branch(Cur(k)) = "deleteTarget"
               /\ s = WriteBack(Cur(k), FALSE)
               /\ \A o \in Object : Owns(k, o) => <<o, k>> \in stray
      <4>1. ~s.fin /\ (s.deleting => s.present)
        BY <2>c, <3>2, BranchFacts, WriteBackFacts
      <4>2. run[k].pc \notin NormalPc
        <5>1. run[k].pc # "idle" => Branch(Read(k)) = "deleteTarget"
          BY <2>3, <3>2
        <5> QED BY <1>0, <5>1, PathFacts DEF NormalPc
      <4> QED
        BY <1>0, <1>1, <2>2, <2>5, <2>6, <2>7, <2>8, <3>2, <4>1, <4>2, FreshWritePreserves
    <3>3. CASE /\ s.present = Cur(k).present /\ s.fin = Cur(k).fin
               /\ s.deleting = Cur(k).deleting
      <4>1. Cur(k).fin \/ Cur(k).deleting => Cur(k).present
        BY <1>0, CurTyped DEF CoreInv, WellFormed, Cur
      <4>2. Keeps(k, s)
        BY <2>c, <2>2, <3>3, <4>1 DEF Keeps
      <4> QED BY <1>0, <1>1, <2>2, <2>5, <2>6, <2>8, <4>2, KeepsPreserves
    <3> QED BY <2>4, <3>1, <3>2, <3>3
  <2>10. InvBut(stray)'
    BY <1>1, <2>7, <2>9 DEF InvBut, CleanedBut, NoOrphanBut
  <2>11. ASSUME NEW v \in late PROVE Accountable(v)'
    <3>0. v.key \in Key /\ v.rv \in Nat /\ Accountable(v)
      BY RequestFields DEF HandoverInv
    <3>1. v.rv \in 1..seen[v.key] /\ v.rv \in 1..Len(history[v.key])
      BY <1>0, <3>0, CurTyped DEF Accountable
    <3>2. history'[v.key][v.rv] = history[v.key][v.rv]
      BY <1>0, <2>2, <2>5, <3>0, <3>1, AppendFacts
    <3>3. v.rv = Len(history'[v.key]) => v.rv = Len(history[v.key])
      <4>1. CASE v.key = k
        BY <1>0, <2>2, <2>5, <3>1, <4>1, AppendFacts, CurTyped
      <4>2. CASE v.key # k
        BY <1>0, <2>2, <2>5, <3>0, <4>2, AppendFacts
      <4> QED BY <4>1, <4>2
    <3>4. \A o \in Object : Owns(v.key, o)' => Owns(v.key, o)
      BY <1>1 DEF Owns
    <3> QED BY <1>1, <3>0, <3>2, <3>3, <3>4 DEF Accountable
  <2>12. HandoverTypeOK'
    BY <1>1, <2>6 DEF HandoverInv, HandoverTypeOK
  <2> QED BY <1>1, <2>10, <2>11, <2>12 DEF HandoverInv
<1> QED BY <1>2, <1>3
(***************************************************************************)
(* Theorems.                                                               *)
(***************************************************************************)
\* A step is one of the reconciler, which may leave requests behind, or the
\* arrival of one.
Leaves == late' \subseteq late \cup UNION {Pending(k) : k \in Key}

LEMMA HandoverSteps ==
    ASSUME [HandoverNext]_hvars
    PROVE  \/ [Next]_vars /\ stray' = stray /\ Leaves
           \/ \E w \in late : LandApply(w) \/ LandDelete(w) \/ LandUpdate(w)
<1>1. CASE UNCHANGED hvars
  BY <1>1 DEF hvars, Leaves
<1>2. CASE Next /\ UNCHANGED <<late, stray>>
  BY <1>2 DEF Leaves
<1>3. ASSUME NEW k \in Key, LeaveBehind(k)
      PROVE  [Next]_vars /\ stray' = stray /\ Leaves
  <2>1. KeyStep(k)
    BY <1>3 DEF LeaveBehind, KeyStep
  <2> QED BY <1>3, <2>1 DEF LeaveBehind, Leaves, Next
<1>4. CASE Handover
  BY <1>4 DEF Handover, Leaves, Next
<1> QED BY <1>1, <1>2, <1>3, <1>4 DEF HandoverNext

\* The invariant holds at first,
LEMMA HandoverInitInv == HandoverInit => HandoverInv
<1> SUFFICES ASSUME HandoverInit PROVE HandoverInv
  OBVIOUS
<1>1. IInv /\ late = {} /\ stray = {}
  BY IInvInit DEF HandoverInit
<1>2. InvBut(stray) /\ TypeOK
  BY <1>1, NothingExcused DEF IInv, CoreInv
<1> QED BY <1>1, <1>2 DEF HandoverInv, HandoverTypeOK

\* and every step keeps it.
LEMMA HandoverNextInv ==
    ASSUME HandoverInv, [HandoverNext]_hvars
    PROVE  HandoverInv'
<1>1. ASSUME [Next]_vars, stray' = stray, Leaves
      PROVE  HandoverInv'
  <2>1. InvBut(stray)'
    BY <1>1, StraysExcused DEF HandoverInv
  <2>2. ASSUME NEW w \in late' PROVE w \in Request /\ Accountable(w)'
    <3>1. CASE w \in late
      BY <1>1, <3>1, AccountableNext DEF HandoverInv, HandoverTypeOK
    <3>2. ASSUME NEW k \in Key, w \in Pending(k)
          PROVE  w \in Request /\ Accountable(w)'
      BY <1>1, <3>2, PendingAccountable, AccountableNext DEF HandoverInv
    <3> QED BY <1>1, <3>1, <3>2 DEF Leaves
  <2>3. HandoverTypeOK'
    BY <1>1, <2>1, <2>2 DEF HandoverInv, HandoverTypeOK, InvBut, CoreInv
  <2> QED BY <2>1, <2>2, <2>3 DEF HandoverInv
<1> QED BY <1>1, HandoverSteps, LandApplyKeeps, LandDeleteKeeps, LandUpdateKeeps

\* Whatever requests are on their way, the reconciler keeps its invariant but
\* for the strays, and no late Update is accepted that the current version
\* does not call for (reconciler.go:142-243).
THEOREM HandoverInductive == HandoverSpec => []HandoverInv
<1>1. HandoverInv /\ [HandoverNext]_hvars => HandoverInv'
  BY HandoverNextInv
<1> QED BY <1>1, HandoverInitInv, PTL DEF HandoverSpec

\* Late applies that land on a CR in its deletion, or gone, are the only source
\* of orphans: neither retries nor the next leader add one
\* (reconciler.go:142-243, main.go:157-180).
THEOREM StraysOnly == HandoverSpec => []OnlyStraysOrphaned
<1>1. HandoverInv => OnlyStraysOrphaned
  BY DEF HandoverInv, InvBut, NoOrphanBut, OnlyStraysOrphaned
<1> QED BY <1>1, HandoverInductive, PTL

\* A live target is lost to a CR that is not being deleted only in the step in
\* which a late delete of it lands (reconciler.go:158-162).
THEOREM LateDeletesOnly == HandoverSpec => OnlyLateDeletes
<1> DEFINE A == \A k \in Key :
                  /\ Cur(k).fin
                  /\ objects[Target[k]].phase = "live"
                  /\ objects'[Target[k]].phase # "live"
                  /\ budget'.drift = budget.drift
                  => \/ Cur(k).deleting
                     \/ \E w \in late \ late' : w.verb = "delete" /\ w.obj = Target[k]
<1>1. HandoverInv /\ [HandoverNext]_hvars => [A]_hvars
  <2> SUFFICES ASSUME HandoverInv, [HandoverNext]_hvars, NEW k \in Key,
                      Cur(k).fin, TakesTarget(k), ~Cur(k).deleting
               PROVE  \E w \in late \ late' : w.verb = "delete" /\ w.obj = Target[k]
    BY DEF TakesTarget
  <2>0. /\ CoreInv /\ Target[k] \in Object /\ objects \in [Object -> ObjectState]
        /\ objects[Target[k]].phase = "live" /\ objects'[Target[k]].phase # "live"
    BY ObjectAssumption DEF HandoverInv, InvBut, CoreInv, TypeOK, TakesTarget
  <2>1. CASE [Next]_vars
    BY <2>0, <2>1, TakenWhileDeleting
  <2>2. ASSUME NEW w \in late, LandApply(w) PROVE FALSE
    BY <2>0, <2>2 DEF LandApply
  <2>3. ASSUME NEW w \in late, LandUpdate(w) PROVE FALSE
    BY <2>0, <2>3 DEF LandUpdate
  <2>4. ASSUME NEW w \in late, LandDelete(w)
        PROVE  w \in late \ late' /\ w.verb = "delete" /\ w.obj = Target[k]
    <3>1. w.obj \in Object /\ TypeOK
      BY RequestFields DEF HandoverInv, HandoverTypeOK
    <3>2. w.obj = Target[k]
      BY <2>0, <2>4, <3>1, DeleteQuiet DEF LandDelete
    <3> QED BY <2>4, <3>2 DEF LandDelete, Arrive
  <2> QED BY <2>1, <2>2, <2>3, <2>4, HandoverSteps
<1>2. HandoverSpec => [][A]_hvars
  BY <1>1, HandoverInductive, PTL DEF HandoverSpec
<1> QED BY <1>2 DEF OnlyLateDeletes

\* A late Update that is accepted leaves the spec alone, or removes the CR.
LEMMA LandedSpec ==
    ASSUME HandoverInv, NonZero, NEW w \in late, LandUpdate(w), NEW k \in Key,
           history'[k] # history[k]
    PROVE  \/ Cur(k)' = Gone
           \/ Cur(k).present = Cur(k)'.present /\ Cur(k)'.spec = Cur(k).spec
<1>0. TypeOK /\ w.key \in Key /\ w.verb \notin {"apply", "delete"}
  BY RequestFields DEF HandoverInv, HandoverTypeOK, LandUpdate
<1>1. w.rv = Len(history[w.key]) /\ Store(w.key, Stored(w))
  BY DEF LandUpdate
<1>2. Stored(w) \in Snapshot /\ Cur(w.key) \in Snapshot
  BY <1>0, <1>1, AcceptedFacts
<1>3. \/ Stored(w) \in {WriteBack(Cur(w.key), TRUE), WriteBack(Cur(w.key), FALSE)}
      \/ /\ Stored(w).present = Cur(w.key).present
         /\ Stored(w).spec = Cur(w.key).spec
  BY <1>0, <1>1, AcceptedFacts
<1>4. history' = [history EXCEPT ![w.key] = Append(@, Stored(w))]
  BY <1>0, <1>1, StoreCases
<1>5. k = w.key /\ Cur(k)' = Stored(w)
  BY <1>0, <1>2, <1>4, AppendFacts
<1>6. RoundTrip(Cur(k).spec) = Cur(k).spec
  BY <1>2, <1>5, RoundTripKeeps DEF NonZero, Snapshot
<1> QED BY <1>2, <1>3, <1>5, <1>6, WriteBackShape

\* Whatever lands late, only users change a spec or bring a CR back: the
\* Updates are fenced by the resourceVersion. Counts other than zero, as for
\* EditsKept (reconciler.go:179, 195, 232).
THEOREM EditsKeptLate ==
    ASSUME 0 \notin Replicas
    PROVE  HandoverSpec => NoLostEditLate
<1> DEFINE A == budget'.edits = budget.edits =>
                  \A k \in Key : Cur(k)'.present =>
                      Cur(k).present /\ Cur(k)'.spec = Cur(k).spec
<1>1. HandoverInit => NonZero
  BY NonZeroInit DEF HandoverInit
<1>2. HandoverInv /\ NonZero /\ [HandoverNext]_hvars => NonZero' /\ [A]_hvars
  <2> SUFFICES ASSUME HandoverInv, NonZero, [HandoverNext]_hvars
               PROVE  NonZero' /\ A
    OBVIOUS
  <2>0. CoreInv
    BY DEF HandoverInv, InvBut
  <2>1. CASE [Next]_vars
    BY <2>0, <2>1, NonZeroNext, SpecKept
  <2>2. ASSUME NEW w \in late, LandApply(w) \/ LandDelete(w)
        PROVE  NonZero' /\ A
    <3>1. history' = history
      BY <2>2 DEF LandApply, LandDelete
    <3> QED BY <3>1 DEF NonZero, Cur
  <2>3. ASSUME NEW w \in late, LandUpdate(w)
        PROVE  NonZero' /\ A
    <3>1. ASSUME NEW k \in Key
          PROVE  \/ Cur(k)' = Gone
                 \/ Cur(k).present = Cur(k)'.present /\ Cur(k)'.spec = Cur(k).spec
      <4>1. CASE history'[k] = history[k]
        BY <4>1 DEF Cur
      <4> QED BY <2>3, <4>1, LandedSpec
    <3>2. ~Gone.present /\ Gone.spec.replicas # 0
      BY DEF Gone, NoSpec, DefaultReplicas
    <3> QED BY <3>1, <3>2 DEF NonZero
  <2> QED BY <2>1, <2>2, <2>3, HandoverSteps
<1>3. HandoverSpec => [][A]_hvars
  BY <1>1, <1>2, HandoverInductive, PTL DEF HandoverSpec
<1> QED BY <1>3 DEF NoLostEditLate
=============================================================================
