------------------------- MODULE StatusMirrorProofs -------------------------
(***************************************************************************)
(* How recent and how sound the mirrored status is, for any vendors, any   *)
(* counts, any two polling intervals, any backoff that doubles and any     *)
(* number of edits, failed calls and failing units.                        *)
(***************************************************************************)
EXTENDS StatusMirror, TLAPS

(***************************************************************************)
(* The adapters.                                                           *)
(***************************************************************************)
\* Ready only for something counted, and no fewer ready than counted.
Sound(s) == s.ready => s.total > 0 /\ s.up >= s.total

\* Readiness by counts or by a condition yields a status, and a sound one.
LEMMA RulesSound ==
    ASSUME NEW total \in Nat, NEW up \in Nat, NEW gen \in Nat, NEW done \in BOOLEAN
    PROVE  /\ ByCounts(total, up, gen) \in Status /\ Sound(ByCounts(total, up, gen))
           /\ ByCondition(total, done, gen) \in Status /\ Sound(ByCondition(total, done, gen))
<1>1. (total > 0 /\ up >= total) \in BOOLEAN /\ (done /\ total > 0) \in BOOLEAN
  OBVIOUS
<1>2. (IF done THEN total ELSE 0) \in Nat /\ (done => (IF done THEN total ELSE 0) = total)
  OBVIOUS
<1>3. /\ ByCounts(total, up, gen) \in Status
      /\ ByCounts(total, up, gen).ready = (total > 0 /\ up >= total)
      /\ ByCounts(total, up, gen).total = total /\ ByCounts(total, up, gen).up = up
  BY <1>1, Zenon DEF ByCounts, Status
<1>4. /\ ByCondition(total, done, gen) \in Status
      /\ ByCondition(total, done, gen).ready = (done /\ total > 0)
      /\ ByCondition(total, done, gen).total = total
      /\ ByCondition(total, done, gen).up = IF done THEN total ELSE 0
  BY <1>1, <1>2, Zenon DEF ByCondition, Status
<1>5. Sound(ByCounts(total, up, gen))
  BY <1>3 DEF Sound
<1>6. Sound(ByCondition(total, done, gen))
  <2> SUFFICES ASSUME ByCondition(total, done, gen).ready
               PROVE  total > 0 /\ ByCondition(total, done, gen).up >= total
    BY <1>4 DEF Sound
  <2>1. done /\ total > 0
    BY <1>4, Zenon
  <2>2. ByCondition(total, done, gen).up = total
    BY <1>4, <2>1
  <2>3. total >= total
    OBVIOUS
  <2> QED BY <2>1, <2>2, <2>3, Zenon
<1> QED BY <1>3, <1>4, <1>5, <1>6

\* What each adapter makes of a vendor's report is a status, and all of them
\* but Grafana's make a sound one.
LEMMA MirrorSound ==
    ASSUME kind \in AllKinds, NEW gen \in Nat,
           NEW u \in [count : Nat, known : Nat, up : Nat, done : BOOLEAN]
    PROVE  /\ Mirror(u, gen) \in Status
           /\ kind # "Grafana" => Sound(Mirror(u, gen))
<1>1. u.count \in Nat /\ u.known \in Nat /\ u.up \in Nat /\ u.done \in BOOLEAN
  OBVIOUS
<1>2. CASE kind \in {"CNPG", "Valkey", "Prometheus"}
  <2>1. Mirror(u, gen) = ByCounts(u.known, u.up, gen)
    BY <1>2 DEF Mirror, CnpgMirror, ValkeyMirror, PrometheusMirror
  <2> QED BY <1>1, <2>1, RulesSound
<1>3. CASE kind = "MariaDB"
  <2>1. Mirror(u, gen) = ByCondition(u.known, u.done, gen)
    BY <1>3 DEF Mirror, MariaDBMirror
  <2> QED BY <1>1, <2>1, RulesSound
<1>4. CASE kind = "RabbitMQ"
  <2>1. Mirror(u, gen) = ByCondition(u.count, u.done, gen)
    BY <1>4 DEF Mirror, RabbitMQMirror
  <2> QED BY <1>1, <2>1, RulesSound
<1>5. CASE kind = "Grafana"
  <2>1. Mirror(u, gen) = [ready |-> u.done, gen |-> gen, total |-> u.count, up |-> u.up]
    BY <1>5 DEF Mirror, GrafanaMirror
  <2> QED BY <1>1, <1>5, <2>1 DEF Status
<1> QED BY <1>2, <1>3, <1>4, <1>5 DEF AllKinds

(***************************************************************************)
(* The inductive invariant.                                                *)
(***************************************************************************)
\* What a call in progress is, and what it becomes.
CallState ==
    [pc : {"idle", "apply", "mirror"}, gen : Nat, count : Nat,
     status : Status, conflict : BOOLEAN]

\* The target of a vendor whose spec asks for one of the counts.
TargetState == [count : Counts, known : Nat, up : Nat, done : BOOLEAN]

\* The polling interval that goes with a status.
Interval(s) == IF s.ready THEN Slow ELSE Fast

LEMMA ConstantsTyped ==
    /\ NoStatus \in Status /\ ~NoStatus.ready
    /\ NoCall \in CallState /\ NoCall.pc = "idle" /\ ~NoCall.status.ready
    /\ Never \in Nat /\ Fast < Never /\ Slow < Never /\ MaxBackoff < Never
    /\ \A s \in Status : Interval(s) \in Nat /\ Interval(s) < Never
BY MirrorAssumption DEF NoStatus, NoCall, CallState, Status, Never, Interval

\* What the invariant says of the status, the call and the clocks.
Rests(c, w, b, a, i) ==
    /\ w \in 0..Never /\ b \in BaseBackoff..MaxBackoff /\ a \in Nat
    /\ b < MaxBackoff => a <= i + (b - BaseBackoff)
    /\ c.pc = "idle" => w # Never
    /\ c.pc = "idle" /\ b < MaxBackoff => a + w <= i + (b - BaseBackoff)

\* The parts of the invariant in these terms.
LEMMA InvParts ==
    MirrorInv <=>
        /\ kind \in Kinds /\ cr \in CR /\ target \in TargetState /\ call \in CallState
        /\ budget \in Budget
        /\ kind # "Grafana" => Sound(cr.status) /\ Sound(call.status)
        /\ call.pc = "apply" => call.count \in Counts
        /\ Rests(call, wake, backoff, age, Interval(cr.status))
BY DEF MirrorInv, TypeOK, MirrorIsRecent, ReadyMeansCounted, CallState, TargetState,
       Interval, Sound, Patience, Rests

LEMMA MirrorInit == Init => MirrorInv
<1> SUFFICES ASSUME Init PROVE MirrorInv
  OBVIOUS
<1>1. kind \in Kinds /\ call = NoCall /\ wake = 0 /\ backoff = BaseBackoff /\ age = 0
  BY DEF Init
<1>2. budget \in Budget
  BY MirrorAssumption DEF Init, Budget
<1>3. PICK n \in Counts :
        /\ cr = [count |-> n, gen |-> 1, status |-> NoStatus, stamp |-> FALSE]
        /\ target = [count |-> n, known |-> 0, up |-> 0, done |-> FALSE]
  BY DEF Init
<1>4. cr \in CR /\ target \in TargetState /\ ~cr.status.ready /\ cr.status \in Status
  BY <1>3, ConstantsTyped DEF CR, TargetState
<1>5. Rests(call, wake, backoff, age, Interval(cr.status))
  <2>1. Interval(cr.status) \in Nat /\ Never \in Nat /\ Never # 0
    BY <1>4, ConstantsTyped, MirrorAssumption
  <2> QED BY <1>1, <2>1, MirrorAssumption DEF Rests
<1> QED BY <1>1, <1>2, <1>4, <1>5, ConstantsTyped, InvParts DEF Sound

\* A call that fails: the delay is paid for by the backoff doubled.
LEMMA ErrorRests ==
    ASSUME NEW i \in Nat, NEW j \in Nat, NEW a, call.pc # "idle",
           Rests(call, wake, backoff, age, i),
           ReturnError, a = 0 \/ (a = age /\ j = i), Due \in {0, wake}
    PROVE  call' = NoCall /\ Rests(NoCall, wake', backoff', a, j)
<1>1. /\ call' = NoCall /\ wake' = Earlier(Due, backoff)
      /\ backoff' = Earlier(2 * backoff, MaxBackoff)
  BY DEF ReturnError
<1>2. wake \in 0..Never /\ backoff \in BaseBackoff..MaxBackoff /\ age \in Nat
  BY DEF Rests
<1>3. /\ wake' \in 0..Never /\ wake' <= backoff /\ wake' # Never
  BY <1>1, <1>2, ConstantsTyped, MirrorAssumption DEF Earlier
<1>4. /\ backoff' \in BaseBackoff..MaxBackoff
      /\ backoff' < MaxBackoff => backoff' = 2 * backoff /\ backoff < MaxBackoff
  BY <1>1, <1>2, MirrorAssumption DEF Earlier
<1>5. ASSUME backoff' < MaxBackoff PROVE a + wake' <= j + (backoff' - BaseBackoff)
  <2>1. a = 0 \/ (a = age /\ j = i /\ age <= i + (backoff - BaseBackoff))
    BY <1>4, <1>5 DEF Rests
  <2> QED BY <1>2, <1>3, <1>4, <1>5, <2>1, MirrorAssumption
<1>6. a \in Nat
  BY <1>2
<1> QED BY <1>1, <1>2, <1>3, <1>4, <1>5, <1>6, MirrorAssumption DEF Rests

\* What ApplyStatus makes of the CR.
LEMMA MirroredTyped ==
    ASSUME cr \in CR, call \in CallState
    PROVE  Mirrored \in CR /\ Mirrored.status = call.status
<1>1. cr.stamp \in BOOLEAN /\ cr.status \in Status /\ call.status \in Status
  BY DEF CR, CallState
<1>2. SetStatusCondition(cr, call.status) \in BOOLEAN
  BY <1>1 DEF SetStatusCondition
<1> QED BY <1>1, <1>2 DEF Mirrored, CR

\* Calls, failures, time, users and vendors keep it.
LEMMA MirrorNext == MirrorInv /\ [Next]_vars => MirrorInv'
<1> SUFFICES ASSUME MirrorInv, [Next]_vars PROVE MirrorInv'
  OBVIOUS
<1>i. /\ kind \in Kinds /\ cr \in CR /\ target \in TargetState /\ call \in CallState
      /\ budget \in Budget
      /\ kind # "Grafana" => Sound(cr.status) /\ Sound(call.status)
      /\ call.pc = "apply" => call.count \in Counts
      /\ Rests(call, wake, backoff, age, Interval(cr.status))
  BY InvParts
<1>c. cr.gen \in Nat /\ cr.count \in Counts /\ cr.status \in Status /\ cr.stamp \in BOOLEAN
  BY <1>i DEF CR
<1>k. call.gen \in Nat /\ call.count \in Nat /\ call.status \in Status /\ call.conflict \in BOOLEAN
  BY <1>i DEF CallState
<1>n. Interval(cr.status) \in Nat /\ Interval(call.status) \in Nat /\ Never \in Nat
  BY <1>c, <1>k, ConstantsTyped
<1>w. wake \in 0..Never /\ backoff \in BaseBackoff..MaxBackoff /\ age \in Nat
  BY <1>i DEF Rests
<1> SUFFICES
      /\ kind' \in Kinds /\ cr' \in CR /\ target' \in TargetState /\ call' \in CallState
      /\ budget' \in Budget
      /\ kind' # "Grafana" => Sound(cr'.status) /\ Sound(call'.status)
      /\ call'.pc = "apply" => call'.count \in Counts
      /\ Rests(call', wake', backoff', age', Interval(cr'.status))
  BY DEF MirrorInv, TypeOK, MirrorIsRecent, ReadyMeansCounted, CallState, TargetState,
         Interval, Sound, Patience, Rests
<1>a. ASSUME call.pc = "apply" PROVE Applied \in TargetState
  BY <1>i, <1>a DEF Applied, TargetState
<1>f. ASSUME Fault PROVE budget' \in Budget
  BY <1>i, <1>f, MirrorAssumption DEF Fault, Budget
<1>1. CASE Begin
  <2>1. /\ call' \in CallState /\ call'.pc = "apply" /\ ~call'.status.ready
        /\ call'.count = cr.count
    BY <1>1, <1>c, MirrorAssumption, ConstantsTyped DEF Begin, NoCall, CallState
  <2>2. /\ call.pc = "idle" /\ wake = 0 /\ wake' = Never
        /\ UNCHANGED <<kind, cr, target, backoff, age, budget>>
    BY <1>1 DEF Begin
  <2>3. Rests(call', wake', backoff', age', Interval(cr'.status))
    BY <1>i, <1>n, <1>w, <2>1, <2>2 DEF Rests
  <2> QED BY <1>i, <1>c, <2>1, <2>2, <2>3 DEF Sound
<1>2. CASE Apply
  <2>1. /\ call.pc = "apply" /\ target' = Applied
        /\ call' = [call EXCEPT !.pc = "mirror", !.status = Mirror(Applied, call.gen)]
        /\ UNCHANGED <<kind, cr, wake, backoff, age, budget>>
    BY <1>2 DEF Apply
  <2>2. /\ Applied \in TargetState
        /\ Applied \in [count : Nat, known : Nat, up : Nat, done : BOOLEAN]
    BY <1>a, <2>1, MirrorAssumption DEF TargetState
  <2>3. /\ Mirror(Applied, call.gen) \in Status
        /\ kind # "Grafana" => Sound(Mirror(Applied, call.gen))
    BY <2>2, <1>i, <1>k, MirrorSound, MirrorAssumption
  <2>4. call' \in CallState /\ call'.pc = "mirror" /\ call'.status = Mirror(Applied, call.gen)
    BY <1>i, <2>1, <2>3 DEF CallState
  <2>5. Rests(call', wake', backoff', age', Interval(cr'.status))
    BY <1>i, <2>1, <2>4 DEF Rests
  <2> QED BY <1>i, <2>1, <2>2, <2>3, <2>4, <2>5
<1>3. CASE ApplyFails
  <2>1. /\ call.pc = "apply" /\ Fault /\ target' \in {target, Applied} /\ ReturnError
        /\ UNCHANGED <<kind, cr, age>>
    BY <1>3 DEF ApplyFails
  <2>2. Due = wake
    BY <2>1 DEF Due
  <2>3. call' = NoCall /\ Rests(NoCall, wake', backoff', age', Interval(cr'.status))
    BY <1>i, <1>n, <2>1, <2>2, ErrorRests
  <2> QED BY <1>i, <1>a, <1>f, <2>1, <2>3, ConstantsTyped DEF Sound
<1>4. CASE UpdateStatus
  <2>1. call.pc = "mirror" /\ UNCHANGED <<kind, target, budget>>
    BY <1>4 DEF UpdateStatus
  <2>2. CASE call.conflict
    <3>1. UNCHANGED <<cr, age>> /\ ReturnError
      BY <1>4, <2>2 DEF UpdateStatus
    <3>2. Due = wake
      BY <3>1 DEF Due
    <3>3. call' = NoCall /\ Rests(NoCall, wake', backoff', age', Interval(cr'.status))
      BY <1>i, <1>n, <2>1, <3>1, <3>2, ErrorRests
    <3> QED BY <1>i, <2>1, <3>1, <3>3, ConstantsTyped DEF Sound
  <2>3. CASE ~call.conflict
    <3>1. /\ call' = NoCall /\ cr' = Mirrored /\ age' = 0 /\ backoff' = BaseBackoff
          /\ wake' = Earlier(Due, RequeueAfter(call.status))
      BY <1>4, <2>3 DEF UpdateStatus
    <3>2. cr' \in CR /\ cr'.status = call.status
      BY <1>i, <3>1, MirroredTyped
    <3>3. Due \in {0, wake}
      BY DEF Due
    <3>4. RequeueAfter(call.status) = Interval(call.status)
      BY DEF RequeueAfter, Interval
    <3>5. Interval(call.status) < Never
      BY <1>k, ConstantsTyped
    <3>6. wake' \in 0..Never /\ wake' # Never /\ wake' <= Interval(call.status)
      BY <1>n, <1>w, <3>1, <3>3, <3>4, <3>5 DEF Earlier
    <3>7. Rests(call', wake', backoff', age', Interval(cr'.status))
      BY <1>n, <3>1, <3>2, <3>6, MirrorAssumption DEF Rests
    <3> QED BY <1>i, <2>1, <3>1, <3>2, <3>7, ConstantsTyped DEF Sound
  <2> QED BY <2>2, <2>3
<1>5. CASE UpdateStatusFails
  <2>1. /\ call.pc = "mirror" /\ Fault /\ ReturnError /\ UNCHANGED <<kind, target>>
        /\ UNCHANGED <<cr, age>> \/ (cr' = Mirrored /\ age' = 0)
    BY <1>5 DEF UpdateStatusFails
  <2>2. cr' \in CR /\ cr'.status \in {cr.status, call.status}
    BY <1>i, <2>1, MirroredTyped
  <2>3. Due \in {0, wake} /\ Interval(cr'.status) \in Nat
    BY <1>n, <2>2 DEF Due
  <2>4. age' = 0 \/ (age' = age /\ Interval(cr'.status) = Interval(cr.status))
    BY <2>1
  <2>5. call' = NoCall /\ Rests(NoCall, wake', backoff', age', Interval(cr'.status))
    BY <1>i, <1>n, <2>1, <2>3, <2>4, ErrorRests
  <2> QED BY <1>i, <1>f, <2>1, <2>2, <2>5, ConstantsTyped DEF Sound
<1>6. CASE Tick
  <2>1. /\ call.pc = "idle" /\ wake # 0 /\ age' = age + 1
        /\ wake' = (IF wake = Never THEN Never ELSE wake - 1)
        /\ UNCHANGED <<kind, cr, target, call, backoff, budget>>
    BY <1>6 DEF Tick
  <2>2. wake # Never
    BY <1>i, <2>1 DEF Rests
  <2>3. wake' \in 0..Never /\ wake' # Never /\ age' \in Nat /\ age' + wake' = age + wake
    BY <1>n, <1>w, <2>1, <2>2
  <2>4. Rests(call', wake', backoff', age', Interval(cr'.status))
    BY <1>i, <1>n, <1>w, <2>1, <2>3, MirrorAssumption DEF Rests
  <2> QED BY <1>i, <2>1, <2>4
<1>7. CASE \E n \in Counts : UserScales(n)
  <2>1. PICK n \in Counts : UserScales(n)
    BY <1>7
  <2>2. cr' \in CR /\ cr'.status = cr.status
    <3>1. cr.gen + 1 \in Nat
      BY <1>c
    <3>2. cr' = [cr EXCEPT !.count = n, !.gen = cr.gen + 1]
      BY <2>1 DEF UserScales
    <3> QED BY <1>i, <3>1, <3>2 DEF CR
  <2>3. call' \in CallState /\ call'.status = call.status /\ call'.pc = call.pc /\ call'.count = call.count
    BY <1>i, <2>1 DEF UserScales, CallState
  <2>4. budget' \in Budget
    BY <1>i, <2>1, MirrorAssumption DEF UserScales, Budget
  <2>5. wake' \in {0, wake} /\ UNCHANGED <<kind, target, backoff, age>>
    BY <2>1 DEF UserScales, Due
  <2>6. Rests(call', wake', backoff', age', Interval(cr'.status))
    <3>1. wake' \in 0..Never /\ (call.pc = "idle" => wake' # Never) /\ age + wake' <= age + wake
      BY <1>i, <1>n, <1>w, <2>5, ConstantsTyped, MirrorAssumption DEF Rests
    <3> QED BY <1>i, <1>n, <1>w, <2>2, <2>3, <2>5, <3>1, MirrorAssumption DEF Rests
  <2> QED BY <1>i, <2>2, <2>3, <2>4, <2>5, <2>6
<1>8. CASE Vendor \/ UnitFails
  <2>1. UNCHANGED <<kind, cr, call, wake, backoff, age>>
    BY <1>8 DEF Vendor, VendorObserves, VendorStarts, VendorStops, VendorJudges, UnitFails,
                VendorStep
  <2>2. budget' \in Budget
    <3>1. CASE Vendor
      BY <1>i, <3>1 DEF Vendor, VendorObserves, VendorStarts, VendorStops, VendorJudges
    <3>2. CASE UnitFails
      BY <1>i, <3>2, MirrorAssumption DEF UnitFails, Budget
    <3> QED BY <1>8, <3>1, <3>2
  <2>3. target' \in TargetState
    <3>0. /\ target.count \in Nat /\ target.count \in Counts /\ target.known \in Nat
          /\ target.up \in Nat /\ target.done \in BOOLEAN
      BY <1>i, MirrorAssumption DEF TargetState
    <3>1. CASE VendorObserves
      BY <1>i, <3>0, <3>1 DEF VendorObserves, VendorStep, TargetState
    <3>2. CASE VendorStarts
      BY <1>i, <3>0, <3>2 DEF VendorStarts, VendorStep, TargetState
    <3>3. CASE VendorStops
      <4>1. target.up - 1 \in Nat
        BY <3>0, <3>3 DEF VendorStops
      <4> QED BY <1>i, <3>3, <4>1 DEF VendorStops, VendorStep, TargetState
    <3>4. CASE VendorJudges
      <4>1. (kind = "Grafana" \/ target.up >= target.count) \in BOOLEAN
        OBVIOUS
      <4> QED BY <1>i, <3>4, <4>1, Zenon DEF VendorJudges, VendorStep, TargetState
    <3>5. CASE UnitFails
      <4>1. target.up - 1 \in Nat
        BY <3>0, <3>5 DEF UnitFails
      <4> QED BY <1>i, <3>5, <4>1 DEF UnitFails, VendorStep, TargetState
    <3> QED BY <1>8, <3>1, <3>2, <3>3, <3>4, <3>5 DEF Vendor
  <2> QED BY <1>i, <2>1, <2>2, <2>3
<1>9. CASE UNCHANGED vars
  BY <1>i, <1>9 DEF vars
<1> QED BY <1>1, <1>2, <1>3, <1>4, <1>5, <1>6, <1>7, <1>8, <1>9 DEF Next, Vendor

(***************************************************************************)
(* Theorems.                                                               *)
(***************************************************************************)
\* Whichever return ends a call, the key is in the work queue afterwards, due
\* before the mirrored status is too old, and no unsound status is ever about
\* to be written (reconciler.go:203-242, ExtractStatus of the adapters).
THEOREM MirrorInductive == Spec => []MirrorInv
<1>1. Init => MirrorInv
  BY MirrorInit
<1>2. MirrorInv /\ [Next]_vars => MirrorInv'
  BY MirrorNext
<1> QED BY <1>1, <1>2, PTL DEF Spec

\* Without a watch on the target, polling and retries bound how old the status
\* is: by the slow interval when it says ready, by the fast one when it does
\* not, and by the delays of the failures since the last success
\* (reconciler.go:127-131, 203-242).
THEOREM StatusRecent == Spec => []MirrorIsRecent
<1>1. MirrorInv => MirrorIsRecent
  BY DEF MirrorInv
<1> QED BY <1>1, MirrorInductive, PTL

\* A CR whose vendor reports by units never says ready for no units, or for
\* fewer ready ones than there are (ExtractStatus of the adapters).
THEOREM ReadySound == Spec => []ReadyMeansCounted
<1>1. MirrorInv => ReadyMeansCounted
  BY DEF MirrorInv
<1> QED BY <1>1, MirrorInductive, PTL
=============================================================================
