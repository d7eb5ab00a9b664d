--------------------------- MODULE ManagerProofs ---------------------------
(***************************************************************************)
(* One process leads at a time, for any set of processes and any lease     *)
(* whose holder gives up before it expires.                                *)
(***************************************************************************)
EXTENDS Manager, TLAPS

\* The six controllers are set up one by one.
LEMMA SetupOrderFacts ==
    /\ Len(SetupOrder) = 6
    /\ \A i \in 1..6 : SetupOrder[i] \in Kind
BY DEF SetupOrder, Kind, ControllerName

\* At the start nobody leads (main.go: no process runs).
LEMMA LeaseInit == Init => LeaseInv
<1> SUFFICES ASSUME Init PROVE LeaseInv
  OBVIOUS
<1>1. Down \in MainState
  BY SetupOrderFacts DEF Down, MainState, Phase
<1>2. TypeOK
  BY <1>1, LeaseAssumption DEF Init, TypeOK, Budget
<1> QED BY <1>2 DEF Init, LeaseInv, Leading, Down

\* A process that changes its own state to one that does not lead, or that
\* led before, leaves everyone's hold on the lease as it was.
LEMMA BecomeKeepsHold ==
    ASSUME LeaseInv, NEW p \in Process,
           NEW state \in MainState,
           Become(p, state), state.phase \in {"active", "draining"} => Leading(p),
           since' = since \/ /\ state.phase \notin {"active", "draining"}
                             /\ since' = [since EXCEPT ![p] = 0],
           budget' \in Budget
    PROVE  LeaseInv'
<1>1. TypeOK'
  BY LeaseAssumption DEF LeaseInv, TypeOK, Become
<1>2. ASSUME NEW q \in Process, Leading(q)' PROVE holder' = q /\ age' <= since'[q]
  <2>1. CASE q = p
    BY <1>2, <2>1 DEF LeaseInv, TypeOK, Become, Leading
  <2>2. CASE q # p
    BY <1>2, <2>2 DEF LeaseInv, TypeOK, Become, Leading
  <2> QED BY <2>1, <2>2
<1> QED BY <1>1, <1>2 DEF LeaseInv

\* The budget only shrinks.
LEMMA SpendKeepsBudget ==
    ASSUME TypeOK, Spend
    PROVE  budget' \in Budget
BY LeaseAssumption DEF TypeOK, Spend, Budget

\* Nobody leads when the lease is free to take: a holder has given up by then.
LEMMA FreeMeansIdle ==
    ASSUME LeaseInv, holder = Nobody \/ age = LeaseDuration,
           NEW p \in Process
    PROVE  ~Leading(p)
BY LeaseAssumption, HolderAssumption DEF LeaseInv, TypeOK

\* The steps of main() of a process, and those of the network, keep LeaseInv.
LEMMA StepKeepsLease ==
    ASSUME LeaseInv, NEW p \in Process, Step(p)
    PROVE  LeaseInv'
<1>t. TypeOK BY DEF LeaseInv
<1>0. proc[p] \in MainState
  BY <1>t DEF TypeOK
<1>d. Down \in MainState
  BY SetupOrderFacts DEF Down, MainState, Phase
<1>1. CASE Launch(p)
  <2> DEFINE new == [Down EXCEPT !.phase = "setup"]
  <2>1. /\ new \in MainState
        /\ new.phase = "setup"
    BY SetupOrderFacts DEF Down, MainState, Phase
  <2>2. Become(p, new) /\ since' = since /\ budget' = budget
    BY <1>1 DEF Launch
  <2> HIDE DEF new
  <2> QED BY <1>t, <2>1, <2>2, BecomeKeepsHold DEF TypeOK
<1>2. CASE SetupController(p)
  <2> DEFINE new == [proc[p] EXCEPT !.step = @ + 1,
                       !.serves = @ \cup {SetupOrder[proc[p].step]}]
  <2>1. /\ new \in MainState
        /\ new.phase = "setup"
    <3>1. proc[p].step \in 1..6 /\ proc[p].phase = "setup" /\ proc[p].serves \in SUBSET Kind
      BY <1>0, <1>2, SetupOrderFacts DEF SetupController, MainState
    <3>2. proc[p].serves \cup {SetupOrder[proc[p].step]} \in SUBSET Kind
      BY <3>1, SetupOrderFacts
    <3>3. proc[p].step + 1 \in 1..Len(SetupOrder) + 1
      BY <3>1, SetupOrderFacts
    <3> QED BY <1>0, <3>1, <3>2, <3>3 DEF MainState
  <2>2. Become(p, new) /\ since' = since /\ budget' = budget
    BY <1>2 DEF SetupController
  <2> HIDE DEF new
  <2> QED BY <1>t, <2>1, <2>2, BecomeKeepsHold DEF TypeOK
<1>3. CASE SetupFails(p)
  BY <1>t, <1>d, <1>3, BecomeKeepsHold, SpendKeepsBudget DEF SetupFails, Down
<1>4. CASE Start(p)
  <2> DEFINE new == [proc[p] EXCEPT !.phase = "standby"]
  <2>1. /\ new \in MainState
        /\ new.phase = "standby"
    BY <1>0 DEF MainState, Phase
  <2>2. Become(p, new) /\ since' = since /\ budget' = budget
    BY <1>4 DEF Start
  <2> HIDE DEF new
  <2> QED BY <1>t, <2>1, <2>2, BecomeKeepsHold DEF TypeOK
<1>5. CASE Acquire(p)
  <2>1. \A q \in Process : ~Leading(q)
    BY <1>5, FreeMeansIdle DEF Acquire
  <2>2. TypeOK'
    <3>1. [proc[p] EXCEPT !.phase = "active"] \in MainState
      BY <1>0 DEF MainState, Phase
    <3>2. proc' \in [Process -> MainState]
      BY <1>t, <1>5, <3>1 DEF Acquire, TypeOK
    <3>3. age' \in 0..LeaseDuration /\ since' \in [Process -> 0..RenewDeadline]
      BY <1>t, <1>5, LeaseAssumption DEF Acquire, TypeOK
    <3> QED BY <1>t, <1>5, <3>2, <3>3 DEF Acquire, TypeOK
  <2>3. ASSUME NEW q \in Process, Leading(q)' PROVE holder' = q /\ age' <= since'[q]
    <3>1. q = p
      BY <1>t, <1>5, <2>1, <2>3 DEF Acquire, TypeOK, Leading
    <3> QED BY <1>t, <1>5, <3>1 DEF Acquire, TypeOK
  <2> QED BY <2>2, <2>3 DEF LeaseInv
<1>6. CASE Renew(p)
  <2>1. TypeOK'
    BY <1>t, <1>6, LeaseAssumption DEF Renew, TypeOK
  <2>2. ASSUME NEW q \in Process, Leading(q)' PROVE holder' = q /\ age' <= since'[q]
    BY <1>6, <2>2, LeaseAssumption DEF Renew, LeaseInv, TypeOK, Leading
  <2> QED BY <2>1, <2>2 DEF LeaseInv
<1>7. CASE LoseLease(p)
  BY <1>t, <1>d, <1>7, BecomeKeepsHold DEF LoseLease, TypeOK, Down
<1>7a. CASE LoseLeaseDraining(p)
  <2> DEFINE new == [proc[p] EXCEPT !.phase = "deposed"]
  <2>1. /\ new \in MainState
        /\ new.phase = "deposed"
    BY <1>0 DEF MainState, Phase
  <2>2. /\ Become(p, new) /\ since' = [since EXCEPT ![p] = 0] /\ budget' = budget
    BY <1>7a DEF LoseLeaseDraining
  <2> HIDE DEF new
  <2> QED BY <1>t, <2>1, <2>2, BecomeKeepsHold DEF TypeOK
<1>8. CASE Terminate(p)
  <2>1. CASE Leading(p)
    <3> DEFINE new == [proc[p] EXCEPT !.phase = "draining"]
    <3>1. new \in MainState
      BY <1>0 DEF MainState, Phase
    <3>2. Become(p, new) /\ since' = since /\ Spend
      BY <1>8, <2>1 DEF Terminate
    <3> HIDE DEF new
    <3> QED BY <1>t, <2>1, <3>1, <3>2, BecomeKeepsHold, SpendKeepsBudget
  <2>2. CASE ~Leading(p)
    <3>1. Become(p, Down) /\ since' = since /\ Spend
      BY <1>8, <2>2 DEF Terminate
    <3> QED BY <1>t, <1>d, <3>1, BecomeKeepsHold, SpendKeepsBudget DEF Down
  <2> QED BY <2>1, <2>2
<1>9. CASE Drained(p)
  BY <1>t, <1>d, <1>9, BecomeKeepsHold DEF Drained, TypeOK, Down
<1>10. CASE Crash(p)
  BY <1>t, <1>d, <1>10, BecomeKeepsHold, SpendKeepsBudget DEF Crash, Down
<1>11. CASE CutOff(p)
  <2>1. budget' \in Budget
    BY <1>t, <1>11, LeaseAssumption DEF CutOff, TypeOK, Budget
  <2> QED BY <1>11, <2>1 DEF CutOff, LeaseInv, TypeOK, Leading
<1>12. CASE Heal(p)
  BY <1>12 DEF Heal, LeaseInv, TypeOK, Leading
<1> QED
  BY <1>1, <1>2, <1>3, <1>4, <1>5, <1>6, <1>7, <1>7a, <1>8, <1>9, <1>10, <1>11, <1>12
     DEF Step

\* Time passes for the lease and for its holder alike, and stops short of the
\* holder's deadline.
LEMMA TickKeepsLease ==
    ASSUME LeaseInv, Tick
    PROVE  LeaseInv'
<1>1. ASSUME NEW p \in Process
      PROVE  /\ since'[p] \in 0..RenewDeadline
             /\ Leading(p) => since'[p] = since[p] + 1
  BY LeaseAssumption DEF LeaseInv, TypeOK, Tick
<1>2. TypeOK'
  BY <1>1, LeaseAssumption DEF LeaseInv, TypeOK, Tick
<1>3. ASSUME NEW p \in Process, Leading(p)' PROVE holder' = p /\ age' <= since'[p]
  <2>1. Leading(p)
    BY <1>3 DEF Tick, Leading
  <2> QED BY <1>1, <2>1, LeaseAssumption DEF LeaseInv, TypeOK, Tick
<1> QED BY <1>2, <1>3 DEF LeaseInv

\* A process that leads holds a lease no older than it believes, whatever
\* processes start, fail, are cut off or are told to end (main.go:157-233).
THEOREM LeaseHeld == Spec => []LeaseInv
<1>1. LeaseInv /\ [Next]_vars => LeaseInv'
  <2> SUFFICES ASSUME LeaseInv, [Next]_vars PROVE LeaseInv'
    OBVIOUS
  <2>1. CASE Tick
    BY <2>1, TickKeepsLease
  <2>2. CASE \E p \in Process : Step(p)
    BY <2>2, StepKeepsLease
  <2>3. CASE UNCHANGED vars
    BY <2>3 DEF vars, LeaseInv, TypeOK, Leading
  <2> QED BY <2>1, <2>2, <2>3 DEF Next
<1> QED BY <1>1, LeaseInit, PTL DEF Spec

\* Never do two processes lead at the same time, however many processes there
\* are and whatever the durations, as long as the holder's deadline comes before
\* the lease runs out (main.go:69-71, 162).
THEOREM SingleManager == Spec => []OneActive
<1>1. LeaseInv => OneActive
  BY DEF LeaseInv, OneActive
<1> QED BY <1>1, LeaseHeld, PTL
=============================================================================
