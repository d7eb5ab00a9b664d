------------------------------ MODULE Handover ------------------------------
(***************************************************************************)
(* Writes that outlive the call that sent them. A request that failed for  *)
(* its caller, or whose caller is no more, may still be on its way to the  *)
(* API server and take effect later: after the retry, or after a handover, *)
(* when the next leader is at work. Leader election keeps two managers     *)
(* from working at once (module Manager); it recalls no request.           *)
(*                                                                         *)
(* Reconciler has the failures whose outcome is settled when the caller    *)
(* hears of them. Here the outcome is open until the request lands.        *)
(***************************************************************************)
EXTENDS Reconciler

VARIABLES
    late,    \* requests on their way whose caller has gone on without them
    stray    \* <<o, k>>: a late apply of o landed when k was deleted or gone

hvars == <<vars, late, stray>>

(***************************************************************************)
(* Requests.                                                               *)
(***************************************************************************)
Verb == {"addFinalizer", "apply", "delete", "updateStatus", "removeFinalizer"}

\* obj is the object an apply or a delete is about; rv the version of the CR
\* key its body was built from; ready the readiness a status write carries.
Request ==
    [verb : Verb, key : Key, obj : Object, rv : Nat, ready : BOOLEAN]

HandoverTypeOK ==
    /\ TypeOK
    /\ late \subseteq Request
    /\ stray \subseteq Object \X Key

\* The write the call of k is making, if it is making one: none of them but
\* the Updates says which version of anything it is meant for.
Pending(k) ==
    LET c == run[k]
        Send(verb, o) == {[verb |-> verb, key |-> k, obj |-> o, rv |-> c.rv, ready |-> c.ready]}
    IN CASE c.pc = "addFinalizer" -> Send("addFinalizer", Target[k])
         [] c.pc = "apply" -> Send("apply", Target[k])
         [] c.pc = "deleteTarget" -> Send("delete", Target[k])
         [] c.pc = "extras" /\ c.idx <= Len(Extra[k]) ->
                Send(IF Read(k).spec.expose THEN "apply" ELSE "delete", Extra[k][c.idx])
         [] c.pc = "deleteExtras" /\ c.idx <= Len(Extra[k]) ->
                Send("delete", Extra[k][c.idx])
         [] c.pc = "extras" /\ c.idx > Len(Extra[k]) -> Send("updateStatus", Target[k])
         [] c.pc = "deleteExtras" /\ c.idx > Len(Extra[k]) ->
                Send("removeFinalizer", Target[k])
         [] OTHER -> {}

(***************************************************************************)
(* Losing sight of a request.                                              *)
(***************************************************************************)
\* The connection breaks: an error to the caller, which starts again.
LeaveBehind(k) ==
    /\ Pending(k) # {}
    /\ FailCall(k)
    /\ late' = late \cup Pending(k)
    /\ UNCHANGED stray

\* The leader dies or is deposed in the middle of its calls, and the next one
\* starts from a fresh list of all CRs.
Handover ==
    /\ Restart
    /\ late' = late \cup UNION {Pending(k) : k \in Key}
    /\ UNCHANGED stray

(***************************************************************************)
(* A late request arrives.                                                 *)
(***************************************************************************)
Arrive(w) ==
    /\ w \in late
    /\ late' = late \ {w}
    /\ UNCHANGED <<seen, queue, poll, run, announced, budget>>

\* Server-Side Apply creates what is not there and, with ForceOwnership,
\* overrules what is.
LandApply(w) ==
    /\ w.verb = "apply"
    /\ Arrive(w)
    /\ objects' = [objects EXCEPT
         ![w.obj] = [phase |-> IF @.phase = "absent" THEN "live" ELSE @.phase,
                     owner |-> w.key, rev |-> w.rv, ready |-> @.ready]]
    /\ stray' = IF Branch(Cur(w.key)) = "getTarget" THEN stray
                ELSE stray \cup {<<w.obj, w.key>>}
    /\ UNCHANGED history

\* A delete by name.
LandDelete(w) ==
    /\ w.verb = "delete"
    /\ Arrive(w)
    /\ DeleteObject(w.obj)
    /\ UNCHANGED <<history, stray>>

\* What an Update from version w.rv would store.
Stored(w) ==
    LET s == history[w.key][w.rv] IN
    CASE w.verb = "addFinalizer"    -> WriteBack(s, TRUE)
      [] w.verb = "removeFinalizer" -> WriteBack(s, FALSE)
      [] w.verb = "updateStatus"    ->
             [s EXCEPT !.status = [gen |-> s.gen, ready |-> w.ready]]

\* Slip: the Updates are sent without a resourceVersion.
LandUpdateForced(w) ==
    /\ w.verb \notin {"apply", "delete"}
    /\ Arrive(w)
    /\ Cur(w.key).present
    /\ Store(w.key, Stored(w))
    /\ UNCHANGED <<objects, stray>>

\* An Update or Status().Update is refused unless its version is current.
LandUpdate(w) ==
    /\ w.verb \notin {"apply", "delete"}
    /\ Arrive(w)
    /\ IF w.rv = Len(history[w.key]) THEN Store(w.key, Stored(w))
       ELSE UNCHANGED history
    /\ UNCHANGED <<objects, stray>>

(***************************************************************************)
(* Specification.                                                          *)
(***************************************************************************)
HandoverInit == Init /\ late = {} /\ stray = {}

HandoverNext ==
    \/ Next /\ UNCHANGED <<late, stray>>
    \/ \E k \in Key : LeaveBehind(k)
    \/ Handover
    \/ \E w \in late : LandApply(w) \/ LandDelete(w) \/ LandUpdate(w)

\* Nothing makes a late request arrive.
HandoverSpec == HandoverInit /\ [][HandoverNext]_hvars /\ Fairness

(***************************************************************************)
(* Properties.                                                             *)
(***************************************************************************)
\* A late apply that lands on a CR in its deletion, or gone, is the one thing
\* that can leave an object behind without a CR that has the finalizer: the
\* retries and the next leader, which meet objects and versions they did not
\* expect, add no orphan of their own (reconciler.go:142-243, main.go:157-180).
OnlyStraysOrphaned ==
    \A o \in Object : objects[o].phase = "live" =>
        \/ Cur(objects[o].owner).fin
        \/ <<o, objects[o].owner>> \in stray

\* A live target is taken from a CR in the operator's care, and not being
\* deleted, only by a late delete in the very step in which it lands: no retry
\* and no next leader repeats it on a CR created since (reconciler.go:158-162).
OnlyLateDeletes ==
    [][\A k \in Key :
        /\ Cur(k).fin
        /\ objects[Target[k]].phase = "live"
        /\ objects'[Target[k]].phase # "live"
        /\ budget'.drift = budget.drift
        => \/ Cur(k).deleting
           \/ \E w \in late \ late' : w.verb = "delete" /\ w.obj = Target[k]]_hvars

\* Whatever lands late, only users change a spec, and nothing brings a removed
\* CR back: the Updates are fenced by the resourceVersion (reconciler.go:179,
\* 195, 232).
NoLostEditLate ==
    [][budget'.edits = budget.edits =>
        \A k \in Key : Cur(k)'.present =>
            Cur(k).present /\ Cur(k)'.spec = Cur(k).spec]_hvars

\* A CR that stays gets what it asks for all the same, whenever the request
\* lands: the next poll repairs what a late apply or delete did. One that goes
\* leaves at most what a late apply left (reconciler.go:127-131, 238-242).
Recovers ==
    \A k \in Key :
        <>[](\/ Converged(k)
             \/ /\ ~Cur(k).present
                /\ \E o \in {Target[k]} \cup Range(Extra[k]) : <<o, k>> \in stray)

(***************************************************************************)
(* The inductive invariant behind the safety properties.                   *)
(***************************************************************************)
\* What is true of a request as long as it is on its way. The version it was
\* built from has been in the cache, and no call in progress works on an
\* earlier one; it is about an object of its key; an Update is the one that
\* version calls for; and the one that releases the finalizer, if it still can
\* be accepted, leaves nothing behind but strays.
Accountable(w) ==
    /\ w.rv \in 1..seen[w.key]
    /\ run[w.key].pc # "idle" => w.rv <= run[w.key].rv
    /\ w.obj = Target[w.key] \/ w.obj \in Range(Extra[w.key])
    /\ w.verb = "addFinalizer" => Branch(history[w.key][w.rv]) = "addFinalizer"
    /\ w.verb = "removeFinalizer" =>
         /\ Branch(history[w.key][w.rv]) = "deleteTarget"
         /\ w.rv = Len(history[w.key]) =>
              \A o \in Object : Owns(w.key, o) => <<o, w.key>> \in stray

\* The invariant of the reconciler holds but for the strays, and every late
\* request is accountable (reconciler.go:142-243).
HandoverInv ==
    /\ HandoverTypeOK
    /\ InvBut(stray)
    /\ \A w \in late : Accountable(w)
=============================================================================
