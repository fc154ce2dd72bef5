----------------------------- MODULE AdmissionGate -----------------------------
(***************************************************************************)
(* cmd/jaccld/admission.go: the gate that lets data operations in, stops   *)
(* them for a maintenance window and waits for the ones in flight.         *)
(*                                                                         *)
(* Every critical section of g.mu is one action.  The channel g.changed is *)
(* modelled by the goroutines that hold it: a goroutine that captured the  *)
(* current channel is in `parked', and signalLocked, which closes the      *)
(* channel and makes a new one, empties `parked'.  A waiting goroutine     *)
(* whose channel is closed can run again; its context may also expire.     *)
(***************************************************************************)
EXTENDS Naturals, FiniteSets

CONSTANTS Ops,          \* goroutines that call enter
          Maintainers,  \* goroutines that call beginMaintenance
          None

ASSUME GateAssumption ==
    /\ IsFiniteSet(Ops)
    /\ Ops \cap Maintainers = {}
    /\ None \notin Maintainers

VARIABLES maintenance,  \* g.maintenance
          inFlight,     \* g.inFlight
          parked,       \* goroutines holding the current g.changed
          pc            \* where each goroutine is

vars == <<maintenance, inFlight, parked, pc>>

Procs == Ops \cup Maintainers
OpStates == {"idle", "locking", "waiting", "admitted", "panicked"}
MaintainerStates == {"idle", "waiting", "window", "refused"}

Init ==
    /\ maintenance = FALSE
    /\ inFlight = 0
    /\ parked = {}
    /\ pc = [p \in Procs |-> "idle"]

Goto(p, s) == pc' = [pc EXCEPT ![p] = s]

-------------------------------------------------------------------------------
(* Plausible faults of this code, used to show that the properties below can
   tell them from it. *)

FaultEnterNoRecheck(p) ==     \* enter trusts the wakeup and does not loop
    /\ pc[p] = "waiting" /\ p \notin parked
    /\ inFlight' = inFlight + 1
    /\ Goto(p, "admitted")
    /\ UNCHANGED <<maintenance, parked>>

FaultLeaveSilent(p) ==        \* leave forgets signalLocked
    /\ pc[p] = "admitted" /\ inFlight > 0
    /\ Goto(p, "idle")
    /\ inFlight' = inFlight - 1
    /\ UNCHANGED <<maintenance, parked>>

FaultBeginNoDrain(m) ==       \* beginMaintenance does not wait for inFlight
    /\ pc[m] = "idle" /\ ~maintenance
    /\ maintenance' = TRUE
    /\ parked' = {}
    /\ Goto(m, "window")
    /\ UNCHANGED inFlight

FaultEndSilent(m) ==          \* the end function reopens without a signal
    /\ pc[m] = "window"
    /\ maintenance' = FALSE
    /\ Goto(m, "idle")
    /\ UNCHANGED <<inFlight, parked>>

-------------------------------------------------------------------------------
(* enter, and the release function it returns. *)

CallEnter(p) ==
    /\ pc[p] = "idle"
    /\ Goto(p, "locking")
    /\ UNCHANGED <<maintenance, inFlight, parked>>

EnterAdmitted(p) ==
    /\ pc[p] = "locking" /\ ~maintenance
    /\ inFlight' = inFlight + 1
    /\ Goto(p, "admitted")
    /\ UNCHANGED <<maintenance, parked>>

EnterParks(p) ==
    /\ pc[p] = "locking" /\ maintenance
    /\ parked' = parked \cup {p}
    /\ Goto(p, "waiting")
    /\ UNCHANGED <<maintenance, inFlight>>

\* `case <-changed': back to the top of the loop.
EnterWakes(p) ==
    /\ pc[p] = "waiting" /\ p \notin parked
    /\ Goto(p, "locking")
    /\ UNCHANGED <<maintenance, inFlight, parked>>

\* `case <-ctx.Done()': select may also choose it when changed is closed.
EnterCancelled(p) ==
    /\ pc[p] = "waiting"
    /\ parked' = parked \ {p}
    /\ Goto(p, "idle")
    /\ UNCHANGED <<maintenance, inFlight>>

\* leave signals only when the last operation goes.
Leave(p) ==
    /\ pc[p] = "admitted"
    /\ IF inFlight = 0
         THEN Goto(p, "panicked") /\ UNCHANGED <<inFlight, parked>>
         ELSE /\ Goto(p, "idle")
              /\ inFlight' = inFlight - 1
              /\ parked' = IF inFlight = 1 THEN {} ELSE parked
    /\ UNCHANGED maintenance

-------------------------------------------------------------------------------
(* beginMaintenance, and the end function it returns. *)

BeginRefused(m) ==
    /\ pc[m] = "idle" /\ maintenance
    /\ Goto(m, "refused")
    /\ UNCHANGED <<maintenance, inFlight, parked>>

ReturnRefused(m) ==
    /\ pc[m] = "refused"
    /\ Goto(m, "idle")
    /\ UNCHANGED <<maintenance, inFlight, parked>>

\* Stop admission, signal, and test inFlight in one critical section: the
\* channel the loop captures is the one signalLocked has just made.
BeginMaintenance(m) ==
    /\ pc[m] = "idle" /\ ~maintenance
    /\ maintenance' = TRUE
    /\ IF inFlight > 0
         THEN parked' = {m} /\ Goto(m, "waiting")
         ELSE parked' = {}  /\ Goto(m, "window")
    /\ UNCHANGED inFlight

DrainWakes(m) ==
    /\ pc[m] = "waiting" /\ m \notin parked
    /\ IF inFlight > 0
         THEN parked' = parked \cup {m} /\ UNCHANGED pc
         ELSE Goto(m, "window") /\ UNCHANGED parked
    /\ UNCHANGED <<maintenance, inFlight>>

DrainCancelled(m) ==
    /\ pc[m] = "waiting"
    /\ maintenance' = FALSE
    /\ parked' = {}
    /\ Goto(m, "idle")
    /\ UNCHANGED inFlight

EndMaintenance(m) ==
    /\ pc[m] = "window"
    /\ maintenance' = FALSE
    /\ parked' = {}
    /\ Goto(m, "idle")
    /\ UNCHANGED inFlight

-------------------------------------------------------------------------------
OpNext(p) ==
    \/ CallEnter(p) \/ EnterAdmitted(p) \/ EnterParks(p)
    \/ EnterWakes(p) \/ EnterCancelled(p) \/ Leave(p)

MaintainerNext(m) ==
    \/ BeginRefused(m) \/ ReturnRefused(m) \/ BeginMaintenance(m)
    \/ DrainWakes(m) \/ DrainCancelled(m) \/ EndMaintenance(m)

Next == (\E p \in Ops : OpNext(p)) \/ (\E m \in Maintainers : MaintainerNext(m))

Spec == Init /\ [][Next]_vars

\* A runnable goroutine is eventually scheduled, an admitted operation ends and
\* a maintenance window ends.  Nothing forces a call or an expiring context.
Fairness ==
    /\ \A p \in Ops :
         WF_vars(EnterAdmitted(p) \/ EnterParks(p) \/ EnterWakes(p)) /\ WF_vars(Leave(p))
    /\ \A m \in Maintainers :
         WF_vars(DrainWakes(m)) /\ WF_vars(EndMaintenance(m))

FairSpec == Spec /\ Fairness

-------------------------------------------------------------------------------
(* Type invariant: flags, the counter and every goroutine's place. *)
TypeOK ==
    /\ maintenance \in BOOLEAN
    /\ inFlight \in Nat
    /\ parked \subseteq Procs
    /\ pc \in [Procs -> OpStates \cup MaintainerStates]
    /\ \A p \in Ops : pc[p] \in OpStates
    /\ \A m \in Maintainers : pc[m] \in MaintainerStates

Admitted == {p \in Ops : pc[p] = "admitted"}
Owners == {m \in Maintainers : pc[m] \in {"waiting", "window"}}

(* beginMaintenance "stops new data operations and waits for active ones to
   drain": while a maintainer has its window no operation is admitted. *)
WindowExcludesOps ==
    \A m \in Maintainers : pc[m] = "window" => Admitted = {}

(* Of two concurrent beginMaintenance calls one is refused: the flag belongs to
   a single maintainer, so a cancelled drain cannot reopen someone else's
   window. *)
OneMaintainer == \A m, n \in Owners : m = n

(* leave never runs with inFlight = 0, so its panic is unreachable: the counter
   is exactly the number of operations between enter and release. *)
NoPanic ==
    /\ inFlight = Cardinality(Admitted)
    /\ \A p \in Ops : pc[p] # "panicked"

(* No lost wakeup: a goroutine blocked on a channel that is still open has what
   it waits for ahead of it - enter a window that will end, beginMaintenance an
   operation that will leave and signal. *)
NoLostWakeup ==
    /\ \A p \in Ops : p \in parked => maintenance
    /\ \A m \in Maintainers : m \in parked => inFlight > 0

\* The flag is the mark of the one owner, and only waiting goroutines park.
FlagIsOwners ==
    /\ maintenance <=> Owners # {}
    /\ \A p \in parked : pc[p] = "waiting"

\* The invariant of admission.go, inductive as it stands: while a maintainer has
\* its window no operation is admitted, the gate has one owner, the counter is
\* exact and no wakeup is lost.  OneMaintainer and FlagIsOwners make the reopening
\* steps the owner's own, NoPanic ties the counter that beginMaintenance tests to
\* the operations it stands for, NoLostWakeup needs both.
IInv ==
    /\ TypeOK
    /\ WindowExcludesOps
    /\ OneMaintainer
    /\ NoPanic
    /\ NoLostWakeup
    /\ FlagIsOwners

(* Liveness: a draining beginMaintenance returns, because admission is closed
   and the operations in flight leave. *)
DrainReturns ==
    \A m \in Maintainers : pc[m] = "waiting" ~> pc[m] # "waiting"

(* Liveness: once maintenance has ended for good, no enter stays blocked on
   some earlier window's channel. *)
EntersAfterMaintenance ==
    <>[](~maintenance) => \A p \in Ops : [](pc[p] = "waiting" => <>(pc[p] # "waiting"))

-------------------------------------------------------------------------------
(* Refinement: the promise of AbstractGate, which the transport relies on. *)
Gate == INSTANCE AbstractGate WITH
    admitted <- Admitted,
    owner <- IF Owners = {} THEN None ELSE CHOOSE m \in Owners : TRUE,
    window <- \E m \in Maintainers : pc[m] = "window"

(* The gate implements AbstractGate: every critical section of admission.go is
   one of its steps or changes nothing the transport can see. *)
ImplementsGate == Gate!Spec
===============================================================================
