-------------------------- MODULE AdmissionGateProofs --------------------------
(***************************************************************************)
(* The gate is correct for any number of data operations and maintainers.  *)
(***************************************************************************)
EXTENDS AdmissionGate, FiniteSetTheorems, TLAPS

\* An operation that enters raises the number of admitted operations by one, one
\* that leaves lowers it by one.
LEMMA CountAdmitted ==
    ASSUME NEW S, IsFiniteSet(S), NEW x
    PROVE  /\ x \notin S => Cardinality(S \cup {x}) = Cardinality(S) + 1
           /\ x \in S => Cardinality(S \ {x}) = Cardinality(S) - 1
           /\ Cardinality(S) \in Nat
           /\ Cardinality(S) = 0 <=> S = {}
  BY FS_AddElement, FS_RemoveElement, FS_CardinalityType, FS_EmptySet

LEMMA AdmittedFinite == IsFiniteSet(Admitted)
  BY GateAssumption, FS_Subset DEF Admitted

\* No goroutine has called anything yet, so the gate starts in the invariant.
LEMMA InitInv == Init => IInv
<1> SUFFICES ASSUME Init PROVE IInv
  OBVIOUS
<1>1. TypeOK
  BY DEF Init, TypeOK, OpStates, MaintainerStates, Procs
<1>2. Admitted = {} /\ Owners = {}
  BY DEF Init, Admitted, Owners, Procs
<1>3. NoPanic
  BY <1>2, FS_EmptySet DEF Init, NoPanic, Procs
<1> QED
  BY <1>1, <1>2, <1>3 DEF Init, IInv, WindowExcludesOps, OneMaintainer,
     NoLostWakeup, FlagIsOwners

\* Steps of enter and release: they touch only Ops' places in the code.
LEMMA OpStep ==
    ASSUME IInv, NEW p \in Ops, OpNext(p)
    PROVE  IInv'
<1> USE DEF OpStates, MaintainerStates, Procs
<1>0. p \in Procs /\ p \notin Maintainers /\ pc \in [Procs -> OpStates \cup MaintainerStates]
  BY GateAssumption DEF IInv, TypeOK
<1>1. TypeOK /\ WindowExcludesOps /\ OneMaintainer /\ NoPanic /\ NoLostWakeup /\ FlagIsOwners
  BY DEF IInv
<1>2. ASSUME NEW s \in OpStates, Goto(p, s)
      PROVE  /\ \A q \in Procs : pc'[q] = IF q = p THEN s ELSE pc[q]
             /\ pc' \in [Procs -> OpStates \cup MaintainerStates]
             /\ \A q \in Ops : pc'[q] \in OpStates
             /\ \A m \in Maintainers : pc'[m] = pc[m] /\ pc'[m] \in MaintainerStates
             /\ Owners' = Owners
             /\ Admitted' = IF s = "admitted" THEN Admitted \cup {p} ELSE Admitted \ {p}
  BY <1>0, <1>1, <1>2 DEF Goto, TypeOK, Owners, Admitted
<1>3. /\ p \notin Admitted => Cardinality(Admitted \cup {p}) = Cardinality(Admitted) + 1
      /\ p \in Admitted => Cardinality(Admitted \ {p}) = Cardinality(Admitted) - 1
      /\ Cardinality(Admitted) \in Nat
      /\ Cardinality(Admitted) = 0 <=> Admitted = {}
  BY AdmittedFinite, CountAdmitted
<1>4. p \in Admitted <=> pc[p] = "admitted"
  BY DEF Admitted
<1>5. CASE CallEnter(p) \/ EnterParks(p) \/ EnterWakes(p) \/ EnterCancelled(p)
  <2>1. PICK s \in {"idle", "locking", "waiting"} : Goto(p, s)
    BY <1>5 DEF CallEnter, EnterParks, EnterWakes, EnterCancelled
  <2>2. /\ p \notin Admitted /\ pc[p] \in {"idle", "locking", "waiting"}
        /\ UNCHANGED <<maintenance, inFlight>>
        /\ \/ parked' = parked /\ (p \in parked => pc[p] = "idle" \/ pc[p] = "locking")
           \/ parked' = parked \ {p}
           \/ parked' = parked \cup {p} /\ maintenance /\ s = "waiting"
    BY <1>0, <1>1, <1>4, <1>5, <2>1 DEF CallEnter, EnterParks, EnterWakes,
       EnterCancelled, Goto
  <2>3. Admitted' = Admitted /\ Owners' = Owners
    BY <1>2, <2>1, <2>2
  <2>4. TypeOK'
    BY <1>1, <1>2, <2>1, <2>2, <1>0 DEF TypeOK
  <2>5. WindowExcludesOps' /\ OneMaintainer'
    BY <1>1, <1>2, <2>1, <2>3 DEF WindowExcludesOps, OneMaintainer
  <2>6. NoPanic'
    BY <1>1, <1>2, <2>1, <2>2, <2>3 DEF NoPanic
  <2>7. NoLostWakeup'
    BY <1>0, <1>1, <2>2 DEF NoLostWakeup
  <2>8. FlagIsOwners'
    BY <1>0, <1>1, <1>2, <2>1, <2>2, <2>3 DEF FlagIsOwners, TypeOK
  <2> QED
    BY <2>4, <2>5, <2>6, <2>7, <2>8 DEF IInv
<1>6. CASE EnterAdmitted(p)
  <2>1. Goto(p, "admitted") /\ pc[p] = "locking" /\ ~maintenance
        /\ inFlight' = inFlight + 1 /\ UNCHANGED <<maintenance, parked>>
    BY <1>6 DEF EnterAdmitted
  <2>2. Admitted' = Admitted \cup {p} /\ p \notin Admitted /\ Owners' = Owners /\ Owners = {}
    BY <1>1, <1>2, <1>4, <2>1 DEF FlagIsOwners
  <2>3. TypeOK'
    BY <1>1, <1>2, <2>1 DEF TypeOK
  <2>4. WindowExcludesOps' /\ OneMaintainer'
    BY <1>2, <2>1, <2>2 DEF WindowExcludesOps, OneMaintainer, Owners
  <2>5. NoPanic'
    BY <1>0, <1>1, <1>2, <1>3, <2>1, <2>2 DEF NoPanic
  <2>6. NoLostWakeup'
    BY <1>1, <2>1 DEF NoLostWakeup, TypeOK
  <2>7. FlagIsOwners'
    BY <1>1, <1>2, <2>1, <2>2 DEF FlagIsOwners, TypeOK
  <2> QED
    BY <2>3, <2>4, <2>5, <2>6, <2>7 DEF IInv
<1>7. CASE Leave(p)
  <2>1. p \in Admitted /\ inFlight # 0 /\ inFlight \in Nat
    BY <1>1, <1>3, <1>4, <1>7 DEF Leave, NoPanic, TypeOK
  <2>2. /\ Goto(p, "idle") /\ pc[p] = "admitted"
        /\ inFlight' = inFlight - 1
        /\ parked' = IF inFlight = 1 THEN {} ELSE parked
        /\ UNCHANGED maintenance
    BY <1>7, <2>1 DEF Leave
  <2>3. Admitted' = Admitted \ {p} /\ Owners' = Owners
    BY <1>2, <2>2
  <2>4. TypeOK'
    BY <1>1, <1>2, <2>1, <2>2 DEF TypeOK
  <2>5. WindowExcludesOps' /\ OneMaintainer'
    BY <1>1, <1>2, <2>2, <2>3 DEF WindowExcludesOps, OneMaintainer
  <2>6. NoPanic'
    BY <1>0, <1>1, <1>2, <1>3, <2>1, <2>2, <2>3 DEF NoPanic
  <2>7. NoLostWakeup'
    BY <1>1, <2>1, <2>2 DEF NoLostWakeup
  <2>8. FlagIsOwners'
    BY <1>1, <1>2, <2>2, <2>3 DEF FlagIsOwners, TypeOK
  <2> QED
    BY <2>4, <2>5, <2>6, <2>7, <2>8 DEF IInv
<1> QED
  BY <1>5, <1>6, <1>7 DEF OpNext

\* Steps of beginMaintenance and its end function.
LEMMA MaintainerStep ==
    ASSUME IInv, NEW m \in Maintainers, MaintainerNext(m)
    PROVE  IInv'
<1> USE DEF OpStates, MaintainerStates, Procs
<1>0. m \in Procs /\ m \notin Ops /\ pc \in [Procs -> OpStates \cup MaintainerStates]
  BY GateAssumption DEF IInv, TypeOK
<1>1. TypeOK /\ WindowExcludesOps /\ OneMaintainer /\ NoPanic /\ NoLostWakeup /\ FlagIsOwners
  BY DEF IInv
<1>2. inFlight = 0 <=> Admitted = {}
  BY <1>1, AdmittedFinite, CountAdmitted DEF NoPanic
<1>3. inFlight' = inFlight
  BY DEF MaintainerNext, BeginRefused, ReturnRefused, BeginMaintenance,
     DrainWakes, DrainCancelled, EndMaintenance
<1>4. ASSUME NEW s \in MaintainerStates, Goto(m, s)
      PROVE  /\ \A q \in Procs : pc'[q] = IF q = m THEN s ELSE pc[q]
             /\ pc' \in [Procs -> OpStates \cup MaintainerStates]
             /\ \A q \in Ops : pc'[q] = pc[q] /\ pc'[q] \in OpStates
             /\ \A n \in Maintainers : pc'[n] \in MaintainerStates
             /\ Admitted' = Admitted
             /\ Owners' = IF s \in {"waiting", "window"} THEN Owners \cup {m} ELSE Owners \ {m}
             /\ NoPanic'
  BY <1>0, <1>1, <1>3, <1>4 DEF Goto, TypeOK, Owners, Admitted, NoPanic
<1>5. m \in Owners <=> pc[m] \in {"waiting", "window"}
  BY DEF Owners
<1>6. CASE BeginRefused(m) \/ ReturnRefused(m)
  <2>1. PICK s \in {"idle", "refused"} : Goto(m, s)
    BY <1>6 DEF BeginRefused, ReturnRefused
  <2>2. pc[m] \in {"idle", "refused"} /\ UNCHANGED <<maintenance, inFlight, parked>>
    BY <1>6 DEF BeginRefused, ReturnRefused
  <2>3. Owners' = Owners /\ Admitted' = Admitted /\ NoPanic'
    BY <1>4, <1>5, <2>1, <2>2
  <2>4. TypeOK'
    BY <1>1, <1>4, <2>1, <2>2 DEF TypeOK
  <2>5. WindowExcludesOps' /\ OneMaintainer'
    BY <1>1, <1>4, <2>1, <2>3 DEF WindowExcludesOps, OneMaintainer
  <2>6. NoLostWakeup' /\ FlagIsOwners'
    BY <1>0, <1>1, <1>4, <2>1, <2>2, <2>3 DEF NoLostWakeup, FlagIsOwners, TypeOK
  <2> QED
    BY <2>3, <2>4, <2>5, <2>6 DEF IInv
<1>7. CASE BeginMaintenance(m)
  <2>1. PICK s \in {"waiting", "window"} :
          /\ Goto(m, s) /\ (s = "window" => inFlight = 0)
          /\ \/ parked' = {m} /\ inFlight > 0 /\ s = "waiting"
             \/ parked' = {}
    BY <1>1, <1>7 DEF BeginMaintenance, TypeOK
  <2>2. ~maintenance /\ maintenance' = TRUE /\ Owners = {}
    BY <1>1, <1>7 DEF BeginMaintenance, FlagIsOwners
  <2>3. Owners' = {m} /\ Admitted' = Admitted /\ NoPanic'
    BY <1>4, <2>1, <2>2
  <2>4. TypeOK'
    BY <1>0, <1>1, <1>3, <1>4, <2>1, <2>2 DEF TypeOK
  <2>5. WindowExcludesOps' /\ OneMaintainer'
    BY <1>2, <1>4, <1>5, <2>1, <2>2, <2>3 DEF WindowExcludesOps, OneMaintainer, Owners
  <2>6. NoLostWakeup' /\ FlagIsOwners'
    BY <1>0, <1>3, <1>4, <2>1, <2>2, <2>3 DEF NoLostWakeup, FlagIsOwners
  <2> QED
    BY <2>3, <2>4, <2>5, <2>6 DEF IInv
<1>8. CASE DrainWakes(m)
  <2>1. PICK s \in {"waiting", "window"} :
          /\ Goto(m, s) /\ (s = "window" => inFlight = 0)
          /\ \/ parked' = parked \cup {m} /\ inFlight > 0 /\ s = "waiting"
             \/ parked' = parked /\ m \notin parked
    BY <1>0, <1>1, <1>8 DEF DrainWakes, TypeOK, Goto
  <2>2. maintenance' = maintenance /\ m \in Owners /\ Owners' = Owners /\ Admitted' = Admitted /\ NoPanic'
    BY <1>4, <1>5, <1>8, <2>1 DEF DrainWakes
  <2>3. TypeOK'
    BY <1>0, <1>1, <1>3, <1>4, <2>1, <2>2 DEF TypeOK
  <2>4. WindowExcludesOps' /\ OneMaintainer'
    BY <1>1, <1>2, <1>4, <2>1, <2>2 DEF WindowExcludesOps, OneMaintainer
  <2>5. NoLostWakeup' /\ FlagIsOwners'
    BY <1>0, <1>1, <1>3, <1>4, <2>1, <2>2 DEF NoLostWakeup, FlagIsOwners, TypeOK
  <2> QED
    BY <2>2, <2>3, <2>4, <2>5 DEF IInv
<1>9. CASE DrainCancelled(m) \/ EndMaintenance(m)
  <2>1. Goto(m, "idle") /\ maintenance' = FALSE /\ parked' = {} /\ m \in Owners
    BY <1>5, <1>9 DEF DrainCancelled, EndMaintenance
  <2>2. Owners' = {} /\ Admitted' = Admitted /\ NoPanic'
    BY <1>1, <1>4, <2>1 DEF OneMaintainer
  <2>3. TypeOK'
    BY <1>1, <1>3, <1>4, <2>1 DEF TypeOK
  <2>4. WindowExcludesOps' /\ OneMaintainer'
    BY <2>2 DEF WindowExcludesOps, OneMaintainer, Owners
  <2>5. NoLostWakeup' /\ FlagIsOwners'
    BY <2>1, <2>2 DEF NoLostWakeup, FlagIsOwners
  <2> QED
    BY <2>2, <2>3, <2>4, <2>5 DEF IInv
<1> QED
  BY <1>6, <1>7, <1>8, <1>9 DEF MaintainerNext

LEMMA StutterStep == IInv /\ UNCHANGED vars => IInv'
  BY DEF vars, IInv, TypeOK, WindowExcludesOps, OneMaintainer, NoPanic,
     NoLostWakeup, FlagIsOwners, Admitted, Owners

\* Every behaviour of the gate keeps the inductive invariant.
THEOREM GateInvariant == Spec => []IInv
<1>1. IInv /\ [Next]_vars => IInv'
  BY OpStep, MaintainerStep, StutterStep DEF Next
<1> QED
  BY InitInv, <1>1, PTL DEF Spec

\* admission.go keeps its types.
THEOREM GateTypeOK == Spec => []TypeOK
<1>1. IInv => TypeOK
  BY DEF IInv
<1> QED
  BY GateInvariant, <1>1, PTL

\* For any number of operations and maintainers, a maintenance window is never
\* open while a data operation is admitted.
THEOREM GateWindowExcludesOps == Spec => []WindowExcludesOps
<1>1. IInv => WindowExcludesOps
  BY DEF IInv
<1> QED
  BY GateInvariant, <1>1, PTL

\* beginMaintenance never hands the gate to two maintainers.
THEOREM GateOneMaintainer == Spec => []OneMaintainer
<1>1. IInv => OneMaintainer
  BY DEF IInv
<1> QED
  BY GateInvariant, <1>1, PTL

\* leave's panic is unreachable and the counter is exact.
THEOREM GateNoPanic == Spec => []NoPanic
<1>1. IInv => NoPanic
  BY DEF IInv
<1> QED
  BY GateInvariant, <1>1, PTL

\* signalLocked is called wherever a blocked goroutine's condition may change.
THEOREM GateNoLostWakeup == Spec => []NoLostWakeup
<1>1. IInv => NoLostWakeup
  BY DEF IInv
<1> QED
  BY GateInvariant, <1>1, PTL

-------------------------------------------------------------------------------
(* Refinement *)

\* The owner AbstractGate sees, and the window.
AbsOwner == IF Owners = {} THEN None ELSE CHOOSE m \in Owners : TRUE
AbsWindow == \E m \in Maintainers : pc[m] = "window"

\* The single owner is the one the refinement mapping chooses.
LEMMA OwnerIs ==
    ASSUME OneMaintainer, NEW m \in Owners
    PROVE  AbsOwner = m
  BY DEF OneMaintainer, AbsOwner

LEMMA OwnerIsNext ==
    ASSUME OneMaintainer', NEW m, m \in Owners'
    PROVE  AbsOwner' = m
  BY DEF OneMaintainer, AbsOwner

LEMMA RefinesInit == Init => Gate!Init
<1> SUFFICES ASSUME Init PROVE Gate!Init
  OBVIOUS
<1>1. Admitted = {} /\ Owners = {} /\ ~AbsWindow
  BY DEF Init, Admitted, Owners, AbsWindow, Procs
<1> QED
  BY <1>1 DEF Gate!Init, AbsWindow

\* A critical section of enter or leave is Admit, Release or invisible.
LEMMA OpRefines ==
    ASSUME IInv, NEW p \in Ops, OpNext(p)
    PROVE  [Gate!Next]_(Gate!vars)
<1> USE DEF Procs
<1>0. p \in Procs /\ p \notin Maintainers /\ pc \in [Procs -> OpStates \cup MaintainerStates]
  BY GateAssumption DEF IInv, TypeOK
<1>1. PICK s : Goto(p, s)
  BY DEF OpNext, CallEnter, EnterAdmitted, EnterParks, EnterWakes, EnterCancelled, Leave
<1>2. \A m \in Maintainers : pc'[m] = pc[m]
  BY <1>0, <1>1 DEF Goto
<1>3. Owners' = Owners /\ AbsWindow' = AbsWindow
  BY <1>2 DEF Owners, AbsWindow
<1>4. AbsOwner' = AbsOwner
  BY <1>3 DEF AbsOwner
<1>5. CASE CallEnter(p) \/ EnterParks(p) \/ EnterWakes(p) \/ EnterCancelled(p)
  <2>1. Admitted' = Admitted
    BY <1>0, <1>5 DEF CallEnter, EnterParks, EnterWakes, EnterCancelled, Goto, Admitted
  <2> QED
    BY <1>3, <1>4, <2>1 DEF Gate!vars, AbsOwner, AbsWindow
<1>6. CASE EnterAdmitted(p)
  <2>1. Admitted' = Admitted \cup {p}
    BY <1>0, <1>6 DEF EnterAdmitted, Goto, Admitted
  <2>2. AbsOwner = None
    BY <1>6 DEF EnterAdmitted, IInv, FlagIsOwners, AbsOwner
  <2>3. Gate!Admit(p)
    BY <1>3, <1>4, <2>1, <2>2 DEF Gate!Admit, AbsOwner, AbsWindow
  <2> QED
    BY <2>3 DEF Gate!Next
<1>7. CASE Leave(p)
  <2>1. p \in Admitted /\ Admitted' = Admitted \ {p}
    BY <1>0, <1>7 DEF Leave, Goto, Admitted
  <2>2. Gate!Release(p)
    BY <1>3, <1>4, <2>1 DEF Gate!Release, AbsOwner, AbsWindow
  <2> QED
    BY <2>2 DEF Gate!Next
<1> QED
  BY <1>5, <1>6, <1>7 DEF OpNext

\* A critical section of beginMaintenance or its end function is Stop, Drained,
\* Reopen or invisible.
LEMMA MaintainerRefines ==
    ASSUME IInv, IInv', NEW m \in Maintainers, MaintainerNext(m)
    PROVE  [Gate!Next]_(Gate!vars)
<1> USE DEF Procs
<1>0. m \in Procs /\ m \notin Ops /\ pc \in [Procs -> OpStates \cup MaintainerStates]
  BY GateAssumption DEF IInv, TypeOK
<1>1. OneMaintainer /\ OneMaintainer' /\ (inFlight = 0 <=> Admitted = {}) /\ inFlight \in Nat
  BY AdmittedFinite, CountAdmitted DEF IInv, NoPanic, TypeOK
<1>2. Admitted' = Admitted
  BY <1>0 DEF MaintainerNext, BeginRefused, ReturnRefused, BeginMaintenance,
     DrainWakes, DrainCancelled, EndMaintenance, Goto, Admitted
<1>3. None \notin Owners /\ None # m
  BY GateAssumption DEF Owners
<1>4. CASE BeginRefused(m) \/ ReturnRefused(m)
  <2>1. Owners' = Owners /\ AbsWindow' = AbsWindow
    BY <1>0, <1>4 DEF BeginRefused, ReturnRefused, Goto, Owners, AbsWindow
  <2>2. AbsOwner' = AbsOwner
    BY <2>1 DEF AbsOwner
  <2> QED
    BY <1>2, <2>1, <2>2 DEF Gate!vars, AbsOwner, AbsWindow
<1>5. CASE BeginMaintenance(m)
  <2>1. Owners = {} /\ AbsOwner = None
    BY <1>5 DEF BeginMaintenance, IInv, FlagIsOwners, AbsOwner
  <2>2. pc'[m] = IF inFlight > 0 THEN "waiting" ELSE "window"
    BY <1>0, <1>5 DEF BeginMaintenance, Goto
  <2>3. m \in Owners'
    BY <2>2 DEF Owners
  <2>4. AbsOwner' = m
    BY <1>1, <2>3, OwnerIsNext
  <2>5. \A n \in Maintainers : n # m => pc'[n] # "window"
    BY <2>1, <1>0, <1>5 DEF BeginMaintenance, Goto, Owners
  <2>6. AbsWindow' <=> Admitted = {}
    BY <1>1, <2>2, <2>5 DEF AbsWindow
  <2>7. Gate!Stop(m)
    BY <1>2, <2>1, <2>4, <2>6 DEF Gate!Stop, AbsOwner, AbsWindow
  <2> QED
    BY <2>7 DEF Gate!Next
<1>6. CASE DrainWakes(m)
  <2>1. m \in Owners /\ pc'[m] = IF inFlight > 0 THEN "waiting" ELSE "window"
    BY <1>0, <1>6 DEF DrainWakes, Goto, Owners
  <2>2. m \in Owners'
    BY <2>1 DEF Owners
  <2>3. AbsOwner = m /\ AbsOwner' = m
    BY <1>1, <2>1, <2>2, OwnerIs, OwnerIsNext
  <2>4. CASE inFlight > 0
    <3>1. AbsWindow' = AbsWindow
      BY <1>6, <2>4 DEF DrainWakes, AbsWindow
    <3> QED
      BY <1>2, <2>3, <3>1 DEF Gate!vars, AbsOwner, AbsWindow
  <2>5. CASE ~(inFlight > 0)
    <3>1. Admitted = {} /\ AbsWindow'
      BY <1>1, <2>1, <2>5 DEF AbsWindow
    <3>2. Gate!Drained
      BY <1>2, <1>3, <2>3, <3>1 DEF Gate!Drained, AbsOwner, AbsWindow
    <3> QED
      BY <3>2 DEF Gate!Next
  <2> QED
    BY <2>4, <2>5
<1>7. CASE DrainCancelled(m) \/ EndMaintenance(m)
  <2>1. m \in Owners
    BY <1>7 DEF DrainCancelled, EndMaintenance, Owners
  <2>2. AbsOwner = m
    BY <1>1, <2>1, OwnerIs
  <2>3. \A n \in Maintainers : pc'[n] \notin {"waiting", "window"}
    BY <1>0, <1>1, <1>7, <2>1 DEF DrainCancelled, EndMaintenance, Goto, OneMaintainer, Owners
  <2>4. Owners' = {} /\ AbsWindow' = FALSE
    BY <2>3 DEF Owners, AbsWindow
  <2>5. AbsOwner' = None
    BY <2>4 DEF AbsOwner
  <2>6. Gate!Reopen(m)
    BY <1>2, <2>2, <2>4, <2>5 DEF Gate!Reopen, AbsOwner, AbsWindow
  <2> QED
    BY <2>6 DEF Gate!Next
<1> QED
  BY <1>4, <1>5, <1>6, <1>7 DEF MaintainerNext

\* admission.go implements the promise the transport relies on.
THEOREM GateRefinement == Spec => ImplementsGate
<1>1. IInv /\ IInv' /\ [Next]_vars => [Gate!Next]_(Gate!vars)
  <2> SUFFICES ASSUME IInv, IInv', [Next]_vars PROVE [Gate!Next]_(Gate!vars)
    OBVIOUS
  <2>1. CASE UNCHANGED vars
    BY <2>1 DEF vars, Gate!vars, Admitted, Owners
  <2> QED
    BY <2>1, OpRefines, MaintainerRefines DEF Next
<1> QED
  BY GateInvariant, RefinesInit, <1>1, PTL DEF Spec, ImplementsGate, Gate!Spec
===============================================================================
