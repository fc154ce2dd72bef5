----------------------------- MODULE AbstractGate -----------------------------
(***************************************************************************)
(* What jaccld's admission gate promises the transport: a data operation   *)
(* is admitted only while no maintainer owns the gate, and the owner gets  *)
(* its window only once every admitted operation has left.                 *)
(***************************************************************************)
CONSTANTS Ops,          \* data operations (one goroutine each)
          Maintainers,  \* Maintain calls
          None          \* "no owner"

VARIABLES admitted,     \* operations between enter and their release
          owner,        \* the maintainer that stopped admission, or None
          window        \* the owner has been told that the gate is drained

vars == <<admitted, owner, window>>

Init == admitted = {} /\ owner = None /\ window = FALSE

Admit(p) ==
    /\ owner = None
    /\ admitted' = admitted \cup {p}
    /\ UNCHANGED <<owner, window>>

Release(p) ==
    /\ p \in admitted
    /\ admitted' = admitted \ {p}
    /\ UNCHANGED <<owner, window>>

\* Stop admission; with nothing in flight the window opens in the same step.
Stop(m) ==
    /\ owner = None
    /\ owner' = m
    /\ window' = (admitted = {})
    /\ UNCHANGED admitted

Drained ==
    /\ owner # None /\ admitted = {}
    /\ window' = TRUE
    /\ UNCHANGED <<admitted, owner>>

\* The owner gives up or finishes.
Reopen(m) ==
    /\ owner = m
    /\ owner' = None /\ window' = FALSE
    /\ UNCHANGED admitted

Next ==
    \/ \E p \in Ops : Admit(p) \/ Release(p)
    \/ \E m \in Maintainers : Stop(m) \/ Reopen(m)
    \/ Drained

Spec == Init /\ [][Next]_vars
===============================================================================
