----------------------------- MODULE AbstractSlab -----------------------------
(***************************************************************************)
(* What the slab promises its users: a lease is a run of bytes nobody else *)
(* holds, an allocation fails only when there is no such run, and freeing  *)
(* a lease gives back exactly its bytes.                                   *)
(***************************************************************************)
EXTENDS Naturals

CONSTANT Size     \* bytes in the slab
VARIABLES holder, \* byte -> the lease that holds it, 0 for none
          closed

vars == <<holder, closed>>
Bytes == 0 .. Size - 1

Init == holder = [x \in Bytes |-> 0] /\ closed = FALSE

Fits(o, n) == \A x \in o .. o + n - 1 : x \in Bytes /\ holder[x] = 0

Lease(o, n, id) ==
    /\ ~closed /\ Fits(o, n) /\ \A x \in Bytes : holder[x] # id
    /\ holder' = [x \in Bytes |-> IF x \in o .. o + n - 1 THEN id ELSE holder[x]]
    /\ UNCHANGED closed

Release(id) ==
    /\ ~closed
    /\ holder' = [x \in Bytes |-> IF holder[x] = id THEN 0 ELSE holder[x]]
    /\ UNCHANGED closed

Close == closed' = TRUE /\ UNCHANGED holder
===============================================================================
