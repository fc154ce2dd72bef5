------------------------------- MODULE SlabUsers -------------------------------
(***************************************************************************)
(* The slab under any sequence of Alloc, Free and Close, and what it keeps. *)
(***************************************************************************)
EXTENDS Slab, FiniteSets, TLC

CONSTANTS Size,      \* bytes in the slab
          MaxAllocs  \* lease IDs handed out (a bound of the model)

ASSUME SlabAssumption == Size \in Nat \ {0} /\ MaxAllocs \in Nat

VARIABLE slab
vars == <<slab>>

Init == slab = NewSlab(Size)

\* n <= 0, a closed slab and ErrNoMemory change nothing.
DoAlloc(n) == CanAlloc(slab, n) /\ slab.nextID < MaxAllocs /\ slab' = Alloc(slab, n)
DoFree(id) == CanFree(slab, id) /\ slab' = Free(slab, id)
DoClose == ~slab.closed /\ slab' = Close(slab)

Next == (\E n \in 1 .. Size : DoAlloc(n)) \/ (\E id \in 1 .. MaxAllocs : DoFree(id)) \/ DoClose

Spec == Init /\ [][Next]_vars

-------------------------------------------------------------------------------
Bytes == 0 .. Size - 1
Leased == UNION {SpanBytes(slab.leases[id]) : id \in DOMAIN slab.leases}

(* The free list is exactly the maximal runs of bytes no lease holds, in order:
   Alloc, insertFree and coalesceFree lose no byte, share none, and leave no two
   adjacent spans. *)
FreeListExact ==
    LET f == slab.free
    IN  /\ UNION {SpanBytes(r) : r \in Range(f)} = Bytes \ Leased
        /\ \A i \in 1 .. Len(f) : f[i].n > 0
        /\ \A i \in 1 .. Len(f) - 1 : f[i].off + f[i].n < f[i + 1].off

(* ErrNoMemory is the truth: an allocation fails on an open slab only if no run
   of that many unleased bytes exists. *)
FailsOnlyWhenFull ==
    \A n \in 1 .. Size :
        (~slab.closed /\ ~CanAlloc(slab, n)) =>
            \A o \in 0 .. Size - n : (o .. o + n - 1) \cap Leased # {}

-------------------------------------------------------------------------------
HolderOf(x) ==
    LET ids == {id \in DOMAIN slab.leases : x \in SpanBytes(slab.leases[id])}
    IN  IF ids = {} THEN 0 ELSE CHOOSE id \in ids : TRUE

Promise == INSTANCE AbstractSlab WITH
    holder <- [x \in Bytes |-> HolderOf(x)], closed <- slab.closed

\* The steps AbstractSlab allows, with the lease IDs this slab hands out.
PromisedStep ==
    \/ \E n \in 1 .. Size, o \in Bytes, id \in 1 .. MaxAllocs : Promise!Lease(o, n, id)
    \/ \E id \in 1 .. MaxAllocs : Promise!Release(id)
    \/ Promise!Close

(* The first-fit free list implements the byte-ownership view of AbstractSlab:
   a lease never takes a byte another one holds, and Free returns only its own. *)
ImplementsSlab == Promise!Init /\ [][PromisedStep]_vars
===============================================================================
