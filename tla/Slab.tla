--------------------------------- MODULE Slab ---------------------------------
(***************************************************************************)
(* internal/allocator/slab.go as operators on a slab record: the free list *)
(* is a sequence of spans that Alloc searches first-fit and Free inserts   *)
(* into and coalesces; leases maps lease IDs to spans.  Every operation    *)
(* holds s.mu, so each is one step of whoever calls it.                    *)
(***************************************************************************)
EXTENDS Naturals, Sequences, SequencesExt

Span(off, n) == [off |-> off, n |-> n]
SpanBytes(r) == r.off .. r.off + r.n - 1

NewSlab(size) == [size |-> size, free |-> <<Span(0, size)>>, leases |-> <<>>,
                  nextID |-> 0, closed |-> FALSE]

\* Fault: a span that fits exactly is passed over.
FaultFirstFit(s, n) == SelectInSeq(s.free, LAMBDA r : r.n > n)

\* The index of the first span that is large enough, 0 if there is none.
FirstFit(s, n) == SelectInSeq(s.free, LAMBDA r : r.n >= n)

CanAlloc(s, n) == n > 0 /\ ~s.closed /\ FirstFit(s, n) # 0

\* Fault: the span is not shortened by the whole lease.
FaultAllocOverlaps(s, n) ==
    LET i == FirstFit(s, n)
        r == s.free[i]
        id == s.nextID + 1
    IN  [s EXCEPT !.nextID = id,
                  !.leases = (id :> Span(r.off, n)) @@ @,
                  !.free = IF r.n = n THEN RemoveAt(@, i)
                           ELSE [@ EXCEPT ![i] = Span(r.off + n - 1, r.n - n)]]

\* The slab after a successful Alloc of n bytes; the lease is s.nextID + 1.
Alloc(s, n) ==
    LET i == FirstFit(s, n)
        r == s.free[i]
        id == s.nextID + 1
    IN  [s EXCEPT !.nextID = id,
                  !.leases = (id :> Span(r.off, n)) @@ @,
                  !.free = IF r.n = n THEN RemoveAt(@, i)
                           ELSE [@ EXCEPT ![i] = Span(r.off + n, r.n - n)]]

\* Fault: the free list is never coalesced.
FaultNoMerge(free) == free

\* coalesceFree: one pass that extends the last span kept or keeps the next.
CoalesceFree(free) ==
    LET merge(out, r) ==
            LET last == out[Len(out)]
            IN  IF last.off + last.n = r.off
                  THEN [out EXCEPT ![Len(out)].n = @ + r.n]
                  ELSE Append(out, r)
    IN  IF Len(free) < 2 THEN free ELSE FoldLeft(merge, <<Head(free)>>, Tail(free))

\* The place insertFree finds: before the first span that does not lie lower.
InsertSorted(free, r) ==
    LET at == SelectInSeq(free, LAMBDA f : f.off >= r.off)
    IN  IF at = 0 THEN Append(free, r) ELSE InsertAt(free, at, r)

InsertFree(free, r) == CoalesceFree(InsertSorted(free, r))

CanFree(s, id) == ~s.closed /\ id \in DOMAIN s.leases

Free(s, id) ==
    [s EXCEPT !.leases = [k \in DOMAIN @ \ {id} |-> @[k]],
              !.free = InsertFree(@, s.leases[id])]

Close(s) == [s EXCEPT !.closed = TRUE]
===============================================================================
