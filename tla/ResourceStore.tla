----------------------------- MODULE ResourceStore -----------------------------
(***************************************************************************)
(* internal/jaccld/resource as operators on a store record: bounded pools  *)
(* of queue-pair and completion-queue handles (handle.go), memory windows  *)
(* from the slab (slab.go) and session leases over them (store.go).        *)
(* Pools and leases are used under Store.mu only; the slab is not, so Open *)
(* is split where it meets the slab.  The daemon moves the store to        *)
(* StateReady before it serves and never leaves it.                        *)
(***************************************************************************)
EXTENDS Slab, FiniteSets, TLC

\* count is the number of handles a pool was made with; no operation reads it.
NewPool(k) == [avail |-> [i \in 1 .. k |-> i], used |-> {}, count |-> k]

\* The pools hand out the handle returned last.
Acquire(p) == [p EXCEPT !.avail = Front(@), !.used = @ \cup {Last(p.avail)}]
Release(p, h) ==
    IF h \in p.used THEN [p EXCEPT !.avail = Append(@, h), !.used = @ \ {h}] ELSE p

NewStore(qps, cqs) == [qp |-> NewPool(qps), cq |-> NewPool(cqs), leases |-> <<>>, next |-> 0]

\* Requests name a client and a peer; sizes and deadlines can be out of range.
validateRequest(n, deadline, now) == n > 0 /\ deadline > now

\* The store with a lease over a window and the next handle of each pool.
Lease(s, window, deadline, now) ==
    [qp |-> Acquire(s.qp), cq |-> Acquire(s.cq), next |-> s.next + 1,
     leases |-> (s.next + 1 :> [window |-> window, qp |-> Last(s.qp.avail),
                                cq |-> Last(s.cq.avail), expires |-> deadline, seen |-> now])
                @@ s.leases]

\* Fault: the completion queue is kept when there is no queue pair.
FaultOpenHandles(s, window, deadline, now) ==
    CASE s.cq.avail = <<>> -> s
      [] s.cq.avail # <<>> /\ s.qp.avail = <<>> -> [s EXCEPT !.cq = Acquire(@)]
      [] OTHER -> Lease(s, window, deadline, now)

\* Open once it has its window: a completion queue, then a queue pair; without
\* a queue pair the completion queue goes back, and there is no new lease.
OpenHandles(s, window, deadline, now) ==
    CASE s.cq.avail = <<>> -> s
      [] s.cq.avail # <<>> /\ s.qp.avail = <<>> ->
            [s EXCEPT !.cq = Release(Acquire(@), Last(@.avail))]
      [] OTHER -> Lease(s, window, deadline, now)

Live(s, now) == {id \in DOMAIN s.leases : s.leases[id].expires > now}

\* Fault: an expired lease can be refreshed.
FaultRefreshExpired(s, id, deadline, now) ==
    IF deadline > now /\ id \in DOMAIN s.leases
      THEN [s EXCEPT !.leases[id].expires = deadline, !.leases[id].seen = now]
      ELSE s

\* Refresh; the errors change nothing.
Refresh(s, id, deadline, now) ==
    IF deadline > now /\ id \in Live(s, now)
      THEN [s EXCEPT !.leases[id].expires = deadline, !.leases[id].seen = now]
      ELSE s

\* PulseControlPlane marks the live leases and moves no deadline.
PulseControlPlane(s, now) ==
    [s EXCEPT !.leases = [id \in DOMAIN @ |->
        IF id \in Live(s, now) THEN [@[id] EXCEPT !.seen = now] ELSE @[id]]]

\* releaseLocked: both handles, then the window.
ReleaseLocked(s, sl, l) ==
    [store |-> [s EXCEPT !.qp = Release(@, l.qp), !.cq = Release(@, l.cq)],
     slab |-> IF CanFree(sl, l.window) THEN Free(sl, l.window) ELSE sl]

\* Close forgets the lease and releases what it held.
CloseSession(s, sl, id) ==
    ReleaseLocked([s EXCEPT !.leases = [k \in DOMAIN @ \ {id} |-> @[k]]], sl, s.leases[id])
===============================================================================
