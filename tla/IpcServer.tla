------------------------------- MODULE IpcServer -------------------------------
(***************************************************************************)
(* internal/ipc/server.go over the slab and the resource store of one      *)
(* daemon.  Each connection has a serve goroutine that handles one request *)
(* at a time; submitted collectives run in goroutines of their own         *)
(* (startWork) that carry the offsets they were given, not the leases.     *)
(* The transport is what DaemonTransport describes, seen from here: a      *)
(* Send, Recv, Barrier or Maintain keeps the serve goroutine until it      *)
(* ends; a collective ends, or is cancelled through workCtx.               *)
(***************************************************************************)
EXTENDS ResourceStore

CONSTANTS Clients,     \* connections
          Size,        \* bytes in the slab
          Pools,       \* how many queue pairs and completion queues there may be
          GroupSize,   \* a reduction's scratch is that many sources
          Sizes,       \* bytes a client asks for
          Menu,        \* requests besides alloc and free the clients make
          FreesBusy,   \* clients may free what their own work still uses
          MaxLeases, MaxWork, MaxTime   \* bounds of the model

ASSUME ServerAssumption ==
    /\ {Size, GroupSize} \subseteq Nat \ {0}
    /\ Pools \subseteq (Nat \ {0}) \X (Nat \ {0}) /\ Pools # {}
    /\ Sizes \subseteq Nat \ {0} /\ FreesBusy \in BOOLEAN
    /\ {MaxLeases, MaxWork, MaxTime} \subseteq Nat

VARIABLES slab, store, now,
          conn,  \* per connection: serve's state and its tables
          work   \* per connection and work ID: the collective

vars == <<slab, store, now, conn, work>>

WorkIDs == Clients \X (1 .. MaxWork)
NoCall == [op |-> "none", id |-> 0, n |-> 0, deadline |-> 0, at |-> 0]
NoWork == [pc |-> "none", op |-> "none", src |-> 0, dst |-> 0,
           n |-> 0, bytes |-> {}, scratch |-> 0]

\* The daemon reserves its maintenance bytes before it serves.
Reserved == 1

Init ==
    /\ slab = Alloc(NewSlab(Size), 1)
    /\ \E k \in Pools : store = NewStore(k[1], k[2])
    /\ now = 0
    /\ conn = [c \in Clients |-> [pc |-> "new", client |-> TRUE, uses |-> {},
                                  leases |-> {}, sessions |-> {}, call |-> NoCall]]
    /\ work = [w \in WorkIDs |-> NoWork]

Pending(c) == {w \in WorkIDs : w[1] = c /\ work[w].pc \in {"queued", "running"}}
Busy(c) == UNION {{work[w].src, work[w].dst} : w \in Pending(c)}
Serving(c) == conn[c].pc = "serving" /\ conn[c].client
\* An Open that waits for Store.mu counts against the bound on leases.
Opening == {c \in Clients : conn[c].pc = "session" /\ conn[c].call.op = "open"}
CanLease == slab.nextID + Cardinality(Opening) < MaxLeases

Connect(c) ==
    /\ conn[c].pc = "new"
    /\ conn' = [conn EXCEPT ![c].pc = "serving"]
    /\ UNCHANGED <<slab, store, now, work>>

\* The client closes its end or dies; serve notices when it next reads.
ClientGoes(c) ==
    /\ conn[c].pc \in {"serving", "call", "session", "open", "unwind"} /\ conn[c].client
    /\ conn' = [conn EXCEPT ![c].client = FALSE]
    /\ UNCHANGED <<slab, store, now, work>>

-------------------------------------------------------------------------------
(* Requests.  A request that fails its checks changes nothing. *)

ReqAlloc(c, n) ==
    /\ Serving(c) /\ CanLease /\ CanAlloc(slab, n)
    /\ slab' = Alloc(slab, n)
    /\ conn' = [conn EXCEPT ![c].leases = @ \cup {slab'.nextID}]
    /\ UNCHANGED <<store, now, work>>

ReqFree(c, id) ==
    /\ Serving(c) /\ id \in conn[c].leases /\ CanFree(slab, id)
    /\ FreesBusy \/ id \notin Busy(c)
    /\ slab' = Free(slab, id)
    /\ conn' = [conn EXCEPT ![c].leases = @ \ {id}]
    /\ UNCHANGED <<store, now, work>>

\* Send and Recv of a lease (checkRange); Barrier and Maintain use none.
ReqTransfer(c, ids) ==
    /\ Serving(c) /\ ids \subseteq conn[c].leases
    /\ conn' = [conn EXCEPT ![c].pc = "call",
                            ![c].uses = UNION {SpanBytes(slab.leases[id]) : id \in ids}]
    /\ UNCHANGED <<slab, store, now, work>>

TransferEnds(c) ==
    /\ conn[c].pc = "call"
    /\ conn' = [conn EXCEPT ![c].pc = "serving", ![c].uses = {}]
    /\ UNCHANGED <<slab, store, now, work>>

-------------------------------------------------------------------------------
(* Sessions.  The clock is read and the request validated before Store.mu is *)
(* taken.  An Open holds Store.mu over its use of the slab, which others use *)
(* at the same time; every other operation is one step under it.             *)

StoreFree == \A c \in Clients : conn[c].pc \notin {"open", "unwind"}
Calls(c, call) == conn' = [conn EXCEPT ![c].pc = "session", ![c].call = call]
Answers(c, sessions) ==
    conn' = [conn EXCEPT ![c].pc = "serving", ![c].call = NoCall, ![c].sessions = sessions]

ReqSessionOpen(c, n, deadline) ==
    /\ Serving(c) /\ validateRequest(n, deadline, now) /\ CanLease
    /\ Calls(c, [op |-> "open", id |-> 0, n |-> n, deadline |-> deadline, at |-> now])
    /\ UNCHANGED <<slab, store, now, work>>

ReqSessionRefresh(c, id, deadline) ==
    /\ Serving(c) /\ id \in conn[c].sessions /\ deadline > now
    /\ Calls(c, [op |-> "refresh", id |-> id, n |-> 0, deadline |-> deadline, at |-> now])
    /\ UNCHANGED <<slab, store, now, work>>

\* Open has the mutex and gets its window from the slab, or fails.
OpenWindow(c) ==
    /\ c \in Opening /\ StoreFree
    /\ IF CanAlloc(slab, conn[c].call.n)
         THEN /\ slab' = Alloc(slab, conn[c].call.n)
              /\ conn' = [conn EXCEPT ![c].pc = "open", ![c].call.id = slab'.nextID]
         ELSE Answers(c, conn[c].sessions) /\ UNCHANGED slab
    /\ UNCHANGED <<store, now, work>>

\* It takes the handles; a lease is there if it got both.
OpenLease(c) ==
    LET call == conn[c].call
        s == OpenHandles(store, call.id, call.deadline, call.at)
        got == DOMAIN s.leases \ DOMAIN store.leases
    IN  /\ conn[c].pc = "open"
        /\ store' = s
        /\ IF got # {} THEN Answers(c, conn[c].sessions \cup got)
           ELSE conn' = [conn EXCEPT ![c].pc = "unwind"]
        /\ UNCHANGED <<slab, now, work>>

\* The window of an Open that got no handles goes back.
OpenUnwinds(c) ==
    /\ conn[c].pc = "unwind"
    /\ slab' = IF CanFree(slab, conn[c].call.id) THEN Free(slab, conn[c].call.id) ELSE slab
    /\ Answers(c, conn[c].sessions)
    /\ UNCHANGED <<store, now, work>>

RefreshLease(c) ==
    LET call == conn[c].call IN
    /\ conn[c].pc = "session" /\ call.op = "refresh" /\ StoreFree
    /\ store' = Refresh(store, call.id, call.deadline, call.at)
    /\ Answers(c, conn[c].sessions)
    /\ UNCHANGED <<slab, now, work>>

ReqSessionClose(c, id) ==
    LET r == CloseSession(store, slab, id)
    IN  /\ Serving(c) /\ id \in conn[c].sessions /\ StoreFree
        /\ store' = r.store /\ slab' = r.slab
        /\ conn' = [conn EXCEPT ![c].sessions = @ \ {id}]
        /\ UNCHANGED <<now, work>>

-------------------------------------------------------------------------------
(* Collectives. *)

\* submit_reduce and submit_gather: checkAsyncRange on the whole of two leases,
\* which may be one lease.  The goroutine gets their offsets.
Submit(c, op, src, dst) ==
    LET k == Cardinality({w \in WorkIDs : w[1] = c /\ work[w].pc # "none"}) + 1
    IN  /\ Serving(c) /\ k <= MaxWork /\ {src, dst} \subseteq conn[c].leases
        /\ slab.leases[dst].n >= slab.leases[src].n
        /\ work' = [work EXCEPT ![<<c, k>>] =
                       [NoWork EXCEPT !.pc = "queued", !.op = op, !.src = src, !.dst = dst,
                                      !.n = slab.leases[src].n,
                                      !.bytes = SpanBytes(slab.leases[src])
                                                \cup SpanBytes(slab.leases[dst])]]
        /\ UNCHANGED <<slab, store, now, conn>>

\* wait_work takes the result once it is there.
WaitWork(w) ==
    /\ Serving(w[1]) /\ work[w].pc = "done"
    /\ work' = [work EXCEPT ![w].pc = "collected"]
    /\ UNCHANGED <<slab, store, now, conn>>

-------------------------------------------------------------------------------
(* The goroutine of a collective. *)

Cancelled(w) == conn[w[1]].pc = "closing"

\* It is admitted; a reduction takes its scratch from the slab.
WorkStarts(w) ==
    LET n == work[w].n * GroupSize
    IN  /\ work[w].pc = "queued" /\ ~Cancelled(w)
        /\ \/ /\ work[w].op = "gather" /\ UNCHANGED slab
              /\ work' = [work EXCEPT ![w].pc = "running"]
           \/ /\ work[w].op = "reduce" /\ CanLease /\ CanAlloc(slab, n)
              /\ slab' = Alloc(slab, n)
              /\ work' = [work EXCEPT ![w].pc = "running", ![w].scratch = slab'.nextID]
        /\ UNCHANGED <<store, now, conn>>

\* A cancelled gate, no memory for the scratch, a range the transport refuses.
WorkRefused(w) ==
    /\ work[w].pc = "queued"
    /\ work' = [work EXCEPT ![w].pc = "done"]
    /\ UNCHANGED <<slab, store, now, conn>>

\* Fault: the scratch is not freed.
FaultScratchKept(w) ==
    /\ work[w].pc = "running"
    /\ work' = [work EXCEPT ![w].pc = "done", ![w].scratch = 0]
    /\ UNCHANGED <<slab, store, now, conn>>

\* The exchange ended, failed or was cancelled; the deferred Free runs.
WorkEnds(w) ==
    /\ work[w].pc = "running"
    /\ slab' = IF work[w].scratch # 0 /\ CanFree(slab, work[w].scratch)
                 THEN Free(slab, work[w].scratch) ELSE slab
    /\ work' = [work EXCEPT ![w].pc = "done", ![w].scratch = 0]
    /\ UNCHANGED <<store, now, conn>>

-------------------------------------------------------------------------------
(* The end of a connection: serve's deferred function. *)


\* EOF: cancelWork.
ServeReturns(c) ==
    /\ conn[c].pc = "serving" /\ ~conn[c].client
    /\ conn' = [conn EXCEPT ![c].pc = "closing"]
    /\ UNCHANGED <<slab, store, now, work>>

\* Fault: the leases are freed without waiting for the work.
FaultNoWait(c, id) ==
    /\ conn[c].pc = "closing" /\ id \in conn[c].leases
    /\ slab' = IF CanFree(slab, id) THEN Free(slab, id) ELSE slab
    /\ conn' = [conn EXCEPT ![c].leases = @ \ {id}]
    /\ UNCHANGED <<store, now, work>>

\* wg.Wait has returned: the leases, in any order.
CleanupFrees(c, id) ==
    /\ conn[c].pc = "closing" /\ Pending(c) = {} /\ id \in conn[c].leases
    /\ slab' = IF CanFree(slab, id) THEN Free(slab, id) ELSE slab
    /\ conn' = [conn EXCEPT ![c].leases = @ \ {id}]
    /\ UNCHANGED <<store, now, work>>

\* Then the sessions, in any order.
CleanupCloses(c, id) ==
    LET r == CloseSession(store, slab, id)
    IN  /\ conn[c].pc = "closing" /\ Pending(c) = {} /\ conn[c].leases = {}
        /\ id \in conn[c].sessions /\ StoreFree
        /\ store' = r.store /\ slab' = r.slab
        /\ conn' = [conn EXCEPT ![c].sessions = @ \ {id}]
        /\ UNCHANGED <<now, work>>

Gone(c) ==
    /\ conn[c].pc = "closing" /\ Pending(c) = {}
    /\ conn[c].leases = {} /\ conn[c].sessions = {}
    /\ conn' = [conn EXCEPT ![c].pc = "gone"]
    /\ UNCHANGED <<slab, store, now, work>>

-------------------------------------------------------------------------------
Tick ==
    /\ now < MaxTime /\ now' = now + 1
    /\ UNCHANGED <<slab, store, conn, work>>

\* The liveness goroutine.  It too reads the clock before it has Store.mu; all
\* that could differ is a LastActivity, which nobody compares with anything.
Pulse ==
    /\ StoreFree
    /\ store' = PulseControlPlane(store, now)
    /\ UNCHANGED <<slab, now, conn, work>>

SlabIDs == 1 .. MaxLeases
Deadlines == 1 .. MaxTime + 1

Requests(c) ==
    \/ \E n \in Sizes : ReqAlloc(c, n)
    \/ \E id \in SlabIDs : ReqFree(c, id)
    \/ "transfer" \in Menu /\ \E id \in conn[c].leases : ReqTransfer(c, {id})
    \/ "transfer" \in Menu /\ ReqTransfer(c, {})
    \/ "session" \in Menu /\ \E n \in Sizes, d \in Deadlines : ReqSessionOpen(c, n, d)
    \/ \E id \in conn[c].sessions, d \in Deadlines : ReqSessionRefresh(c, id, d)
    \/ \E id \in conn[c].sessions : ReqSessionClose(c, id)
    \/ \E op \in Menu \cap {"reduce", "gather"}, src, dst \in conn[c].leases :
            Submit(c, op, src, dst)

\* What the serve goroutine does without its client.
Serves(c) ==
    \/ OpenWindow(c) \/ OpenLease(c) \/ OpenUnwinds(c) \/ RefreshLease(c)
    \/ ServeReturns(c) \/ Gone(c)
    \/ \E id \in SlabIDs : CleanupFrees(c, id)
    \/ \E id \in conn[c].sessions : CleanupCloses(c, id)

Next ==
    \/ \E c \in Clients :
         Connect(c) \/ ClientGoes(c) \/ Requests(c) \/ TransferEnds(c) \/ Serves(c)
    \/ \E w \in WorkIDs : WaitWork(w) \/ WorkStarts(w) \/ WorkRefused(w) \/ WorkEnds(w)
    \/ Tick \/ Pulse

Spec == Init /\ [][Next]_vars

\* The goroutines of a connection run when they can, and Store.mu, a Go mutex,
\* starves none of them; cancelled work returns, because the gate and the polls
\* look at workCtx.  Nothing is assumed of a Send, Recv, Barrier or Maintain:
\* nothing in the daemon ends it when its peer stays silent.
Runs(c) ==
    \/ Serves(c)
    \/ \E w \in WorkIDs : w[1] = c /\ Cancelled(w) /\ (WorkRefused(w) \/ WorkEnds(w))
Fairness == \A c \in Clients : SF_vars(Runs(c))

FairSpec == Spec /\ Fairness

-------------------------------------------------------------------------------
(* Type invariant. *)
TypeOK ==
    /\ now \in 0 .. MaxTime
    /\ slab.nextID \in SlabIDs /\ DOMAIN slab.leases \subseteq SlabIDs /\ ~slab.closed
    /\ \A id \in DOMAIN slab.leases : SpanBytes(slab.leases[id]) \subseteq 0 .. Size - 1
    /\ \A id \in DOMAIN store.leases :
         store.leases[id] \in [window : SlabIDs, qp : 1 .. store.qp.count, cq : 1 .. store.cq.count,
                               expires : Deadlines, seen : 0 .. MaxTime]
    /\ \A c \in Clients :
         /\ conn[c].pc \in {"new", "serving", "call", "session", "open", "unwind",
                            "closing", "gone"}
         /\ conn[c].call \in [op : {"none", "open", "refresh"}, id : {0} \cup SlabIDs,
                              n : 0 .. Size, deadline : {0} \cup Deadlines, at : 0 .. MaxTime]
         /\ conn[c].client \in BOOLEAN /\ conn[c].uses \subseteq 0 .. Size - 1
         /\ conn[c].leases \subseteq SlabIDs /\ conn[c].sessions \subseteq SlabIDs
    /\ work \in [WorkIDs -> [pc : {"none", "queued", "running", "done", "collected"},
                             op : {"none", "reduce", "gather"}, src : {0} \cup SlabIDs,
                             dst : {0} \cup SlabIDs, n : 0 .. Size, bytes : SUBSET (0 .. Size - 1),
                             scratch : {0} \cup SlabIDs]]

\* Who accounts for each lease of the slab.
Owners(id) ==
    {<<"connection", c>> : c \in {d \in Clients : id \in conn[d].leases}}
    \cup {<<"session", s>> : s \in {t \in DOMAIN store.leases : store.leases[t].window = id}}
    \cup {<<"opening", c>> : c \in {d \in Clients : conn[d].pc \in {"open", "unwind"}
                                                     /\ conn[d].call.id = id}}
    \cup {<<"scratch", w>> : w \in {v \in WorkIDs : work[v].scratch = id}}
    \cup {<<"daemon", k>> : k \in {id} \cap {Reserved}}

(* Every lease of the slab has exactly one owner, and every lease an owner lists
   is there: no request, failed open, disconnect or finished collective leaks
   bytes or frees somebody else's. *)
OneOwner ==
    \A id \in SlabIDs : Cardinality(Owners(id)) = IF id \in DOMAIN slab.leases THEN 1 ELSE 0

(* Every session belongs to exactly one connection that can still close it,
   every handle is either available once or held by one session, and the windows
   of the sessions are owned like every other lease: an open that fails for want
   of a completion queue, or of a queue pair when it has the queue already, leaves
   nothing behind, whatever others do to the slab meanwhile. *)
HandlesExact ==
    LET ids == DOMAIN store.leases
        exact(p, held) ==
            /\ p.used = Range(held)
            /\ Cardinality(p.used) = Cardinality(ids)
            /\ IsInjective(p.avail) /\ Range(p.avail) = 1 .. p.count \ p.used
    IN  /\ exact(store.qp, [id \in ids |-> store.leases[id].qp])
        /\ exact(store.cq, [id \in ids |-> store.leases[id].cq])
        /\ \A id \in ids : Cardinality({c \in Clients : id \in conn[c].sessions}) = 1
        /\ OneOwner

BytesOf(c) == UNION {SpanBytes(slab.leases[id]) :
                        id \in conn[c].leases \cap DOMAIN slab.leases}

(* Work over leased ranges: as long as a transfer or a collective may touch the
   offsets it was given, its own connection holds those bytes - through
   cancellation and disconnect ("disconnect waits for in-flight work to stop
   before freeing those leases"). *)
WorkHoldsRanges ==
    \A c \in Clients :
        /\ conn[c].uses \subseteq BytesOf(c)
        /\ \A w \in Pending(c) : work[w].bytes \subseteq BytesOf(c)

(* Expired leases fail closed: no refresh moves the deadline of a session that
   has passed it and no pulse marks it as alive.  A refresh reads the clock before
   it waits for the mutex, so one that has read it before the deadline may still
   come through after it; one that reads it later never does. *)
WaitedSince(id) ==
    \E c \in Clients : /\ conn[c].pc = "session" /\ conn[c].call.op = "refresh"
                       /\ conn'[c].pc # "session" /\ conn[c].call.id = id
                       /\ id \in Live(store, conn[c].call.at)
ExpiredStaysExpired ==
    [][\A id \in (DOMAIN store.leases \ Live(store, now)) \cap DOMAIN store'.leases :
          store'.leases[id] # store.leases[id] => WaitedSince(id)]_vars

(* Liveness: when a client has gone, its connection gives back everything - with
   OneOwner and HandlesExact, all of its leases, sessions and handles - unless a
   transfer holds the serve goroutine, and then once that has ended.  (A client
   never comes back on its connection, and the only way on from a cleanup is its
   end, so that the cleanups are all over again and again says that each ends.) *)
CleaningUp(c) == ~conn[c].client /\ conn[c].pc \notin {"call", "gone"}
===============================================================================
