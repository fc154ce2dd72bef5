------------------------------- MODULE IpcClient -------------------------------
(***************************************************************************)
(* A group on the daemon backend: the operations of daemon_backend.go over *)
(* the request/response stream of internal/ipc/client.go, and one serve    *)
(* goroutine of the daemon at the other end.                               *)
(*                                                                         *)
(* The group's slot admits one operation at a time (DirectGroup!OneActive),*)
(* so there is one caller, next to a goroutine that may Close the group.   *)
(* The socket is a byte stream and neither side frames its messages: a     *)
(* read takes everything that has arrived and fails to decode more than    *)
(* one message.  Responses carry no request ID; tag and call are history.  *)
(***************************************************************************)
EXTENDS Naturals, Sequences, FiniteSets, SequencesExt

CONSTANTS Ops,        \* operations the caller makes
          Contexts,   \* "none", "deadline", "cancel": what may end a call's context
          MaxCalls,   \* bound: calls of the caller
          Faults      \* what may fail: "memory", "transport", "hang", "close"

ASSUME ClientAssumption ==
    /\ MaxCalls \in Nat
    /\ Ops \subseteq {"send", "recv", "coll", "barrier"}
    /\ Contexts \subseteq {"none", "deadline", "cancel"}
    /\ Faults \subseteq {"memory", "transport", "hang", "close"}

VARIABLES th,       \* the caller
          closer,   \* the goroutine in Close: "open", "unmapped" (but
                    \* Data is still set), "cleared", "closed"
          up, down, \* bytes in the socket, as messages
          sv,       \* the serve goroutine: pc and the request of a transfer
          leases, nextLease,   \* serve's lease table; 0 is the zero Lease
          works,    \* serve's work table: state of each work ID
          \* History, read by properties only:
          broken,   \* a request was abandoned without its answer
          mixed,    \* an answer was taken for another request's
          did,      \* calls the daemon has carried out
          looked,   \* a call had looked the mapping up when Close cleared Data
          fault     \* a copy touched unmapped memory

svVars == <<sv, leases, nextLease, works, did>>
closeVars == <<looked, fault>>
vars == <<th, closer, up, down, svVars, broken, mixed, closeVars>>

NoTag == <<0, 0, 0>>
Idle(k) == [pc |-> "idle", k |-> k, op |-> "none", ctx |-> "none", late |-> FALSE, at |-> 0,
            req |-> "none", defers |-> <<>>, work |-> 0, err |-> FALSE]
SvIdle == [pc |-> "serving", tag |-> NoTag, call |-> 0]

\* Dial and Map have succeeded.
Init ==
    /\ th = Idle(0)
    /\ closer = "open" /\ up = <<>> /\ down = <<>>
    /\ sv = SvIdle /\ leases = {} /\ nextLease = 1 /\ works = <<>>
    /\ broken = FALSE /\ mixed = FALSE /\ did = {}
    /\ looked = FALSE /\ fault = FALSE

-------------------------------------------------------------------------------
(* The operations of daemon_backend.go, as the steps they take. *)

Steps == [barrier |-> <<"barrier">>,
          send |-> <<"alloc", "bytes", "copy", "transfer">>,
          recv |-> <<"alloc", "transfer", "bytes", "copy">>,
          coll |-> <<"alloc", "alloc", "bytes", "copy", "submit", "wait", "bytes", "copy">>]

\* The deferred frees, the last lease first.
Unwind(t) == IF t.defers # <<>> THEN [t EXCEPT !.pc = "step", !.req = "free"]
             ELSE [t EXCEPT !.pc = "return"]

\* Fault: an operation that fails returns before its deferred frees.
FaultFailed(t) == [t EXCEPT !.pc = "return", !.err = TRUE]

Failed(t) == Unwind([t EXCEPT !.err = TRUE])

Advance(t) ==
    IF t.at < Len(Steps[t.op])
      THEN [t EXCEPT !.pc = "step", !.at = @ + 1, !.req = Steps[t.op][t.at + 1]]
      ELSE Unwind(t)

\* A closed group refuses (acquire).
Begin(op, ctx) ==
    /\ th.pc = "idle" /\ th.k < MaxCalls /\ closer = "open"
    /\ th' = Advance([Idle(th.k + 1) EXCEPT !.op = op, !.ctx = ctx])
    /\ UNCHANGED <<closer, up, down, svVars, broken, mixed, closeVars>>

\* The context of the call ends.
Expire ==
    /\ th.pc # "idle" /\ th.ctx # "none" /\ ~th.late
    /\ th' = [th EXCEPT !.late = TRUE]
    /\ UNCHANGED <<closer, up, down, svVars, broken, mixed, closeVars>>

\* Fault: bytes does not look at the mapping.
FaultMapBytes ==
    /\ th.pc = "step" /\ th.req = "bytes"
    /\ th' = Advance(th)
    /\ UNCHANGED <<closer, up, down, svVars, broken, mixed, closeVars>>

\* bytes looks at the length of Data; nothing keeps Close away.
MapBytes ==
    /\ th.pc = "step" /\ th.req = "bytes"
    /\ th' = IF closer \in {"open", "unmapped"} THEN Advance(th) ELSE Failed(th)
    /\ UNCHANGED <<closer, up, down, svVars, broken, mixed, closeVars>>

\* Data is sliced and copied from or to.  Where the memory is gone that ends the
\* process (a fault, or a panic if Data was cleared before it was sliced).
CopyBytes ==
    /\ th.pc = "step" /\ th.req = "copy"
    /\ th' = Advance(th)
    /\ fault' = (fault \/ closer # "open")
    /\ UNCHANGED <<closer, up, down, svVars, broken, mixed, looked>>

Return ==
    /\ th.pc = "return"
    /\ th' = [Idle(th.k) EXCEPT !.err = th.err]
    /\ UNCHANGED <<closer, up, down, svVars, broken, mixed, closeVars>>

-------------------------------------------------------------------------------
(* Client.do: one request and its response. *)

Asking == th.pc = "step" /\ th.req \notin {"bytes", "copy"}
Tag == <<th.k, th.at, Len(th.defers)>>

\* What follows a failed request: the remaining frees.
AfterFailure(t) ==
    Failed(IF t.req = "free" THEN [t EXCEPT !.defers = Tail(@)] ELSE t)

\* do, and WaitWork's loop, look at the context first; a free has its own.
DoRefused ==
    /\ Asking /\ th.late /\ th.req # "free"
    /\ th' = AfterFailure(th)
    /\ UNCHANGED <<closer, up, down, svVars, broken, mixed, closeVars>>

DoWrite ==
    /\ Asking /\ (th.late => th.req = "free")
    /\ IF closer = "closed"
         THEN th' = AfterFailure(th) /\ UNCHANGED up
         ELSE /\ th' = [th EXCEPT !.pc = "read"]
              /\ up' = Append(up, [op |-> th.req, tag |-> Tag, call |-> th.k, work |-> th.work,
                                   leases |-> th.defers])
    /\ UNCHANGED <<closer, down, svVars, broken, mixed, closeVars>>

\* What a response without an error does for the request.
Accepted(r, t) ==
    CASE t.req = "alloc" -> Advance([t EXCEPT !.defers = <<r.lease>> \o @])
      [] t.req = "submit" -> Advance([t EXCEPT !.work = r.work])
      [] t.req = "wait" -> IF ~r.ready THEN [t EXCEPT !.pc = "step"]
                           ELSE IF r.failed THEN Failed(t) ELSE Advance(t)
      [] t.req = "free" -> Unwind([t EXCEPT !.defers = Tail(@)])
      [] OTHER -> Advance(t)

\* One read takes all that is there; two messages do not decode.
DoRead ==
    LET r == Head(down) IN
    /\ th.pc = "read" /\ down # <<>> /\ closer # "closed"
    /\ down' = <<>>
    /\ th' = IF Len(down) > 1 \/ ~r.ok THEN AfterFailure(th) ELSE Accepted(r, th)
    /\ mixed' = (mixed \/ Len(down) > 1 \/ r.tag # Tag)
    /\ UNCHANGED <<closer, up, svVars, broken, closeVars>>

\* Fault: do sets no deadline on the socket.
FaultTimesOut == th.req = "free"

\* A free waits one second, wait_work for ever, the others for the deadline.
TimesOut == \/ th.req = "free"
            \/ th.req # "wait" /\ th.ctx = "deadline" /\ th.late

\* The deadline passes, or the socket is closed, while do waits.
DoGivesUp ==
    /\ th.pc = "read" /\ (TimesOut \/ closer = "closed")
    /\ th' = AfterFailure(th)
    /\ broken' = TRUE
    /\ UNCHANGED <<closer, up, down, svVars, mixed, closeVars>>

-------------------------------------------------------------------------------
(* Group.Close and daemonBackend.close: the mapping, then the connection. *)

\* Group.Close closes the group, so that acquire refuses from here on, and
\* Mapping.Close unmaps the memory; then it clears Data.  There is no lock.
CloseMapping ==
    /\ "close" \in Faults /\ closer = "open"
    /\ closer' = "unmapped"
    /\ UNCHANGED <<th, up, down, svVars, broken, mixed, closeVars>>

ClearMapping ==
    /\ closer = "unmapped" /\ closer' = "cleared"
    /\ looked' = (fault \/ (th.pc = "step" /\ th.req = "copy"))
    /\ UNCHANGED <<th, up, down, svVars, broken, mixed, fault>>

CloseClient ==
    /\ closer = "cleared" /\ closer' = "closed"
    /\ UNCHANGED <<th, up, down, svVars, broken, mixed, closeVars>>

-------------------------------------------------------------------------------
(* The serve goroutine and its work, as this connection sees them. *)

OK(tag) == [ok |-> TRUE, lease |-> 0, work |-> 0, ready |-> FALSE, failed |-> FALSE, tag |-> tag]
Error(tag) == [OK(tag) EXCEPT !.ok = FALSE]
Answer(r) == down' = Append(down, r)

HandleAlloc(q) ==
    /\ q.op = "alloc"
    /\ \/ /\ "memory" \in Faults /\ Answer(Error(q.tag)) /\ UNCHANGED <<leases, nextLease>>
       \/ /\ leases' = leases \cup {nextLease} /\ nextLease' = nextLease + 1
          /\ Answer([OK(q.tag) EXCEPT !.lease = nextLease])
    /\ UNCHANGED <<sv, works>>

HandleFree(q) ==
    /\ q.op = "free"
    /\ leases' = leases \ {Head(q.leases)}
    /\ Answer(IF Head(q.leases) \in leases THEN OK(q.tag) ELSE Error(q.tag))
    /\ UNCHANGED <<sv, nextLease, works>>

\* checkRange: a transfer runs in the serve goroutine.
HandleTransfer(q) ==
    /\ q.op \in {"transfer", "barrier"}
    /\ IF Range(q.leases) \subseteq leases
         THEN sv' = [pc |-> "transfer", tag |-> q.tag, call |-> q.call] /\ UNCHANGED down
         ELSE Answer(Error(q.tag)) /\ UNCHANGED sv
    /\ UNCHANGED <<leases, nextLease, works>>

\* checkAsyncRange and startWork.
HandleSubmit(q) ==
    /\ q.op = "submit"
    /\ IF Range(q.leases) \subseteq leases
         THEN /\ works' = Append(works, [state |-> "running", call |-> q.call])
              /\ Answer([OK(q.tag) EXCEPT !.work = Len(works) + 1])
         ELSE Answer(Error(q.tag)) /\ UNCHANGED works
    /\ UNCHANGED <<sv, leases, nextLease>>

HandleWait(q) ==
    LET known == q.work \in DOMAIN works /\ works[q.work].state # "collected"
        ready == works[q.work].state \in {"done", "failed"}
    IN  /\ q.op = "wait"
        /\ IF ~known THEN Answer(Error(q.tag)) /\ UNCHANGED works
           ELSE /\ Answer([OK(q.tag) EXCEPT !.ready = ready,
                                            !.failed = (works[q.work].state = "failed")])
                /\ works' = IF ready THEN [works EXCEPT ![q.work].state = "collected"] ELSE works
        /\ UNCHANGED <<sv, leases, nextLease>>

\* readControl takes all requests that have arrived; two do not decode.
SvRead ==
    LET q == Head(up) IN
    /\ sv.pc = "serving" /\ up # <<>>
    /\ up' = <<>>
    /\ IF Len(up) = 1
         THEN \/ HandleAlloc(q) \/ HandleFree(q) \/ HandleTransfer(q)
              \/ HandleSubmit(q) \/ HandleWait(q)
         ELSE Answer(Error(NoTag)) /\ UNCHANGED <<sv, leases, nextLease, works>>
    /\ UNCHANGED <<th, closer, broken, mixed, did, closeVars>>

\* Fault: no continue after the answer to a failed transfer.
FaultTransferEnds ==
    /\ sv.pc = "transfer"
    /\ \/ Answer(OK(sv.tag)) /\ did' = did \cup {sv.call}
       \/ /\ "transport" \in Faults /\ UNCHANGED did
          /\ down' = down \o <<Error(sv.tag), OK(sv.tag)>>
    /\ sv' = SvIdle
    /\ UNCHANGED <<th, closer, up, leases, nextLease, works, broken, mixed, closeVars>>

\* Send, Recv, Barrier or Maintain of the transport returns.
SvTransferEnds ==
    /\ sv.pc = "transfer"
    /\ \/ Answer(OK(sv.tag)) /\ did' = did \cup {sv.call}
       \/ "transport" \in Faults /\ Answer(Error(sv.tag)) /\ UNCHANGED did
    /\ sv' = SvIdle
    /\ UNCHANGED <<th, closer, up, leases, nextLease, works, broken, mixed, closeVars>>

WorkEnds(w) ==
    /\ works[w].state = "running"
    /\ \/ works' = [works EXCEPT ![w].state = "done"] /\ did' = did \cup {works[w].call}
       \/ /\ "transport" \in Faults \/ sv.pc = "cleanup"
          /\ works' = [works EXCEPT ![w].state = "failed"] /\ UNCHANGED did
    /\ UNCHANGED <<th, closer, up, down, sv, leases, nextLease, broken, mixed, closeVars>>

\* EOF: cancelWork, then wg.Wait and the leases.
SvEOF ==
    /\ sv.pc = "serving" /\ up = <<>> /\ closer = "closed"
    /\ sv' = [SvIdle EXCEPT !.pc = "cleanup"]
    /\ UNCHANGED <<th, closer, up, down, leases, nextLease, works, broken, mixed, did, closeVars>>

\* Fault: the leases of the connection are forgotten.
FaultCleanup ==
    /\ sv.pc = "cleanup" /\ \A w \in DOMAIN works : works[w].state # "running"
    /\ sv' = [SvIdle EXCEPT !.pc = "gone"]
    /\ UNCHANGED <<th, closer, up, down, leases, nextLease, works, broken, mixed, did, closeVars>>

SvCleanup ==
    /\ sv.pc = "cleanup" /\ \A w \in DOMAIN works : works[w].state # "running"
    /\ sv' = [SvIdle EXCEPT !.pc = "gone"] /\ leases' = {}
    /\ UNCHANGED <<th, closer, up, down, nextLease, works, broken, mixed, did, closeVars>>

-------------------------------------------------------------------------------
CallerStep == MapBytes \/ CopyBytes \/ Return \/ DoRefused \/ DoWrite \/ DoRead \/ DoGivesUp
CloseStep == ClearMapping \/ CloseClient
ServeStep == SvRead \/ SvEOF \/ SvCleanup

Next ==
    \/ \E op \in Ops, ctx \in Contexts : Begin(op, ctx)
    \/ CallerStep \/ Expire \/ CloseMapping \/ CloseStep
    \/ ServeStep \/ SvTransferEnds \/ \E w \in DOMAIN works : WorkEnds(w)

Spec == Init /\ [][Next]_vars

\* Goroutines run and deadlines pass; transfers and work may hang for ever
\* where Faults says so, but cancelled work returns.
Fairness ==
    /\ WF_vars(CallerStep) /\ WF_vars(ServeStep) /\ WF_vars(CloseStep)
    /\ WF_vars(th.ctx = "deadline" /\ Expire)
    /\ WF_vars("hang" \notin Faults /\ SvTransferEnds)
    /\ \A w \in 1 .. MaxCalls :
         WF_vars(/\ "hang" \notin Faults \/ sv.pc = "cleanup"
                 /\ w \in DOMAIN works /\ WorkEnds(w))
FairSpec == Spec /\ Fairness

-------------------------------------------------------------------------------
(* Properties. *)

\* Every variable has its type; lease IDs are below the counter they come from.
TypeOK ==
    /\ th.pc \in {"idle", "step", "read", "return"} /\ th.k \in 0 .. MaxCalls
    /\ closer \in {"open", "unmapped", "cleared", "closed"}
    /\ {looked, fault} \subseteq BOOLEAN
    /\ sv.pc \in {"serving", "transfer", "cleanup", "gone"}
    /\ leases \subseteq 1 .. nextLease - 1 /\ Len(th.defers) <= 2
    /\ Len(works) <= MaxCalls

\* Responses carry no ID (Client.do under its mutex).  As long as no request
\* was given up unanswered, each gets its own answer, and an operation that
\* returns nil has been carried out by the daemon.
AnswersOwn ==
    ~broken => ~mixed /\ (th.pc = "idle" /\ th.k > 0 /\ ~th.err => th.k \in did)

\* Whatever failed on the way, an operation gives back every lease it took
\* (the deferred frees of daemon_backend.go), as long as the connection is open
\* and no request was given up unanswered.
LeasesReturned == th.pc = "idle" /\ closer = "open" /\ ~broken => leases = {}

\* Close unmaps the slab without waiting for the operation in progress, clears
\* Data only afterwards, and bytes takes no lock; so a copy may touch memory that
\* is gone.  The race ends with the clearing of Data: only a call that had looked
\* the mapping up by then is hit, and every later use of the mapping is an error,
\* also by the operation that Close overtook.
UnmappedOnlyInRace == fault /\ closer \in {"cleared", "closed"} => looked

\* Close ends a call that waits for the daemon, with or without a deadline,
\* and the daemon gets every lease back, unless a transfer hangs there.
CloseReleases ==
    closer = "closed" ~> /\ th.pc = "idle"
                         /\ (sv.pc = "gone" /\ leases = {}) \/ sv.pc = "transfer"

\* A call whose context has a deadline returns, even when the daemon's
\* transport hangs.
DeadlineReturns == th.ctx = "deadline" ~> th.pc = "idle"
===============================================================================
