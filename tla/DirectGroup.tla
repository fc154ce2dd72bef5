------------------------------ MODULE DirectGroup ------------------------------
(***************************************************************************)
(* A group on the direct backend, on every rank: NewGroup, the operations  *)
(* and Close of group.go, p2p.go and collective.go, the streams of         *)
(* stream.go, and the queue pairs of backend.go, over the side channel.    *)
(*                                                                         *)
(* A goroutine (caller) is <<rank, name>> and makes the calls of its        *)
(* program one after another.  A connection is <<r, p>>, rank r's queue     *)
(* pair to p with one send and one receive buffer.  poll counts completions *)
(* and never looks at their work IDs, so cq is a number.                   *)
(***************************************************************************)
EXTENDS Topology, SideChannel, Reductions, FiniteSetsExt, SequencesExt

CONSTANTS Names,     \* goroutines of a rank; one of them is Main
          Main,      \* the goroutine that calls NewGroup
          Scenarios, \* device matrices, programs and faults to start from
          None

ASSUME DirectAssumption ==
    /\ N \in Nat \ {0, 1} /\ Width \in Nat \ {0}
    /\ Main \in Names /\ None \notin (0 .. N - 1) \X Names

Ranks == 0 .. N - 1
Callers == Ranks \X Names
Conns == {x \in Ranks \X Ranks : x[1] # x[2]}
Twin(x) == <<x[2], x[1]>>

VARIABLES sc,       \* the scenario: matrix, ring, prog, faults
          topo,     \* per rank: b.topo
          th,       \* where each caller is
          busy,     \* per rank: g.op holds its token
          closed,   \* per rank: g.closed is closed
          conn,     \* per connection: none, init, rts, closed
          lock,     \* per connection: holder of conn.mu, or None
          sendbuf, recvbuf,  \* per connection: contents of the staging regions
          sendq, recvq, cq,  \* per connection: work posted, completions to poll
          \* History, read by properties only:
          sent, got, \* per connection: payloads posted by sends, returned by receives
          dirty,    \* pairs of ranks with work left over by a failed call
          lost,     \* a side-channel call has failed
          seen,     \* per rank: ranks met in a barrier during its own
          inside,   \* per rank: callers inside an operation when Close began
          torn      \* callers that used a connection after its release

groupVars == <<topo, busy, closed>>
qpVars == <<sendbuf, recvbuf, sendq, recvq, cq>>
histVars == <<sent, got, dirty, lost, seen, inside, torn>>
vars == <<sc, th, groupVars, conn, lock, qpVars, histVars, sideVars>>

Rank(c) == c[1]
Cur(c) == sc.prog[c][th[c].k]

Idle(k) == [pc |-> "idle", k |-> k, op |-> "none", peer |-> 0, left |-> 0,
            need |-> 0, seg |-> 1, known |-> {}, late |-> FALSE, held |-> FALSE,
            err |-> FALSE]
Empty == [tag |-> "empty", id |-> <<>>, known |-> {}]

Init ==
    /\ sc \in Scenarios
    /\ th = [c \in Callers |-> IF c[2] # Main THEN Idle(1)
                               ELSE [Idle(0) EXCEPT !.pc = "choose"]]
    /\ topo = [r \in Ranks |-> None]
    /\ busy = [r \in Ranks |-> FALSE]
    /\ closed = [r \in Ranks |-> FALSE]
    /\ conn = [x \in Conns |-> "none"]
    /\ lock = [x \in Conns |-> None]
    /\ sendbuf = [x \in Conns |-> Empty] /\ recvbuf = [x \in Conns |-> Empty]
    /\ sendq = [x \in Conns |-> 0] /\ recvq = [x \in Conns |-> 0]
    /\ cq = [x \in Conns |-> 0]
    /\ sent = [x \in Conns |-> <<>>] /\ got = [x \in Conns |-> <<>>]
    /\ dirty = {} /\ lost = FALSE /\ torn = {}
    /\ seen = [r \in Ranks |-> {}]
    /\ inside = [r \in Ranks |-> {}]
    /\ SideInit

Become(c, record) == th' = [th EXCEPT ![c] = record]
Goto(c, pc) == th' = [th EXCEPT ![c].pc = pc]
Neighbors(r) == {p \in Ranks \ {r} : conn[<<r, p>>] # "none"}
Mine(r) == {x \in Conns : x[1] = r}
Lead(r) == <<r, Main>>

-------------------------------------------------------------------------------
(* NewGroup: configuration, side channel, devices, destinations, ready. *)

AgPc(r) == IF r = 0 THEN "agread" ELSE "agwrite"
InBarrier(r) == \E c \in Callers : /\ Rank(c) = r /\ th[c].op \in {"ready", "barrier"}
                                   /\ th[c].pc \in {"agwrite", "agwait", "agread", "agreply"}
MeetAll(r) ==
    seen' = [q \in Ranks |-> IF q = r THEN {r} \cup {p \in Ranks : InBarrier(p)}
                             ELSE IF InBarrier(q) THEN seen[q] \cup {r} ELSE seen[q]]

\* Config.validate and topology.Choose.
ChooseTopology(r) ==
    /\ th[Lead(r)].pc = "choose"
    /\ topo' = [topo EXCEPT ![r] = Choose(sc.m, sc.ring)]
    /\ Goto(Lead(r), IF topo'[r] = "unknown" THEN "failed" ELSE "side")
    /\ UNCHANGED <<sc, busy, closed, conn, lock, qpVars, histVars, sideVars>>

\* dial: retried until rank 0 listens, then the hello and the wait for its ack.
Dial(q) ==
    /\ q # 0 /\ th[Lead(q)].pc = "side" /\ th[Lead(0)].pc = "side"
    /\ Connect(q)
    /\ Goto(Lead(q), "ack")
    /\ UNCHANGED <<sc, groupVars, conn, lock, qpVars, histVars>>

ReadAck(q) ==
    /\ q # 0 /\ th[Lead(q)].pc = "ack" /\ TakeFrame(q, q)
    /\ Goto(Lead(q), "open")
    /\ UNCHANGED <<sc, groupVars, conn, lock, qpVars, histVars>>

\* listen accepts the ranks in any order, one at a time.
Accept(q) ==
    /\ q # 0 /\ th[Lead(0)].pc = "side" /\ CanRead(0, q) /\ Head(up[q]) = "hello"
    /\ up' = [up EXCEPT ![q] = Tail(@)]
    /\ down' = [down EXCEPT ![q] = Append(@, "ack")]
    /\ Become(Lead(0), [th[Lead(0)] EXCEPT !.left = @ + 1,
                          !.pc = IF th[Lead(0)].left + 1 = N - 1 THEN "open" ELSE "side"])
    /\ UNCHANGED <<sc, ends, groupVars, conn, lock, qpVars, histVars>>

\* openRDMAConn for every peer with a device: the first one listed.
deviceForPeer(r, p) == IF sc.m[r][p] = <<>> THEN "" ELSE sc.m[r][p][1]

\* The loops of open take one peer at a time, the lowest first, and return at
\* the first that fails.
Lowest(x, r, todo) == x[1] = r /\ x[2] \in todo /\ \A p \in todo : x[2] <= p
OneLeft(todo) == \A p, q \in todo : p = q

OpenConns(r) ==
    LET todo == {p \in Ranks \ {r} : deviceForPeer(r, p) # "" /\ conn[<<r, p>>] = "none"} IN
    /\ th[Lead(r)].pc = "open"
    /\ conn' = [x \in Conns |-> IF Lowest(x, r, todo) THEN "init" ELSE conn[x]]
    /\ IF OneLeft(todo)
         THEN Become(Lead(r), [th[Lead(r)] EXCEPT !.op = "dest", !.pc = AgPc(r), !.peer = 1])
         ELSE UNCHANGED th
    /\ UNCHANGED <<sc, groupVars, lock, qpVars, histVars, sideVars>>

\* Fault: open returns without the ready barrier.
FaultNoReady(r) ==
    LET todo == {p \in Ranks \ {r} : conn[<<r, p>>] = "init"} IN
    /\ th[Lead(r)].pc = "rts"
    /\ conn' = [x \in Conns |-> IF Lowest(x, r, todo) THEN "rts" ELSE conn[x]]
    /\ IF OneLeft(todo) THEN Become(Lead(r), Idle(1)) ELSE UNCHANGED th
    /\ UNCHANGED <<sc, groupVars, lock, qpVars, histVars, sideVars>>

\* Ready to receive and to send, peer by peer; then the ready barrier.
ReadyConns(r) ==
    LET todo == {p \in Ranks \ {r} : conn[<<r, p>>] = "init"} IN
    /\ th[Lead(r)].pc = "rts"
    /\ conn' = [x \in Conns |-> IF Lowest(x, r, todo) THEN "rts" ELSE conn[x]]
    /\ IF OneLeft(todo)
         THEN /\ Become(Lead(r), [th[Lead(r)] EXCEPT !.op = "ready", !.pc = AgPc(r), !.peer = 1])
              /\ MeetAll(r)
         ELSE UNCHANGED <<th, seen>>
    /\ UNCHANGED <<sc, groupVars, lock, qpVars, sent, got, dirty, lost, inside, torn, sideVars>>

\* Any failure of NewGroup ends in b.close, which undoes what was opened.
BootBroken(r) ==
    LET t == th[Lead(r)] IN
    \/ "expire" \in sc.faults /\ t.pc \in {"side", "ack", "agread", "agwrite", "agwait", "agreply"}
    \/ "device" \in sc.faults /\ t.pc \in {"open", "rts"}
    \/ t.pc = "ack" /\ ReadBroken(r, r)
    \/ t.pc = "agwrite" /\ WriteBroken(r, r)
    \/ t.pc = "agwait" /\ ReadBroken(r, r)
    \/ t.pc = "agread" /\ ReadBroken(0, t.peer)
    \/ t.pc = "agreply" /\ (WriteBroken(0, t.peer) \/ ("wide" \in sc.faults /\ t.op = "dest"))

CloseAll(r) ==
    /\ conn' = [x \in Conns |-> IF x[1] = r /\ conn[x] # "none" THEN "closed" ELSE conn[x]]
    /\ CloseEnds(r)

BootFails(r) ==
    /\ th[Lead(r)].k = 0 /\ th[Lead(r)].pc # "failed" /\ BootBroken(r)
    /\ CloseAll(r)
    /\ Goto(Lead(r), "failed")
    /\ UNCHANGED <<sc, groupVars, lock, qpVars, histVars>>

-------------------------------------------------------------------------------
(* AllGather of the side channel: destinations, the ready barrier, Barrier. *)

Frame(c) == IF th[c].op = "dest" THEN "dest" ELSE "bar"

AgEnd(c) ==
    CASE th[c].op = "dest" -> [th[c] EXCEPT !.pc = "rts"]
      [] th[c].op = "ready" -> Idle(1)
      [] OTHER -> [th[c] EXCEPT !.pc = "finish", !.err = th[c].late]

\* A frame moved after the context ended still counts as a failure
\* (withContext looks at ctx.Err last).
AgMoved(c, on) ==
    IF th[c].late THEN [th[c] EXCEPT !.pc = "finish", !.err = TRUE] ELSE on

AgStep(c, on) ==
    /\ Become(c, AgMoved(c, on))
    /\ lost' = (lost \/ th[c].late)
    /\ UNCHANGED <<sc, groupVars, conn, lock, qpVars, sent, got, dirty, seen, inside, torn>>

AgWrite(c) ==
    /\ th[c].pc = "agwrite" /\ PutFrame(Rank(c), Rank(c), Frame(c))
    /\ AgStep(c, [th[c] EXCEPT !.pc = "agwait"])

AgWait(c) ==
    /\ th[c].pc = "agwait" /\ TakeFrame(Rank(c), Rank(c))
    /\ AgStep(c, AgEnd(c))

NextPeer(c, last) ==
    IF th[c].peer < N - 1 THEN [th[c] EXCEPT !.peer = @ + 1] ELSE last

AgRead(c) ==
    /\ th[c].pc = "agread" /\ TakeFrame(0, th[c].peer)
    /\ AgStep(c, NextPeer(c, [th[c] EXCEPT !.pc = "agreply", !.peer = 1]))

AgReply(c) ==
    /\ th[c].pc = "agreply" /\ ~("wide" \in sc.faults /\ th[c].op = "dest")
    /\ PutFrame(0, th[c].peer, Frame(c))
    /\ AgStep(c, NextPeer(c, AgEnd(c)))

\* Barrier gives up: its context ended before the frame moved, or the link broke.
AgFails(c) ==
    /\ th[c].op = "barrier"
    /\ \/ th[c].pc = "agwrite" /\ (th[c].late \/ WriteBroken(Rank(c), Rank(c)))
       \/ th[c].pc = "agwait" /\ (th[c].late \/ ReadBroken(Rank(c), Rank(c)))
       \/ th[c].pc = "agread" /\ (th[c].late \/ ReadBroken(0, th[c].peer))
       \/ th[c].pc = "agreply" /\ (th[c].late \/ WriteBroken(0, th[c].peer))
    /\ Become(c, [th[c] EXCEPT !.pc = "finish", !.err = TRUE])
    /\ lost' = TRUE
    /\ UNCHANGED <<sc, groupVars, conn, lock, qpVars, sent, got, dirty, seen, inside, torn, sideVars>>
-------------------------------------------------------------------------------
(* The group slot: acquire, release, and the start of an operation. *)

Ready(c) == th[Lead(Rank(c))].k > 0

\* What is refused before the slot: a peer that is no other rank, a
\* destination of the wrong length or on top of the source.
checkRank(r, p) == p \in Ranks \ {r}
TransferRefused(c) == Cur(c).op \in {"send", "recv"} /\ ~checkRank(Rank(c), Cur(c).peer)
WriterRefused(c) == Cur(c).op = "write" /\ ~checkRank(Rank(c), Cur(c).peer)
ReaderRefused(c) == Cur(c).op = "read" /\ ~checkRank(Rank(c), Cur(c).peer)
CollectiveRefused(c) == Cur(c).op = "gather" /\ ~Cur(c).fits
Refused(c) ==
    TransferRefused(c) \/ WriterRefused(c) \/ ReaderRefused(c) \/ CollectiveRefused(c)

\* acquire, first select: a closed group refuses.
Begin(c) ==
    /\ th[c].pc = "idle" /\ th[c].k \in DOMAIN sc.prog[c] /\ Ready(c) /\ Cur(c).op # "close"
    /\ Become(c, IF Refused(c) \/ closed[Rank(c)] THEN Idle(th[c].k + 1)
                 ELSE [th[c] EXCEPT !.pc = "acquire", !.op = Cur(c).op])
    /\ UNCHANGED <<sc, groupVars, conn, lock, qpVars, histVars, sideVars>>

\* acquire, second select: any ready case may be taken.
TakeSlot(c) ==
    /\ th[c].pc = "acquire" /\ ~busy[Rank(c)]
    /\ busy' = [busy EXCEPT ![Rank(c)] = TRUE]
    /\ Goto(c, "recheck")
    /\ UNCHANGED <<sc, topo, closed, conn, lock, qpVars, histVars, sideVars>>

\* Fault: the wait for the slot does not look at the context.
FaultSlotWaits(c) ==
    /\ th[c].pc = "acquire" /\ closed[Rank(c)]
    /\ Become(c, Idle(th[c].k + 1))
    /\ UNCHANGED <<sc, groupVars, conn, lock, qpVars, histVars, sideVars>>

SlotRefused(c) ==
    /\ th[c].pc = "acquire" /\ (th[c].late \/ closed[Rank(c)])
    /\ Become(c, Idle(th[c].k + 1))
    /\ UNCHANGED <<sc, groupVars, conn, lock, qpVars, histVars, sideVars>>

\* The connections an operation locks, and where it goes first.
Targets(c) == IF th[c].op = "gather" THEN Neighbors(Rank(c)) ELSE {Cur(c).peer} \cap Neighbors(Rank(c))
Own(c) == {<<Rank(c), Cur(c).id>>}

\* Fault: rank 0 answers a barrier before it has heard of anyone.
FaultBarrierPc(c) == IF Rank(c) = 0 THEN "agreply" ELSE "agwrite"

\* The barrier is an AllGather of nothing.
BarrierPc(c) == AgPc(Rank(c))

Started(c) ==
    LET t == [th[c] EXCEPT !.held = TRUE, !.known = Own(c), !.peer = 1]
        moves == t.op \in {"send", "recv", "gather"}
        graph == t.op = "gather" /\ topo[Rank(c)] # "mesh"
        refused == graph /\ Cur(c).n > 1    \* the payload exceeds the staging buffer
    IN  IF t.op = "barrier" THEN [t EXCEPT !.pc = BarrierPc(c)]
        ELSE IF moves /\ Cur(c).n = 0 THEN [t EXCEPT !.pc = "finish"]
        ELSE IF Targets(c) = {} \/ refused
          THEN [t EXCEPT !.pc = "finish", !.err = graph \/ t.op # "gather"]
        ELSE [t EXCEPT !.pc = "lock", !.peer = Min(Targets(c)),
                       !.left = IF graph THEN N - 1 ELSE IF moves THEN Cur(c).n ELSE 1]

\* Fault: acquire does not look at closed again once it has the slot.
FaultNoRecheck(c) ==
    /\ th[c].pc = "recheck"
    /\ Become(c, Started(c)) /\ UNCHANGED busy
    /\ IF th[c].op = "barrier" THEN MeetAll(Rank(c)) ELSE UNCHANGED seen
    /\ UNCHANGED <<sc, topo, closed, conn, lock, qpVars, sent, got, dirty, lost, inside, torn, sideVars>>

\* acquire, third select, and the start of the operation.
Recheck(c) ==
    /\ th[c].pc = "recheck"
    /\ IF closed[Rank(c)]
         THEN /\ Become(c, Idle(th[c].k + 1))
              /\ busy' = [busy EXCEPT ![Rank(c)] = FALSE]
         ELSE Become(c, Started(c)) /\ UNCHANGED busy
    /\ IF th[c].op = "barrier" /\ ~closed[Rank(c)] THEN MeetAll(Rank(c)) ELSE UNCHANGED seen
    /\ UNCHANGED <<sc, topo, closed, conn, lock, qpVars, sent, got, dirty, lost, inside, torn, sideVars>>

\* Fault: release without the once of groupOperation.
FaultReleased(c) == [busy EXCEPT ![Rank(c)] = FALSE]

\* release takes whatever token is in g.op; released makes it happen once.
Released(c) == [busy EXCEPT ![Rank(c)] = IF th[c].held THEN FALSE ELSE @]

\* Fault: the operation returns without its release.
FaultReturnKeeps(c) ==
    /\ th[c].pc = "finish"
    /\ Become(c, Idle(th[c].k + 1))
    /\ UNCHANGED <<sc, groupVars, conn, lock, qpVars, histVars, sideVars>>

\* The operation returns to its caller.
Return(c) ==
    /\ th[c].pc = "finish"
    /\ busy' = Released(c)
    /\ Become(c, Idle(th[c].k + 1))
    /\ UNCHANGED <<sc, topo, closed, conn, lock, qpVars, histVars, sideVars>>

\* The context of a call ends.
Expire(c) ==
    /\ "cancel" \in sc.faults /\ th[c].k > 0 /\ ~th[c].late
    /\ th[c].pc \notin {"idle", "finish", "rclose", "closing"}
    /\ th' = [th EXCEPT ![c].late = TRUE]
    /\ UNCHANGED <<sc, groupVars, conn, lock, qpVars, histVars, sideVars>>

-------------------------------------------------------------------------------
(* Work on the queue pairs, under the connection locks. *)

Lock(c) ==
    LET x == <<Rank(c), th[c].peer>>
        later == {p \in Targets(c) : p > th[c].peer}
    IN  /\ th[c].pc = "lock" /\ lock[x] = None
        /\ lock' = [lock EXCEPT ![x] = c]
        /\ Become(c, IF later # {} THEN [th[c] EXCEPT !.peer = Min(later)]
                     ELSE [th[c] EXCEPT !.pc = IF th[c].op \in {"send", "write"} THEN "postsend"
                                               ELSE "postrecv"])
        /\ UNCHANGED <<sc, groupVars, conn, qpVars, histVars, sideVars>>

\* The deferred unlock of exchange was given the empty slice of its first
\* line, so a mesh collective keeps every connection locked.
Unlocked(c) ==
    [x \in Conns |-> IF lock[x] = c /\ ~(th[c].op = "gather" /\ topo[Rank(c)] = "mesh") THEN None ELSE lock[x]]

Used(c) == {<<Rank(c), p>> : p \in IF th[c].pc = "poll" THEN {th[c].peer} ELSE Targets(c)}
Intact(c) == \A x \in Used(c) : conn[x] = "rts"

\* A stream of n frames is n times a header and a payload, then a zero header.
LastSeg(c) == 2 * Cur(c).n + 1
Payload(c) ==
    CASE th[c].op = "send" -> [tag |-> "data", id |-> <<Cur(c).id, th[c].left>>, known |-> {}]
      [] th[c].op = "write" ->
           [tag |-> IF th[c].seg = LastSeg(c) THEN "eof"
                    ELSE IF th[c].seg % 2 = 1 THEN "hdr" ELSE "data",
            id |-> <<Cur(c).id, th[c].seg>>, known |-> {}]
      [] OTHER -> [tag |-> "part", id |-> <<>>,
                   known |-> IF topo[Rank(c)] = "mesh" THEN Own(c) ELSE th[c].known]

PostRecv(c) ==
    /\ th[c].pc = "postrecv" /\ Intact(c)
    /\ recvq' = [x \in Conns |-> recvq[x] + IF x \in Used(c) THEN 1 ELSE 0]
    /\ Become(c, IF th[c].op = "gather" THEN [th[c] EXCEPT !.pc = "postsend"]
                 ELSE [th[c] EXCEPT !.pc = "poll", !.need = 1])
    /\ UNCHANGED <<sc, groupVars, conn, lock, sendbuf, recvbuf, sendq, cq, histVars, sideVars>>

\* Fault: send fills the staging buffer with the next chunk before the
\* completion of the last one.
FaultPostSendEarly(c) ==
    /\ th[c].pc = "postsend" /\ Intact(c)
    /\ sendbuf' = [x \in Conns |-> IF x \in Used(c) THEN Payload(c) ELSE sendbuf[x]]
    /\ sendq' = [x \in Conns |-> sendq[x] + IF x \in Used(c) THEN 1 ELSE 0]
    /\ sent' = [x \in Conns |-> IF x \in Used(c) /\ th[c].op # "gather"
                                THEN Append(sent[x], Payload(c)) ELSE sent[x]]
    /\ Become(c, IF th[c].op = "send" /\ th[c].left > 1 THEN [th[c] EXCEPT !.left = @ - 1]
                 ELSE [th[c] EXCEPT !.pc = "poll", !.peer = Min(Targets(c)),
                                    !.need = IF th[c].op = "gather" THEN 2 ELSE 1])
    /\ UNCHANGED <<sc, groupVars, conn, lock, recvbuf, recvq, cq, got, dirty, lost, seen, inside, torn, sideVars>>

PostSend(c) ==
    /\ th[c].pc = "postsend" /\ Intact(c)
    /\ sendbuf' = [x \in Conns |-> IF x \in Used(c) THEN Payload(c) ELSE sendbuf[x]]
    /\ sendq' = [x \in Conns |-> sendq[x] + IF x \in Used(c) THEN 1 ELSE 0]
    /\ sent' = [x \in Conns |-> IF x \in Used(c) /\ th[c].op # "gather"
                                THEN Append(sent[x], Payload(c)) ELSE sent[x]]
    /\ Become(c, [th[c] EXCEPT !.pc = "poll", !.peer = Min(Targets(c)),
                               !.need = IF th[c].op = "gather" THEN 2 ELSE 1])
    /\ UNCHANGED <<sc, groupVars, conn, lock, recvbuf, recvq, cq, got, dirty, lost, seen, inside, torn, sideVars>>

\* What the last completion of a transfer on this connection leads to.
Later(c) == {p \in Targets(c) : p > th[c].peer}
Merge(known, more) == known \cup {v \in more : \A w \in known : w[1] # v[1]}

Again(t, pc) == IF t.left > 1 THEN [t EXCEPT !.left = @ - 1, !.pc = pc] ELSE [t EXCEPT !.pc = "finish"]

\* The next neighbour of the round, the next round, or the end: on a graph,
\* an error if some rank is still unknown.
GatherOn(c, t) ==
    IF Later(c) # {} THEN [t EXCEPT !.peer = Min(Later(c)), !.need = 2]
    ELSE [Again(t, "postrecv") EXCEPT
            !.err = t.left = 1 /\ topo[Rank(c)] # "mesh" /\ \E q \in Ranks : \A v \in t.known : v[1] # q]

\* A header opens a frame, ends the stream or is none; a payload ends a frame.
ReadOn(t, tag) ==
    CASE t.seg % 2 = 1 /\ tag = "eof" -> [t EXCEPT !.pc = "rclose", !.held = FALSE]
      [] t.seg % 2 = 1 /\ tag \notin {"eof", "hdr"} -> [t EXCEPT !.pc = "rclose", !.err = TRUE]
      [] OTHER -> [t EXCEPT !.seg = @ + 1, !.pc = "lock"]

Received(c) ==
    LET buf == recvbuf[<<Rank(c), th[c].peer>>]
        t == th[c]
    IN  CASE t.op = "gather" -> GatherOn(c, [t EXCEPT !.known = Merge(@, buf.known)])
          [] t.op = "read" -> ReadOn(t, buf.tag)
          [] t.op = "write" /\ t.seg < LastSeg(c) -> [t EXCEPT !.seg = @ + 1, !.pc = "lock"]
          [] OTHER -> Again(t, IF t.op = "send" THEN "postsend" ELSE "postrecv")

\* One completion, whichever it is, unless the context has ended.
PollCompletion(c, x) ==
    /\ ~th[c].late /\ cq[x] > 0
    /\ cq' = [cq EXCEPT ![x] = @ - 1]

Poll(c) ==
    LET x == <<Rank(c), th[c].peer>>
        t == Received(c)
    IN  /\ th[c].pc = "poll" /\ Intact(c) /\ PollCompletion(c, x)
        /\ IF th[c].need > 1
             THEN /\ th' = [th EXCEPT ![c].need = @ - 1]
                  /\ UNCHANGED <<lock, got, busy>>
             ELSE /\ Become(c, t)
                  /\ lock' = IF t.pc \in {"finish", "lock", "rclose"} THEN Unlocked(c) ELSE lock
                  /\ got' = IF t.op \in {"recv", "read"} THEN [got EXCEPT ![x] = Append(@, recvbuf[x])]
                            ELSE got
                  /\ busy' = IF t.held THEN busy ELSE Released(c)
        /\ UNCHANGED <<sc, topo, closed, conn, sendbuf, recvbuf, sendq, recvq, sent, dirty, lost, seen,
                       inside, torn, sideVars>>

\* A post or a poll fails: the context ended, the provider reports an error or
\* the connection has been released under the call.  The work already posted,
\* to the peers below stop, stays.  A failed Write is followed by Close, which
\* sends the zero header.
Below(c, stop) == {x \in Used(c) : x[2] < stop}
HalfPosted(c, pc, queue, stop) ==
    [x \in Conns |-> queue[x] + IF th[c].pc = pc /\ x \in Below(c, stop) THEN 1 ELSE 0]

WorkFails(c) ==
    /\ th[c].pc \in {"postrecv", "postsend", "poll"}
    /\ (th[c].late /\ th[c].pc = "poll") \/ "provider" \in sc.faults \/ ~Intact(c)
    /\ \E stop \in Targets(c) :
         /\ recvq' = HalfPosted(c, "postrecv", recvq, stop)
         /\ sendq' = HalfPosted(c, "postsend", sendq, stop)
         /\ sendbuf' = [x \in Conns |-> IF th[c].pc = "postsend" /\ x \in Below(c, stop)
                                        THEN Payload(c) ELSE sendbuf[x]]
    /\ Become(c, CASE th[c].op = "write" /\ th[c].seg < LastSeg(c) ->
                        [th[c] EXCEPT !.pc = "lock", !.seg = LastSeg(c), !.err = TRUE]
                   [] th[c].op = "read" -> [th[c] EXCEPT !.pc = "rclose", !.err = TRUE]
                   [] OTHER -> [th[c] EXCEPT !.pc = "finish", !.err = TRUE])
    /\ lock' = Unlocked(c)
    /\ dirty' = dirty \cup {{x[1], x[2]} : x \in {y \in Conns : lock[y] = c}}
    /\ torn' = IF Intact(c) THEN torn ELSE torn \cup {c}
    /\ UNCHANGED <<sc, groupVars, conn, recvbuf, cq, sent, got, lost, seen, inside, sideVars>>

\* RecvReader.Close, after EOF or an error.
ReaderClose(c) ==
    /\ th[c].pc = "rclose"
    /\ busy' = Released(c)
    /\ Become(c, Idle(th[c].k + 1))
    /\ UNCHANGED <<sc, topo, closed, conn, lock, qpVars, histVars, sideVars>>

\* External: an unreliable connection hands a message to the oldest receive
\* of the peer, and loses one that finds none or finds the peer gone.
Transmit(x) ==
    /\ sendq[x] > 0 /\ recvq[Twin(x)] > 0 /\ conn[x] = "rts" /\ conn[Twin(x)] = "rts"
    /\ sendq' = [sendq EXCEPT ![x] = @ - 1]
    /\ recvq' = [recvq EXCEPT ![Twin(x)] = @ - 1]
    /\ recvbuf' = [recvbuf EXCEPT ![Twin(x)] = sendbuf[x]]
    /\ cq' = [cq EXCEPT ![x] = @ + 1, ![Twin(x)] = @ + 1]
    /\ UNCHANGED <<sc, th, groupVars, conn, lock, sendbuf, histVars, sideVars>>

Drop(x) ==
    /\ sendq[x] > 0 /\ conn[x] = "rts"
    /\ conn[Twin(x)] = "closed" \/ ("drop" \in sc.faults /\ recvq[Twin(x)] = 0)
    /\ sendq' = [sendq EXCEPT ![x] = @ - 1]
    /\ cq' = [cq EXCEPT ![x] = @ + 1]
    /\ dirty' = dirty \cup {{x[1], x[2]}}
    /\ UNCHANGED <<sc, th, groupVars, conn, lock, sendbuf, recvbuf, recvq, sent, got, lost, seen,
                   inside, torn, sideVars>>

-------------------------------------------------------------------------------
(* Group.Close: once; it waits for nobody and takes no connection lock. *)

Closing(r) == \E c \in Callers : Rank(c) = r /\ th[c].pc = "closing"

CloseGroup(c) ==
    /\ th[c].pc = "idle" /\ th[c].k \in DOMAIN sc.prog[c] /\ Ready(c) /\ Cur(c).op = "close"
    /\ ~Closing(Rank(c))
    /\ closed' = [closed EXCEPT ![Rank(c)] = TRUE]
    /\ IF closed[Rank(c)] THEN Become(c, Idle(th[c].k + 1)) /\ UNCHANGED inside
       ELSE /\ Goto(c, "closing")
            /\ inside' = [inside EXCEPT ![Rank(c)] = {d \in Callers : Rank(d) = Rank(c) /\ th[d].held}]
    /\ UNCHANGED <<sc, topo, busy, conn, lock, qpVars, sent, got, dirty, lost, seen, torn, sideVars>>

CloseConn(c) ==
    LET open == {x \in Mine(Rank(c)) : conn[x] = "rts"} IN
    /\ th[c].pc = "closing"
    /\ IF open # {}
         THEN LET x == CHOOSE y \in open : \A z \in open : y[2] <= z[2] IN
              /\ conn' = [conn EXCEPT ![x] = "closed"]
              /\ sendq' = [sendq EXCEPT ![x] = 0]
              /\ recvq' = [recvq EXCEPT ![x] = 0]
              /\ cq' = [cq EXCEPT ![x] = 0]
              /\ UNCHANGED <<th, sideVars>>
         ELSE /\ CloseEnds(Rank(c)) /\ Become(c, Idle(th[c].k + 1))
              /\ UNCHANGED <<conn, sendq, recvq, cq>>
    /\ UNCHANGED <<sc, groupVars, lock, sendbuf, recvbuf, histVars>>

BootStep(r) == ChooseTopology(r) \/ Dial(r) \/ ReadAck(r) \/ Accept(r) \/ OpenConns(r) \/ ReadyConns(r)
SideStep(c) == AgWrite(c) \/ AgWait(c) \/ AgRead(c) \/ AgReply(c) \/ AgFails(c)
SlotStep(c) == Begin(c) \/ TakeSlot(c) \/ SlotRefused(c) \/ Recheck(c) \/ Return(c)
WorkStep(c) == Lock(c) \/ PostRecv(c) \/ PostSend(c) \/ Poll(c) \/ WorkFails(c) \/ ReaderClose(c)
CloseStep(c) == CloseGroup(c) \/ CloseConn(c)

Progress ==
    \/ \E r \in Ranks : BootStep(r) \/ BootFails(r)
    \/ \E c \in Callers : SideStep(c) \/ SlotStep(c) \/ WorkStep(c) \/ CloseStep(c)
    \/ \E x \in Conns : Transmit(x) \/ Drop(x)

Next == Progress \/ \E c \in Callers : Expire(c)

Spec == Init /\ [][Next]_vars

\* Something that can run does.  Programs are finite, so this is all it takes.
FairSpec == Spec /\ WF_vars(Progress)
-------------------------------------------------------------------------------
(* Reductions: applyReduction over the gathered values, own value first. *)

\* What a rank contributes to a collective, as an element of each type.
Element(dt, v) ==
    LET x == 2 * v[1] + v[2] + 1
    IN  CASE dt = "bool" -> x % 2 = 0
          [] dt = "complex64" -> <<x % 2, 3 - x>>
          [] OTHER -> Wrap(dt, x)
ElementOf(dt, known, q) == Element(dt, CHOOSE v \in known : v[1] = q)

Ascending(S) == SetToSortSeq(S, LAMBDA p, q : p < q)
\* Fault: the fold counts the rank's own value again.
FaultReduced(dt, op, r, known) ==
    FoldLeft(LAMBDA acc, q : apply(dt, op, acc, ElementOf(dt, known, q)), ElementOf(dt, known, r),
             Ascending({q \in Ranks : \E v \in known : v[1] = q}))
Reduced(dt, op, r, known) ==
    FoldLeft(LAMBDA acc, q : apply(dt, op, acc, ElementOf(dt, known, q)), ElementOf(dt, known, r),
             Ascending({q \in Ranks \ {r} : \E v \in known : v[1] = q}))

-------------------------------------------------------------------------------
(* Properties. *)

States == {"choose", "side", "ack", "open", "rts", "failed", "agwrite", "agwait", "agread",
           "agreply", "idle", "acquire", "recheck", "lock", "postrecv", "postsend", "poll",
           "finish", "rclose", "closing"}

\* Every variable has its type.  A call posts at most one receive and one send
\* on a queue pair at a time, so with programs of two such calls what failed
\* calls leave behind stays within two of each.
TypeOK ==
    /\ \A c \in Callers : th[c].pc \in States /\ th[c].k \in 0 .. Len(sc.prog[c]) + 1
    /\ busy \in [Ranks -> BOOLEAN] /\ closed \in [Ranks -> BOOLEAN]
    /\ conn \in [Conns -> {"none", "init", "rts", "closed"}]
    /\ lock \in [Conns -> Callers \cup {None}]
    /\ \A x \in Conns : sendq[x] \in 0 .. 2 /\ recvq[x] \in 0 .. 2 /\ cq[x] \in 0 .. 4

\* One active operation per group: the slot, which any release frees whoever
\* holds it, never admits a second operation, collective or stream (group.go
\* acquire and release, groupOperation.released).
OneActive ==
    \A c, d \in Callers : Rank(c) = Rank(d) /\ th[c].held /\ th[d].held => c = d

\* What receives and stream readers return is what the peer's sends and stream
\* writers posted, in that order, as long as no call between the two ranks has
\* failed or lost a message (backend.go send, recv and poll; stream.go).
DataExact ==
    \A x \in Conns : {x[1], x[2]} \notin dirty => IsPrefix(got[x], sent[Twin(x)])

\* The reduction of the values of all ranks, whatever their order.
Sums(dt, es) ==
    LET part(i) == MapThenSumSet(LAMBDA q : es[q][i], Ranks)
    IN  CASE dt = "bool" -> \E q \in Ranks : es[q]
          [] dt = "complex64" -> <<part(1), part(2)>>
          [] OTHER -> Wrap(dt, MapThenSumSet(LAMBDA q : es[q], Ranks))
Under(dt, a, b) ==
    CASE dt = "bool" -> a => b
      [] dt = "complex64" -> 100 * a[1] + a[2] <= 100 * b[1] + b[2]
      [] OTHER -> a <= b
IsReduction(dt, op, es, v) ==
    CASE op = "sum" -> v = Sums(dt, es)
      [] op = "max" -> v \in Range(es) /\ \A q \in Ranks : Under(dt, es[q], v)
      [] op = "min" -> v \in Range(es) /\ \A q \in Ranks : Under(dt, v, es[q])

\* A collective that returns without error has the value of every rank for
\* this very collective, on a mesh and relayed over a ring, a line or any
\* connected graph (exchange, graphGather); and every rank reduces the values
\* to the same sum, maximum and minimum, although each starts with its own
\* (allReduce, applyReduction).
GatherDone(c) == /\ th[c].pc = "finish" /\ th[c].op = "gather" /\ ~th[c].err
                 /\ Cur(c).n > 0 /\ dirty = {}
CollectiveExact ==
    \A c \in Callers : GatherDone(c) =>
        /\ th[c].known = {<<q, Cur(c).id>> : q \in Ranks}
        /\ \A dt \in DTypes, op \in ReductionOps :
              IsReduction(dt, op, [q \in Ranks |-> Element(dt, <<q, Cur(c).id>>)],
                          Reduced(dt, op, Rank(c), th[c].known))

\* A Barrier that returns without error has met every rank in a barrier of its
\* own, as long as no barrier has failed (tcpchan AllGather).
BarrierMeets ==
    \A c \in Callers : th[c].pc = "finish" /\ th[c].op = "barrier" /\ ~th[c].err /\ ~lost
                         => seen[Rank(c)] = Ranks

\* The ready barrier: work is only posted on a queue pair whose far end can
\* receive, or has been released since (rdmaBackend.open).
ReadyTogether ==
    \A x \in Conns : sendq[x] + recvq[x] > 0 => conn[Twin(x)] \in {"rts", "closed"}

\* Close releases queue pairs and memory without a lock.  Only an operation
\* that was already inside when Close began can use them afterwards; a call
\* that still waited for its slot never does (acquire's last check).
TornOnlyInside == \A c \in torn : c \in inside[Rank(c)]

\* Choose accepts a matrix exactly when every link works both ways and no set
\* of ranks is cut off, and the topology it names fits the neighbours every rank
\* has: exchange relies on a link to every peer on a mesh.
ChooseExact ==
    (\A r \in Ranks : (th[Lead(r)].pc = "choose") <=> (r # 0))
        => /\ topo[0] # "unknown" <=> Usable(sc.m)
           /\ Fits(sc.m, topo[0])

\* Every call returns when no context ends and no transfer fails: no deadlock
\* between the ranks, the slot, the connection locks and the side channel.
\* NewGroup returns on every rank also when devices fail on some of them after
\* other peers were opened or brought up: a rank that gives up releases all it
\* had opened, and the end of its sockets ends the wait of the others
\* (newRDMABackend closes the backend; tcpchan's AllGather then fails).
NothingOpen(r) ==
    /\ \A x \in Mine(r) : conn[x] \in {"none", "closed"}
    /\ \A q \in Links : r \notin ends[q]
Returned(c) == th[c].k > Len(sc.prog[c])
AllReturn ==
    sc.faults \subseteq {"device", "wide"} =>
        <>(\A c \in Callers :
              \/ Returned(c)
              \/ th[Lead(Rank(c))].pc = "failed" /\ NothingOpen(Rank(c)))

\* Calls whose contexts have ended return, from the wait for the slot, from a
\* poll and from the side channel.  A wait for conn.mu has no such way out: it
\* ends with the call that holds the connection.
Overdue == \E c \in Callers : th[c].late
CancelReturns == Overdue ~> ~Overdue
===============================================================================
