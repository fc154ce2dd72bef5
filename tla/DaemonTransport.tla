---------------------------- MODULE DaemonTransport ----------------------------
(***************************************************************************)
(* cmd/jaccld/transport.go on every rank of a group: the data operations,  *)
(* the experimental write heartbeat and Maintain, over the queue pairs     *)
(* between the ranks and the TCP side channel whose hub is rank 0          *)
(* (internal/tcpchan).                                                     *)
(*                                                                         *)
(* A goroutine (thread) is <<rank, name>>; th[t] says which call it is in  *)
(* and where.  A connection is <<r, p>>: rank r's queue pair to peer p with *)
(* its mutex, poison mark, pending list, posted work and completions.  The *)
(* admission gate is the one AbstractGate describes.  Work requests carry  *)
(* the call that posted them, which the code does not know: the wire has   *)
(* no tag and the work ID is only the kind and the peer.                   *)
(***************************************************************************)
EXTENDS Naturals, Sequences, FiniteSets, SequencesExt

CONSTANTS N,       \* group size
          Threads, \* goroutines, <<rank, name>>
          Menu,    \* operations the goroutines call
          Faults,  \* what may go wrong: see the guards that test it
          MaxOps,  \* calls per goroutine (a bound of the model)
          Chunks,  \* daemonTransferBytes chunks per data transfer
          None

ASSUME TransportAssumption ==
    /\ N \in Nat \ {0, 1} /\ Chunks \in Nat \ {0} /\ MaxOps \in Nat
    /\ \A t \in Threads : t[1] \in 0 .. N - 1
    /\ None \notin Threads

Ranks == 0 .. N - 1
Peers(r) == Ranks \ {r}
Conns == {c \in Ranks \X Ranks : c[1] # c[2]}
Links == Ranks \ {0}

DataOps == {"send", "recv", "exchange", "barrier"}
MaintKinds == {"mrecv", "msend"}

VARIABLES th,        \* each goroutine's call
          started,   \* how many calls it has made
          admitted,  \* per rank: data operations inside the gate
          owner,     \* per rank: the Maintain that stopped admission, or None
          lock,      \* per connection: holder of conn.mu, or None
          poison,    \* per connection: conn.poison is set
          pending,   \* per connection: conn.pending
          recvq,     \* per connection: posted receives
          sendq,     \* per connection: posted sends
          cq,        \* per connection: completions not yet polled
          up, down,  \* per link: frames to and from rank 0
          link,      \* per link: the TCP connection works
          maintOps,  \* per connection: conn.maintenanceOps
          rounds     \* per rank: Maintain calls that got the gate

gateVars == <<admitted, owner>>
connVars == <<lock, poison, pending>>
qpVars == <<recvq, sendq, cq>>
sideVars == <<up, down, link>>
countVars == <<started, maintOps, rounds>>
vars == <<th, gateVars, connVars, qpVars, sideVars, countVars>>

Idle == [op |-> "none", pc |-> "idle", stage |-> "data", peer |-> 0,
         want |-> {}, left |-> 0, err |-> FALSE]

Init ==
    /\ th = [t \in Threads |-> Idle]
    /\ started = [t \in Threads |-> 0]
    /\ admitted = [r \in Ranks |-> {}]
    /\ owner = [r \in Ranks |-> None]
    /\ lock = [c \in Conns |-> None]
    /\ poison = [c \in Conns |-> FALSE]
    /\ pending = [c \in Conns |-> <<>>]
    /\ recvq = [c \in Conns |-> <<>>]
    /\ sendq = [c \in Conns |-> <<>>]
    /\ cq = [c \in Conns |-> <<>>]
    /\ up = [q \in Links |-> 0]
    /\ down = [q \in Links |-> 0]
    /\ link = [q \in Links |-> TRUE]
    /\ maintOps = [c \in Conns |-> 0]
    /\ rounds = [r \in Ranks |-> 0]

-------------------------------------------------------------------------------
Rank(t) == t[1]
ConnTo(t) == <<Rank(t), th[t].peer>>

\* The peers whose connections the call uses; they are visited in rank order.
Targets(t) ==
    IF th[t].op \in {"exchange", "maintain"} THEN Peers(Rank(t)) ELSE {th[t].peer}
Later(t) == {p \in Targets(t) : p > th[t].peer}

RecvKind(op) == IF op = "maintain" THEN "mrecv" ELSE "recv"
SendKind(op) ==
    CASE op = "maintain" -> "msend" [] op = "heartbeat" -> "write" [] OTHER -> "send"

\* The completions the call polls for on each connection.
WantOf(op) ==
    (IF op \in {"recv", "exchange", "maintain"} THEN {RecvKind(op)} ELSE {})
    \cup (IF op # "recv" THEN {SendKind(op)} ELSE {})

FirstPost(op) == IF op \in {"send", "heartbeat"} THEN "postsend" ELSE "postrecv"
BarrierPc(t) == IF Rank(t) = 0 THEN "read" ELSE "write"

checkReady(c) == ~poison[c]
poisonHeartbeat(c) == [poison EXCEPT ![c] = TRUE]
\* A heartbeat that failed; a connection whose maintenance exchange is done.
recordHeartbeat(c) == poison' = poisonHeartbeat(c)
recordMaintenance(c) == [maintOps EXCEPT ![c] = @ + 1]
PoisonRank(r) == [c \in Conns |-> poison[c] \/ c[1] = r]

-------------------------------------------------------------------------------
(* Calls and the gate. *)

Call(t, o) ==
    /\ th[t].pc = "idle" /\ o \in Menu /\ started[t] < MaxOps
    /\ started' = [started EXCEPT ![t] = @ + 1]

\* Send and Recv: enterDataOp, then the first checkReady, which returns an
\* error on a poisoned connection (nothing changes).
CallTransfer(t, o, p) ==
    /\ Call(t, o) /\ owner[Rank(t)] = None /\ checkReady(<<Rank(t), p>>)
    /\ admitted' = [admitted EXCEPT ![Rank(t)] = @ \cup {t}]
    /\ th' = [th EXCEPT ![t] = [Idle EXCEPT !.op = o, !.pc = "lock", !.peer = p, !.left = Chunks]]
    /\ UNCHANGED <<owner, connVars, qpVars, sideVars, maintOps, rounds>>

\* Fault: the exchange does not take the connection locks.
FaultExchangeNoLock(t) ==
    /\ Call(t, "exchange") /\ owner[Rank(t)] = None
    /\ admitted' = [admitted EXCEPT ![Rank(t)] = @ \cup {t}]
    /\ th' = [th EXCEPT ![t] = [Idle EXCEPT !.op = "exchange", !.pc = "check",
                                    !.peer = Min(Peers(Rank(t))), !.left = Chunks]]
    /\ UNCHANGED <<owner, connVars, qpVars, sideVars, maintOps, rounds>>

\* Fault: the exchange does not pass the admission gate.
FaultExchangeNoGate(t) ==
    /\ Call(t, "exchange")
    /\ admitted' = [admitted EXCEPT ![Rank(t)] = @ \cup {t}]
    /\ th' = [th EXCEPT ![t] = [Idle EXCEPT !.op = "exchange", !.pc = "lock",
                                    !.peer = Min(Peers(Rank(t))), !.left = Chunks]]
    /\ UNCHANGED <<owner, connVars, qpVars, sideVars, maintOps, rounds>>

\* AllReduce and AllGather: the exchange they run inside the gate.
CallExchange(t) ==
    /\ Call(t, "exchange") /\ owner[Rank(t)] = None
    /\ admitted' = [admitted EXCEPT ![Rank(t)] = @ \cup {t}]
    /\ th' = [th EXCEPT ![t] = [Idle EXCEPT !.op = "exchange", !.pc = "lock",
                                    !.peer = Min(Peers(Rank(t))), !.left = Chunks]]
    /\ UNCHANGED <<owner, connVars, qpVars, sideVars, maintOps, rounds>>

CallBarrier(t) ==
    /\ Call(t, "barrier") /\ owner[Rank(t)] = None
    /\ admitted' = [admitted EXCEPT ![Rank(t)] = @ \cup {t}]
    /\ th' = [th EXCEPT ![t] = [Idle EXCEPT !.op = "barrier", !.pc = BarrierPc(t), !.peer = 1]]
    /\ UNCHANGED <<owner, connVars, qpVars, sideVars, maintOps, rounds>>

\* Maintain: beginMaintenance; a second one is refused and changes nothing.
CallMaintain(t) ==
    /\ Call(t, "maintain") /\ owner[Rank(t)] = None
    /\ owner' = [owner EXCEPT ![Rank(t)] = t]
    /\ rounds' = [rounds EXCEPT ![Rank(t)] = @ + 1]
    /\ th' = [th EXCEPT ![t] = [Idle EXCEPT !.op = "maintain", !.stage = "pre",
                                    !.peer = Min(Peers(Rank(t))),
                                    !.pc = IF admitted[Rank(t)] = {} THEN "lock" ELSE "drain"]]
    /\ UNCHANGED <<admitted, connVars, qpVars, sideVars, maintOps>>

Drained(t) ==
    /\ th[t].pc = "drain" /\ admitted[Rank(t)] = {}
    /\ th' = [th EXCEPT ![t].pc = "lock"]
    /\ UNCHANGED <<gateVars, connVars, qpVars, sideVars, countVars>>

\* heartbeat does not pass the gate.  The tracker beats one route at a time.
CallHeartbeat(t, p) ==
    /\ Call(t, "heartbeat") /\ checkReady(<<Rank(t), p>>)
    /\ \A u \in Threads : Rank(u) = Rank(t) => th[u].op # "heartbeat"
    /\ th' = [th EXCEPT ![t] = [Idle EXCEPT !.op = "heartbeat", !.pc = "try", !.peer = p, !.left = 1]]
    /\ UNCHANGED <<gateVars, connVars, qpVars, sideVars, maintOps, rounds>>

\* An expired heartbeat lease poisons before, and without, the lock.
HeartbeatExpired(t) ==
    /\ th[t].pc = "try" /\ "expire" \in Faults
    /\ recordHeartbeat(ConnTo(t))
    /\ th' = [th EXCEPT ![t].pc = "leave", ![t].err = TRUE]
    /\ UNCHANGED <<gateVars, lock, pending, qpVars, sideVars, countVars>>

\* TryLock: a busy connection is skipped, and counts as a beat.
HeartbeatTries(t) ==
    /\ th[t].pc = "try"
    /\ IF lock[ConnTo(t)] = None
         THEN /\ lock' = [lock EXCEPT ![ConnTo(t)] = t]
              /\ th' = [th EXCEPT ![t].pc = "postsend"]
         ELSE th' = [th EXCEPT ![t].pc = "leave"] /\ UNCHANGED lock
    /\ UNCHANGED <<gateVars, poison, pending, qpVars, sideVars, countVars>>

\* Fault: Maintain goes to work without its pre-barrier.
FaultNoPreBarrier(t) ==
    /\ th[t].pc = "lock" /\ lock[ConnTo(t)] = None
    /\ lock' = [lock EXCEPT ![ConnTo(t)] = t]
    /\ th' = IF Later(t) # {} THEN [th EXCEPT ![t].peer = Min(Later(t))]
             ELSE [th EXCEPT ![t].pc = "check",
                             ![t].stage = IF th[t].op = "maintain" THEN "run" ELSE @]
    /\ UNCHANGED <<gateVars, poison, pending, qpVars, sideVars, countVars>>

\* conn.mu.Lock, or one turn of lockConns.  Maintain goes on to its pre-barrier.
Lock(t) ==
    /\ th[t].pc = "lock" /\ lock[ConnTo(t)] = None
    /\ lock' = [lock EXCEPT ![ConnTo(t)] = t]
    /\ th' = IF Later(t) # {} THEN [th EXCEPT ![t].peer = Min(Later(t))]
             ELSE IF th[t].op = "maintain"
                    THEN [th EXCEPT ![t].pc = BarrierPc(t), ![t].peer = 1]
                    ELSE [th EXCEPT ![t].pc = "check"]
    /\ UNCHANGED <<gateVars, poison, pending, qpVars, sideVars, countVars>>

\* Fault: the deferred unlock runs over an empty list.
FaultKeepsLocks(t) ==
    /\ th[t].pc = "leave"
    /\ admitted' = [admitted EXCEPT ![Rank(t)] = @ \ {t}]
    /\ owner' = [owner EXCEPT ![Rank(t)] = IF @ = t THEN None ELSE @]
    /\ th' = [th EXCEPT ![t] = Idle]
    /\ UNCHANGED <<lock, poison, pending, qpVars, sideVars, countVars>>

\* The deferred unlocks and the release of the gate, last in first out.
Leave(t) ==
    /\ th[t].pc = "leave"
    /\ lock' = [c \in Conns |-> IF lock[c] = t THEN None ELSE lock[c]]
    /\ admitted' = [admitted EXCEPT ![Rank(t)] = @ \ {t}]
    /\ owner' = [owner EXCEPT ![Rank(t)] = IF @ = t THEN None ELSE @]
    /\ th' = [th EXCEPT ![t] = Idle]
    /\ UNCHANGED <<poison, pending, qpVars, sideVars, countVars>>

-------------------------------------------------------------------------------
(* Posting and polling, under the locks. *)

\* Fault: Maintain's error return does not poison.
FaultFailQuietly(t) ==
    /\ UNCHANGED poison
    /\ th' = IF th[t].op = "maintain"
               THEN [th EXCEPT ![t] = [@ EXCEPT !.pc = BarrierPc(t), !.peer = 1,
                                           !.stage = "post", !.want = {}, !.err = TRUE]]
               ELSE [th EXCEPT ![t].pc = "leave", ![t].want = {}, ![t].err = TRUE]

\* The error return of a call that holds its locks: a data operation only
\* reports it, a heartbeat poisons its connection, Maintain poisons every
\* connection of the rank and goes on to its post-barrier.
Fail(t) ==
    CASE th[t].op = "maintain" ->
            /\ th' = [th EXCEPT ![t] = [@ EXCEPT !.pc = BarrierPc(t), !.peer = 1,
                                            !.stage = "post", !.want = {}, !.err = TRUE]]
            /\ poison' = PoisonRank(Rank(t))
      [] th[t].op = "heartbeat" ->
            /\ th' = [th EXCEPT ![t].pc = "leave", ![t].want = {}, ![t].err = TRUE]
            /\ recordHeartbeat(ConnTo(t))
      [] OTHER ->
            /\ th' = [th EXCEPT ![t].pc = "leave", ![t].want = {}, ![t].err = TRUE]
            /\ UNCHANGED poison

\* Fault: the poison mark is not looked at.
FaultNoCheck(t) ==
    /\ th[t].pc = "check"
    /\ th' = [th EXCEPT ![t].pc = FirstPost(th[t].op)]
    /\ UNCHANGED <<gateVars, connVars, qpVars, sideVars, countVars>>

\* checkReady on every connection; Maintain also refuses pending completions.
Check(t) ==
    LET conns == {<<Rank(t), p>> : p \in Targets(t)}
        bad == {c \in conns : ~checkReady(c) \/ (th[t].op = "maintain" /\ pending[c] # <<>>)}
        first == CHOOSE c \in bad : \A d \in bad : c[2] <= d[2]
    IN  /\ th[t].pc = "check"
        /\ IF bad = {}
             THEN th' = [th EXCEPT ![t].pc = FirstPost(th[t].op)] /\ UNCHANGED poison
             ELSE IF th[t].op = "maintain" /\ ~checkReady(first)
             THEN /\ th' = [th EXCEPT ![t] = [@ EXCEPT !.pc = BarrierPc(t), !.peer = 1,
                                                  !.stage = "post", !.err = TRUE]]
                  /\ UNCHANGED poison
             ELSE Fail(t)
        /\ UNCHANGED <<gateVars, lock, pending, qpVars, sideVars, countVars>>

Posted(q, t, kind, peers) ==
    [c \in Conns |-> IF c[1] = Rank(t) /\ c[2] \in peers
                       THEN Append(q[c], [kind |-> kind, own |-> <<t, started[t]>>])
                       ELSE q[c]]

StartPoll(t) == [th EXCEPT ![t] = [@ EXCEPT !.pc = "poll", !.peer = Min(Targets(t)),
                                       !.want = WantOf(th[t].op)]]

\* The receives of all targets, then the sends of all targets.
PostRecvs(t) ==
    /\ th[t].pc = "postrecv"
    /\ recvq' = Posted(recvq, t, RecvKind(th[t].op), Targets(t))
    /\ th' = IF th[t].op = "recv" THEN StartPoll(t) ELSE [th EXCEPT ![t].pc = "postsend"]
    /\ UNCHANGED <<gateVars, connVars, sendq, cq, sideVars, countVars>>

PostSends(t) ==
    /\ th[t].pc = "postsend"
    /\ sendq' = Posted(sendq, t, SendKind(th[t].op), Targets(t))
    /\ th' = StartPoll(t)
    /\ UNCHANGED <<gateVars, connVars, recvq, cq, sideVars, countVars>>

\* The provider refuses the work request for peer k; earlier ones stay posted.
PostFails(t) ==
    /\ "provider" \in Faults /\ th[t].pc \in {"postrecv", "postsend"}
    /\ \E k \in Targets(t) :
         LET before == {p \in Targets(t) : p < k}
         IN  IF th[t].pc = "postrecv"
               THEN recvq' = Posted(recvq, t, RecvKind(th[t].op), before) /\ UNCHANGED sendq
               ELSE sendq' = Posted(sendq, t, SendKind(th[t].op), before) /\ UNCHANGED recvq
    /\ Fail(t)
    /\ UNCHANGED <<gateVars, lock, pending, cq, sideVars, countVars>>

\* Fault: polling is satisfied by the first of several completions.
FaultPolledFirst(t, rest) ==
    LET call == th[t]
    IN  /\ th' = [th EXCEPT ![t] =
             IF call.op = "maintain"
               THEN [@ EXCEPT !.pc = BarrierPc(t), !.peer = 1, !.stage = "post", !.want = {}]
               ELSE [@ EXCEPT !.pc = "leave", !.want = {}]]
        /\ maintOps' = IF call.op = "maintain"
                         THEN recordMaintenance(ConnTo(t)) ELSE maintOps

\* Fault: Maintain returns without its post-barrier.
FaultNoPostBarrier(t, rest) ==
    LET call == th[t]
    IN  /\ th' = [th EXCEPT ![t] =
             IF rest # {} THEN [@ EXCEPT !.want = rest]
             ELSE IF Later(t) # {}
               THEN [@ EXCEPT !.peer = Min(Later(t)), !.want = WantOf(call.op)]
             ELSE [@ EXCEPT !.pc = "leave", !.want = {}]]
        /\ maintOps' = IF rest = {} /\ call.op = "maintain"
                         THEN recordMaintenance(ConnTo(t)) ELSE maintOps

\* What polling does once one more wanted completion has been taken: the rest
\* of this peer, the next peer, the next chunk, or the end of the call.
Polled(t, rest) ==
    LET call == th[t]
    IN  /\ th' = [th EXCEPT ![t] =
             IF rest # {} THEN [@ EXCEPT !.want = rest]
             ELSE IF Later(t) # {}
               THEN [@ EXCEPT !.peer = Min(Later(t)), !.want = WantOf(call.op)]
             ELSE IF call.op = "maintain"
               THEN [@ EXCEPT !.pc = BarrierPc(t), !.peer = 1, !.stage = "post", !.want = {}]
             ELSE IF call.left > 1
               THEN [@ EXCEPT !.pc = FirstPost(call.op), !.left = @ - 1, !.want = {}]
             ELSE [@ EXCEPT !.pc = "leave", !.want = {}]]
        /\ maintOps' = IF rest = {} /\ call.op = "maintain"
                         THEN recordMaintenance(ConnTo(t)) ELSE maintOps

\* pollExpected looks in conn.pending first (Maintain does not).
Stashed(t) ==
    IF th[t].op = "maintain" THEN {}
    ELSE th[t].want \cap {w.kind : w \in Range(pending[ConnTo(t)])}

TakePending(t) ==
    /\ th[t].pc = "poll"
    /\ \E k \in Stashed(t) :
         /\ pending' = [pending EXCEPT ![ConnTo(t)] =
                           RemoveFirstMatch(@, LAMBDA w : w.kind = k)]
         /\ Polled(t, th[t].want \ {k})
    /\ UNCHANGED <<gateVars, lock, poison, qpVars, sideVars, started, rounds>>

\* PollCompletion returns one completion: an error status fails the call, an
\* unexpected one is stashed, or fails Maintain.
PollCompletion(t) ==
    /\ th[t].pc = "poll" /\ Stashed(t) = {} /\ cq[ConnTo(t)] # <<>>
    /\ cq' = [cq EXCEPT ![ConnTo(t)] = Tail(@)]
    /\ LET w == Head(cq[ConnTo(t)])
       IN  CASE w.ok /\ w.kind \in th[t].want ->
                    Polled(t, th[t].want \ {w.kind}) /\ UNCHANGED <<poison, pending>>
             [] w.ok /\ w.kind \notin th[t].want /\ th[t].op # "maintain" ->
                    /\ pending' = [pending EXCEPT ![ConnTo(t)] = Append(@, w)]
                    /\ UNCHANGED <<th, poison, maintOps>>
             [] OTHER -> Fail(t) /\ UNCHANGED <<pending, maintOps>>
    /\ UNCHANGED <<gateVars, lock, recvq, sendq, sideVars, started, rounds>>

\* A client's disconnect cancels its collective; a heartbeat has a timeout.
\* The other calls run under the daemon's own context.
PollExpires(t) ==
    /\ th[t].pc = "poll"
    /\ \/ th[t].op = "exchange" /\ "cancel" \in Faults
       \/ th[t].op = "heartbeat" /\ "timeout" \in Faults
    /\ Fail(t)
    /\ UNCHANGED <<gateVars, lock, pending, qpVars, sideVars, countVars>>

-------------------------------------------------------------------------------
(* tcpchan.Channel.Barrier: rank 0 reads a frame from every rank in order and
   then answers all of them.  Frames carry no barrier's name. *)

BarrierEnds(t, failed) ==
    LET go == th[t].stage = "pre" /\ ~failed
    IN  /\ th' = [th EXCEPT ![t] = [@ EXCEPT !.pc = IF go THEN "check" ELSE "leave",
                                        !.stage = IF go THEN "run" ELSE @,
                                        !.err = @ \/ failed]]
        /\ poison' = IF th[t].stage = "post" /\ failed /\ ~th[t].err
                       THEN PoisonRank(Rank(t)) ELSE poison

WriteFrame(t) ==
    /\ th[t].pc = "write"
    /\ IF link[Rank(t)]
         THEN /\ up' = [up EXCEPT ![Rank(t)] = @ + 1]
              /\ th' = [th EXCEPT ![t].pc = "read"] /\ UNCHANGED poison
         ELSE BarrierEnds(t, TRUE) /\ UNCHANGED up
    /\ UNCHANGED <<gateVars, lock, pending, qpVars, down, link, countVars>>

\* readFrame at a rank other than 0.
ReadReply(t) ==
    /\ th[t].pc = "read" /\ Rank(t) # 0
    /\ down[Rank(t)] > 0 \/ ~link[Rank(t)]
    /\ down' = [down EXCEPT ![Rank(t)] = IF @ > 0 THEN @ - 1 ELSE 0]
    /\ BarrierEnds(t, down[Rank(t)] = 0)
    /\ UNCHANGED <<gateVars, lock, pending, qpVars, up, link, countVars>>

\* readFrame at rank 0 from the peer it has reached.
ReadFrame(t) ==
    LET q == th[t].peer
    IN  /\ th[t].pc = "read" /\ Rank(t) = 0
        /\ up[q] > 0 \/ ~link[q]
        /\ up' = [up EXCEPT ![q] = IF @ > 0 THEN @ - 1 ELSE 0]
        /\ IF up[q] = 0 THEN BarrierEnds(t, TRUE)
           ELSE /\ th' = [th EXCEPT ![t] =
                     IF q < N - 1 THEN [@ EXCEPT !.peer = q + 1] ELSE [@ EXCEPT !.pc = "reply"]]
                /\ UNCHANGED poison
        /\ UNCHANGED <<gateVars, lock, pending, qpVars, down, link, countVars>>

\* The answers, up to the first link that is down.
WriteReplies(t) ==
    /\ th[t].pc = "reply"
    /\ down' = [q \in Links |-> IF \A k \in 1 .. q : link[k] THEN down[q] + 1 ELSE down[q]]
    /\ BarrierEnds(t, \E q \in Links : ~link[q])
    /\ UNCHANGED <<gateVars, lock, pending, qpVars, up, link, countVars>>

\* The TCP connection of rank q breaks; what was in flight is lost.
LinkBreaks(q) ==
    /\ "tcp" \in Faults /\ link[q]
    /\ link' = [link EXCEPT ![q] = FALSE]
    /\ up' = [up EXCEPT ![q] = 0] /\ down' = [down EXCEPT ![q] = 0]
    /\ UNCHANGED <<th, gateVars, connVars, qpVars, countVars>>

-------------------------------------------------------------------------------
(* The queue pairs (external).  A send waits for a posted receive, takes the
   oldest one whatever it was posted for, and both sides get a completion; a
   write needs no receive.  A message that does not fit its receive completes
   it with an error. *)
Transmit(c) ==
    LET back == <<c[2], c[1]>>
        s == Head(sendq[c])
        m == Head(recvq[back])
    IN  /\ sendq[c] # <<>>
        /\ sendq' = [sendq EXCEPT ![c] = Tail(@)]
        /\ \E ok \in BOOLEAN :
             /\ ok \/ "provider" \in Faults
                   \/ (s.kind = "send" /\ recvq[back] # <<>> /\ m.kind = "mrecv")
             /\ IF s.kind = "write"
                  THEN /\ cq' = [cq EXCEPT ![c] = Append(@, s @@ [ok |-> ok])]
                       /\ UNCHANGED recvq
                  ELSE /\ recvq[back] # <<>>
                       /\ recvq' = [recvq EXCEPT ![back] = Tail(@)]
                       /\ cq' = [cq EXCEPT ![c] = Append(@, s @@ [ok |-> TRUE]),
                                           ![back] = Append(@, m @@ [ok |-> ok])]
        /\ UNCHANGED <<th, gateVars, connVars, sideVars, countVars>>

\* An unreliable connection drops a message that finds no receive.
Drop(c) ==
    /\ "drop" \in Faults /\ sendq[c] # <<>> /\ Head(sendq[c]).kind # "write"
    /\ recvq[<<c[2], c[1]>>] = <<>>
    /\ sendq' = [sendq EXCEPT ![c] = Tail(@)]
    /\ cq' = [cq EXCEPT ![c] = Append(@, Head(sendq[c]) @@ [ok |-> TRUE])]
    /\ UNCHANGED <<th, gateVars, connVars, recvq, sideVars, countVars>>

-------------------------------------------------------------------------------
Calls(t) ==
    \/ \E o \in {"send", "recv"}, p \in Peers(Rank(t)) : CallTransfer(t, o, p)
    \/ CallExchange(t) \/ CallBarrier(t) \/ CallMaintain(t)
    \/ \E p \in Peers(Rank(t)) : CallHeartbeat(t, p)

\* What a call does by itself once it has been made.
Runs(t) ==
    \/ Drained(t) \/ HeartbeatTries(t) \/ Lock(t) \/ Leave(t) \/ Check(t)
    \/ PostRecvs(t) \/ PostSends(t) \/ TakePending(t) \/ PollCompletion(t)
    \/ WriteFrame(t) \/ ReadReply(t) \/ ReadFrame(t) \/ WriteReplies(t)

Breaks(t) == HeartbeatExpired(t) \/ PostFails(t) \/ PollExpires(t)

Next ==
    \/ \E t \in Threads : Calls(t) \/ Runs(t) \/ Breaks(t)
    \/ \E c \in Conns : Transmit(c) \/ Drop(c)
    \/ \E q \in Links : LinkBreaks(q)

Spec == Init /\ [][Next]_vars

\* Goroutines that can run do, mutexes are not starved and the hardware moves.
Fairness ==
    /\ \A t \in Threads : WF_vars(Runs(t)) /\ SF_vars(Lock(t))
    /\ \A c \in Conns : WF_vars(Transmit(c))

FairSpec == Spec /\ Fairness

-------------------------------------------------------------------------------
Pcs == {"idle", "drain", "try", "lock", "check", "postrecv", "postsend", "poll",
        "write", "read", "reply", "leave"}
Kinds == {"send", "recv", "msend", "mrecv", "write"}
Owned == Threads \X Nat
Work == [kind : Kinds, own : Owned]
Done == [kind : Kinds, own : Owned, ok : BOOLEAN]

(* Type invariant. *)
TypeOK ==
    /\ th \in [Threads -> [op : DataOps \cup {"none", "maintain", "heartbeat"}, pc : Pcs,
                           stage : {"data", "pre", "run", "post"}, peer : Ranks,
                           want : SUBSET Kinds, left : 0 .. Chunks, err : BOOLEAN]]
    /\ started \in [Threads -> 0 .. MaxOps]
    /\ admitted \in [Ranks -> SUBSET Threads]
    /\ owner \in [Ranks -> Threads \cup {None}]
    /\ lock \in [Conns -> Threads \cup {None}]
    /\ poison \in [Conns -> BOOLEAN]
    /\ \A c \in Conns :
         /\ \A q \in {recvq[c], sendq[c]} : Range(q) \subseteq Work
         /\ \A q \in {pending[c], cq[c]} : Range(q) \subseteq Done
    /\ up \in [Links -> Nat] /\ down \in [Links -> Nat] /\ link \in [Links -> BOOLEAN]
    /\ maintOps \in [Conns -> Nat] /\ rounds \in [Ranks -> Nat]

Working == {t \in Threads : th[t].pc \in {"check", "postrecv", "postsend", "poll"}}

(* Posting and polling happen under conn.mu of every connection the call uses,
   on all error paths too: no two goroutines poll one completion queue. *)
LocksCover ==
    \A t \in Working : \A p \in Targets(t) : lock[<<Rank(t), p>>] = t

(* A connection that was poisoned by a failed heartbeat or Maintain gets no new
   user or maintenance work: nothing poisons it between checkReady and post. *)
NoPostWhenPoisoned ==
    \A t \in Threads :
        (th[t].pc \in {"postrecv", "postsend"} /\ th[t].op # "heartbeat") =>
            \A p \in Targets(t) : ~poison[<<Rank(t), p>>]

(* Maintenance work is only in progress while every rank has stopped admission
   and drained: "stop admitting new user operations on all ranks". *)
Quiescent ==
    \A t \in Threads : th[t].stage = "run" =>
        \A r \in Ranks : owner[r] # None /\ admitted[r] = {}

(* No cross-match: a maintenance send never meets a user receive, nor a user send
   a maintenance receive, although matching is first in first out and untagged. *)
NoCrossMatch ==
    \A c \in Conns :
        LET s == sendq[c]
            m == recvq[<<c[2], c[1]>>]
        IN  (s # <<>> /\ m # <<>> /\ Head(s).kind # "write") =>
                (Head(s).kind = "msend" <=> Head(m).kind = "mrecv")

(* The completion a call takes for its own is its own: work IDs repeat from call
   to call, so this rests on no call leaving work behind. *)
OwnCompletions ==
    \A t \in Threads : th[t].pc = "poll" =>
        \A w \in Range(pending[ConnTo(t)]) \cup Range(cq[ConnTo(t)]) :
            w.kind \in th[t].want => w.own = <<t, started[t]>>

(* A rank whose Maintain has returned finds every connection of the group
   exercised as often: the post-barrier comes "before any rank reopens". *)
ReopensAfterAll ==
    \A r \in Ranks : owner[r] = None => \A c \in Conns : maintOps[c] >= rounds[r]

(* A Maintain that fails after its pre-barrier leaves a route poisoned before the
   gate reopens: all of them by poisonMaintenance, or the one that was poisoned
   already and on which checkReady refused the run. *)
FailedRunPoisons ==
    \A t \in Threads : (th[t].pc = "leave" /\ th[t].stage = "post" /\ th[t].err) =>
        \E p \in Peers(Rank(t)) : poison[<<Rank(t), p>>]

(* As the documentation has it: "any maintenance, post, poll, timeout, barrier, or
   provider error poisons the route". *)
FailedCallPoisons ==
    \A t \in Threads : (th[t].op # "barrier" /\ th[t].pc = "leave" /\ th[t].err) =>
        \E p \in Peers(Rank(t)) : poison[<<Rank(t), p>>]

(* Liveness: when every rank has called Maintain k times, all k rounds finish. *)
MaintainCompletes ==
    \A k \in 1 .. MaxOps :
        (\A r \in Ranks : rounds[r] >= k) ~> (\A c \in Conns : maintOps[c] >= k)

(* Every rank's gate, driven by these calls, is the gate AbstractGate promises. *)
GateOf(r) == INSTANCE AbstractGate WITH
    Ops <- Threads, Maintainers <- Threads,
    admitted <- admitted[r], owner <- owner[r],
    window <- owner[r] # None /\ th[owner[r]].pc # "drain"
RankGates ==
    /\ \A r \in Ranks : GateOf(r)!Init
    /\ [][\A r \in Ranks : GateOf(r)!Next \/ UNCHANGED GateOf(r)!vars]_vars
===============================================================================
