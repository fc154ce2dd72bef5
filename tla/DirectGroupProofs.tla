--------------------------- MODULE DirectGroupProofs ---------------------------
(***************************************************************************)
(* For any number of ranks and goroutines, any device matrices, programs   *)
(* and faults: the slot of a group admits one operation at a time.         *)
(***************************************************************************)
EXTENDS DirectGroup, TLAPS

Fields == {"pc", "k", "op", "peer", "left", "need", "seg", "known", "late", "held", "err"}
Rec(t) == t = [f \in Fields |-> t[f]]

\* A caller has the slot from TakeSlot on: before it looks at closed again,
\* and then while held.
Holds(t) == t.held \/ t.pc = "recheck"

\* The inductive invariant: whoever has the slot has put the token there, and
\* is alone.  Release takes the token without asking whose it is, so it is the
\* second part that keeps the first.
SlotInv ==
    /\ th = [c \in Callers |-> th[c]] /\ busy = [r \in Ranks |-> busy[r]]
    /\ \A c \in Callers : Rec(th[c])
    /\ \A c \in Callers : Holds(th[c]) => busy[Rank(c)]
    /\ \A c, d \in Callers : Rank(c) = Rank(d) /\ Holds(th[c]) /\ Holds(th[d]) => c = d

\* A step of one caller that takes no slot and leaves the token alone.
LEMMA Keeps ==
    ASSUME SlotInv, NEW c \in Callers, NEW t, Rec(t), Holds(t) => Holds(th[c]),
           th' = [th EXCEPT ![c] = t], busy' = busy
    PROVE  SlotInv'
  <1>1. \A d \in Callers : th'[d] = IF d = c THEN t ELSE th[d]
    BY DEF SlotInv
  <1>2. th' = [d \in Callers |-> th'[d]] /\ \A d \in Callers : Rec(th'[d])
    BY <1>1 DEF SlotInv
  <1>3. \A d \in Callers : Holds(th'[d]) => Holds(th[d])
    BY <1>1
  <1> QED
    BY <1>2, <1>3 DEF SlotInv, Rank, Ranks, Callers

\* A caller that has the slot gives up slot and token together.
LEMMA Leaves ==
    ASSUME SlotInv, NEW c \in Callers, NEW t, Rec(t), ~Holds(t), Holds(th[c]),
           th' = [th EXCEPT ![c] = t], busy' = [busy EXCEPT ![Rank(c)] = FALSE]
    PROVE  SlotInv'
  <1>1. \A d \in Callers : th'[d] = IF d = c THEN t ELSE th[d]
    BY DEF SlotInv
  <1>2. th' = [d \in Callers |-> th'[d]] /\ \A d \in Callers : Rec(th'[d])
    BY <1>1 DEF SlotInv
  <1>3. \A d \in Callers : Holds(th'[d]) => Holds(th[d]) /\ d # c
    BY <1>1
  <1>4. \A d \in Callers : Holds(th'[d]) => Rank(d) # Rank(c) /\ Rank(d) \in Ranks
    BY <1>3 DEF SlotInv, Rank, Callers
  <1>5. busy' = [r \in Ranks |-> busy'[r]] /\ \A r \in Ranks : r # Rank(c) => busy'[r] = busy[r]
    BY Zenon DEF SlotInv
  <1> QED
    BY <1>2, <1>3, <1>4, <1>5 DEF SlotInv

LEMMA RecExcept ==
    ASSUME NEW t, Rec(t), NEW u, NEW v, NEW w
    PROVE  /\ Rec([t EXCEPT !.pc = u]) /\ Rec([t EXCEPT !.pc = u, !.err = v])
           /\ Rec([t EXCEPT !.pc = u, !.peer = v, !.left = w])
  BY Zenon DEF Rec, Fields

LEMMA IdleFree == ASSUME NEW k PROVE Rec(Idle(k)) /\ ~Holds(Idle(k))
  BY Zenon DEF Rec, Fields, Holds, Idle

LEMMA SlotInit == Init => SlotInv
  <1> SUFFICES ASSUME Init PROVE SlotInv
    OBVIOUS
  <1>1. \A c \in Callers : Rec(th[c]) /\ ~Holds(th[c])
    BY DEF Init, Rec, Fields, Holds, Idle
  <1> QED
    BY <1>1, Zenon DEF Init, SlotInv

\* What follows the frames of an AllGather.
LEMMA AgRecords ==
    ASSUME NEW c, Rec(th[c]), th[c].pc # "recheck",
           NEW on \in {[th[c] EXCEPT !.pc = "agwait"], AgEnd(c),
                       NextPeer(c, [th[c] EXCEPT !.pc = "agreply", !.peer = 1]),
                       NextPeer(c, AgEnd(c))}
    PROVE  Rec(AgMoved(c, on)) /\ (Holds(AgMoved(c, on)) => Holds(th[c]))
  <1>1. Rec(AgEnd(c)) /\ (Holds(AgEnd(c)) => Holds(th[c]))
    BY Zenon DEF AgEnd, Rec, Fields, Holds, Idle
  <1>2. \A t : Rec(t) /\ (Holds(t) => Holds(th[c]))
                => /\ Rec(AgMoved(c, t)) /\ (Holds(AgMoved(c, t)) => Holds(th[c]))
                   /\ Rec(NextPeer(c, t)) /\ (Holds(NextPeer(c, t)) => Holds(th[c]))
    BY Zenon DEF AgMoved, NextPeer, Rec, Fields, Holds
  <1>3. /\ Rec([th[c] EXCEPT !.pc = "agwait"])
        /\ Holds([th[c] EXCEPT !.pc = "agwait"]) => Holds(th[c])
        /\ Rec([th[c] EXCEPT !.pc = "agreply", !.peer = 1])
        /\ Holds([th[c] EXCEPT !.pc = "agreply", !.peer = 1]) => Holds(th[c])
    BY Zenon DEF Rec, Fields, Holds
  <1> QED
    BY <1>1, <1>2, <1>3

\* No step of NewGroup has to do with the slot.
LEMMA SlotBoot == ASSUME SlotInv, NEW r \in Ranks, BootStep(r) \/ BootFails(r) PROVE SlotInv'
  <1> USE DirectAssumption
  <1>1. Lead(r) \in Callers /\ Lead(0) \in Callers
    BY DEF Lead, Callers, Ranks
  <1>2. \A c \in Callers : Rec(th[c])
    BY DEF SlotInv
  <1>3. th' = th /\ busy' = busy => SlotInv'
    BY DEF SlotInv
  <1>4. CASE ChooseTopology(r)
    <2> DEFINE t == [th[Lead(r)] EXCEPT !.pc = IF topo'[r] = "unknown" THEN "failed" ELSE "side"]
    <2>1. th' = [th EXCEPT ![Lead(r)] = t] /\ busy' = busy
      BY <1>4 DEF ChooseTopology, Goto
    <2>2. Rec(t) /\ (Holds(t) => Holds(th[Lead(r)]))
      BY <1>1, <1>2, Zenon DEF Rec, Fields, Holds
    <2> QED
      BY <1>1, <2>1, <2>2, Keeps, Zenon
  <1>5. CASE Dial(r)
    <2> DEFINE t == [th[Lead(r)] EXCEPT !.pc = "ack"]
    <2>1. th' = [th EXCEPT ![Lead(r)] = t] /\ busy' = busy
      BY <1>5 DEF Dial, Goto, groupVars
    <2>2. Rec(t) /\ (Holds(t) => Holds(th[Lead(r)]))
      BY <1>1, <1>2, Zenon DEF Rec, Fields, Holds
    <2> QED
      BY <1>1, <2>1, <2>2, Keeps, Zenon
  <1>6. CASE ReadAck(r)
    <2> DEFINE t == [th[Lead(r)] EXCEPT !.pc = "open"]
    <2>1. th' = [th EXCEPT ![Lead(r)] = t] /\ busy' = busy
      BY <1>6 DEF ReadAck, Goto, groupVars
    <2>2. Rec(t) /\ (Holds(t) => Holds(th[Lead(r)]))
      BY <1>1, <1>2, Zenon DEF Rec, Fields, Holds
    <2> QED
      BY <1>1, <2>1, <2>2, Keeps, Zenon
  <1>7. CASE Accept(r)
    <2> DEFINE t == [th[Lead(0)] EXCEPT !.left = th[Lead(0)].left + 1,
                       !.pc = IF th[Lead(0)].left + 1 = N - 1 THEN "open" ELSE "side"]
    <2>1. th' = [th EXCEPT ![Lead(0)] = t] /\ busy' = busy
      BY <1>7 DEF Accept, Become, groupVars
    <2>2. Rec(t) /\ (Holds(t) => Holds(th[Lead(0)]))
      BY <1>1, <1>2, Zenon DEF Rec, Fields, Holds
    <2> QED
      BY <1>1, <2>1, <2>2, Keeps, Zenon
  <1>8. CASE OpenConns(r)
    <2> DEFINE t == [th[Lead(r)] EXCEPT !.op = "dest", !.pc = AgPc(r), !.peer = 1]
    <2>1. (th' = th \/ th' = [th EXCEPT ![Lead(r)] = t]) /\ busy' = busy
      BY <1>8, Zenon DEF OpenConns, Become, groupVars
    <2>2. Rec(t) /\ (Holds(t) => Holds(th[Lead(r)]))
      BY <1>1, <1>2, Zenon DEF Rec, Fields, Holds, AgPc
    <2> QED
      BY <1>1, <1>3, <2>1, <2>2, Keeps, Zenon
  <1>9. CASE ReadyConns(r)
    <2> DEFINE t == [th[Lead(r)] EXCEPT !.op = "ready", !.pc = AgPc(r), !.peer = 1]
    <2>1. (th' = th \/ th' = [th EXCEPT ![Lead(r)] = t]) /\ busy' = busy
      BY <1>9, Zenon DEF ReadyConns, Become, groupVars
    <2>2. Rec(t) /\ (Holds(t) => Holds(th[Lead(r)]))
      BY <1>1, <1>2, Zenon DEF Rec, Fields, Holds, AgPc
    <2> QED
      BY <1>1, <1>3, <2>1, <2>2, Keeps, Zenon
  <1>10. CASE BootFails(r)
    <2> DEFINE t == [th[Lead(r)] EXCEPT !.pc = "failed"]
    <2>1. th' = [th EXCEPT ![Lead(r)] = t] /\ busy' = busy
      BY <1>10 DEF BootFails, Goto, groupVars
    <2>2. Rec(t) /\ (Holds(t) => Holds(th[Lead(r)]))
      BY <1>1, <1>2, Zenon DEF Rec, Fields, Holds
    <2> QED
      BY <1>1, <2>1, <2>2, Keeps, Zenon
  <1> QED
    BY <1>4, <1>5, <1>6, <1>7, <1>8, <1>9, <1>10 DEF BootStep

\* Nor has a frame of the side channel.
LEMMA SlotSide == ASSUME SlotInv, NEW c \in Callers, SideStep(c) PROVE SlotInv'
  <1>1. Rec(th[c])
    BY DEF SlotInv
  <1>2. ASSUME NEW on \in {[th[c] EXCEPT !.pc = "agwait"], AgEnd(c),
                           NextPeer(c, [th[c] EXCEPT !.pc = "agreply", !.peer = 1]),
                           NextPeer(c, AgEnd(c))},
               th[c].pc # "recheck", AgStep(c, on)
        PROVE  SlotInv'
    <2>1. th' = [th EXCEPT ![c] = AgMoved(c, on)] /\ busy' = busy
      BY <1>2 DEF AgStep, Become, groupVars
    <2>2. Rec(AgMoved(c, on)) /\ (Holds(AgMoved(c, on)) => Holds(th[c]))
      BY <1>1, <1>2, AgRecords, Zenon
    <2> QED
      BY <2>1, <2>2, Keeps, Zenon
  <1>3. CASE AgWrite(c)
    BY <1>2, <1>3 DEF AgWrite
  <1>4. CASE AgWait(c)
    BY <1>2, <1>4 DEF AgWait
  <1>5. CASE AgRead(c)
    BY <1>2, <1>5 DEF AgRead
  <1>6. CASE AgReply(c)
    BY <1>2, <1>6 DEF AgReply
  <1>7. CASE AgFails(c)
    <2> DEFINE t == [th[c] EXCEPT !.pc = "finish", !.err = TRUE]
    <2>1. th' = [th EXCEPT ![c] = t] /\ busy' = busy
      BY <1>7 DEF AgFails, Become, groupVars
    <2>2. Rec(t) /\ (Holds(t) => Holds(th[c]))
      BY <1>1, Zenon DEF Rec, Fields, Holds
    <2> QED
      BY <2>1, <2>2, Keeps, Zenon
  <1> QED
    BY <1>3, <1>4, <1>5, <1>6, <1>7 DEF SideStep

\* release: the token goes if, and only if, its caller has the slot.
LEMMA SlotRelease ==
    ASSUME SlotInv, NEW c \in Callers, NEW t, Rec(t), ~Holds(t), th[c].pc # "recheck",
           th' = [th EXCEPT ![c] = t], busy' = Released(c)
    PROVE  SlotInv'
  <1>1. CASE th[c].held
    <2>1. busy' = [busy EXCEPT ![Rank(c)] = FALSE] /\ Holds(th[c])
      BY <1>1 DEF Released, Holds
    <2> QED
      BY <2>1, Leaves, Zenon
  <1>2. CASE ~th[c].held
    <2>1. busy' = busy
      BY <1>2 DEF Released, SlotInv
    <2> QED
      BY <2>1, Keeps, Zenon
  <1> QED
    BY <1>1, <1>2

\* acquire, the start of an operation and its return.
LEMMA SlotSlot == ASSUME SlotInv, NEW c \in Callers, SlotStep(c) PROVE SlotInv'
  <1>1. Rec(th[c]) /\ Rank(c) \in Ranks
    BY DEF SlotInv, Callers, Rank
  <1>2. CASE Begin(c)
    <2> DEFINE t == IF Refused(c) \/ closed[Rank(c)] THEN Idle(th[c].k + 1)
                    ELSE [th[c] EXCEPT !.pc = "acquire", !.op = Cur(c).op]
    <2>1. th' = [th EXCEPT ![c] = t] /\ busy' = busy
      BY <1>2 DEF Begin, Become, groupVars
    <2>2. Rec(t) /\ (Holds(t) => Holds(th[c]))
      BY <1>1, IdleFree, Zenon DEF Rec, Fields, Holds
    <2> QED
      BY <2>1, <2>2, Keeps, Zenon
  <1>3. CASE TakeSlot(c)
    <2> DEFINE t == [th[c] EXCEPT !.pc = "recheck"]
    <2>1. /\ th' = [th EXCEPT ![c] = t] /\ ~busy[Rank(c)]
          /\ busy' = [busy EXCEPT ![Rank(c)] = TRUE]
      BY <1>3 DEF TakeSlot, Goto
    <2>2. \A d \in Callers : th'[d] = IF d = c THEN t ELSE th[d]
      BY <2>1 DEF SlotInv
    <2>3. th' = [d \in Callers |-> th'[d]] /\ \A d \in Callers : Rec(th'[d])
      BY <1>1, <2>1, <2>2, Zenon DEF SlotInv, Rec, Fields
    <2>4. \A d \in Callers : Holds(th'[d]) => d = c \/ (Holds(th[d]) /\ Rank(d) # Rank(c))
      BY <2>1, <2>2 DEF SlotInv
    <2>5. /\ busy' = [r \in Ranks |-> busy'[r]] /\ busy'[Rank(c)]
          /\ \A r \in Ranks : r # Rank(c) => busy'[r] = busy[r]
      BY <1>1, <2>1, Zenon DEF SlotInv
    <2>6. \A d \in Callers : Rank(d) \in Ranks
      BY DEF Callers, Rank
    <2>7. \A d \in Callers : Holds(th'[d]) => busy'[Rank(d)]
      BY <2>4, <2>5, <2>6 DEF SlotInv
    <2> QED
      BY <2>3, <2>4, <2>5, <2>7 DEF SlotInv
  <1>4. CASE SlotRefused(c)
    <2>1. th' = [th EXCEPT ![c] = Idle(th[c].k + 1)] /\ busy' = busy
      BY <1>4 DEF SlotRefused, Become, groupVars
    <2> QED
      BY <2>1, IdleFree, Keeps, Zenon
  <1>5. CASE Recheck(c)
    <2>1. CASE closed[Rank(c)]
      <3>1. /\ th' = [th EXCEPT ![c] = Idle(th[c].k + 1)] /\ Holds(th[c])
            /\ busy' = [busy EXCEPT ![Rank(c)] = FALSE]
        BY <1>5, <2>1 DEF Recheck, Become, Holds
      <3> QED
        BY <3>1, IdleFree, Leaves, Zenon
    <2>2. CASE ~closed[Rank(c)]
      <3>1. th' = [th EXCEPT ![c] = Started(c)] /\ busy' = busy /\ Holds(th[c])
        BY <1>5, <2>2 DEF Recheck, Become, Holds
      <3>2. Rec(Started(c))
        <4> DEFINE t == [th[c] EXCEPT !.held = TRUE, !.known = Own(c), !.peer = 1]
        <4>1. Rec(t)
          BY <1>1, Zenon DEF Rec, Fields
        <4> DEFINE Next1(u) == [t EXCEPT !.pc = u]
                   Next2(u, v) == [t EXCEPT !.pc = u, !.err = v]
                   Next3(u, v, w) == [t EXCEPT !.pc = u, !.peer = v, !.left = w]
        <4>2. \/ Started(c) = Next1(BarrierPc(c)) \/ Started(c) = Next1("finish")
              \/ \E v : Started(c) = Next2("finish", v)
              \/ \E v, w : Started(c) = Next3("lock", v, w)
          BY Zenon DEF Started
        <4> HIDE DEF t
        <4>3. \A u, v, w : Rec(Next1(u)) /\ Rec(Next2(u, v)) /\ Rec(Next3(u, v, w))
          BY <4>1, RecExcept, Zenon
        <4> HIDE DEF Next1, Next2, Next3
        <4> QED
          BY <4>2, <4>3
      <3> QED
        BY <3>1, <3>2, Keeps, Zenon
    <2> QED
      BY <2>1, <2>2
  <1>6. CASE Return(c)
    <2>1. th' = [th EXCEPT ![c] = Idle(th[c].k + 1)] /\ busy' = Released(c) /\ th[c].pc # "recheck"
      BY <1>6 DEF Return, Become
    <2> QED
      BY <2>1, IdleFree, SlotRelease, Zenon
  <1> QED
    BY <1>2, <1>3, <1>4, <1>5, <1>6 DEF SlotStep

\* A completion may release early (a reader at EOF), never acquire.
LEMMA ReceivedRecord ==
    ASSUME NEW c, Rec(th[c]), th[c].pc # "recheck"
    PROVE  /\ Rec(Received(c)) /\ Received(c).pc # "recheck"
           /\ Received(c).held => th[c].held
  <1> DEFINE Good(u) == Rec(u) /\ u.pc # "recheck" /\ (u.held => th[c].held)
  <1>1. ASSUME NEW u, Good(u), NEW v, v # "recheck" PROVE Good(Again(u, v))
    BY <1>1, Zenon DEF Again, Rec, Fields
  <1>2. ASSUME NEW u, Good(u) PROVE Good(GatherOn(c, u))
    <2>1. Good(Again(u, "postrecv"))
      BY <1>1, <1>2
    <2>2. ASSUME NEW t, Good(t), NEW v PROVE Good([t EXCEPT !.err = v])
      BY <2>2 DEF Rec, Fields
    <2>3. ASSUME NEW v PROVE Good([u EXCEPT !.peer = v, !.need = 2])
      BY <1>2, Zenon DEF Rec, Fields
    <2> HIDE DEF Good
    <2> QED
      BY <2>1, <2>2, <2>3, Zenon DEF GatherOn
  <1>3. ASSUME NEW tag PROVE Good(ReadOn(th[c], tag))
    BY Zenon DEF ReadOn, Rec, Fields
  <1>4. ASSUME NEW v PROVE Good([th[c] EXCEPT !.known = v])
    BY DEF Rec, Fields
  <1>5. ASSUME NEW v PROVE Good([th[c] EXCEPT !.seg = v, !.pc = "lock"])
    BY Zenon DEF Rec, Fields
  <1>6. Good(th[c])
    OBVIOUS
  <1>7. Good(Received(c))
    <2> HIDE DEF Good
    <2>1. CASE th[c].op = "gather"
      <3>1. Received(c) = GatherOn(c, [th[c] EXCEPT !.known = Merge(th[c].known, recvbuf[<<Rank(c), th[c].peer>>].known)])
        BY <2>1 DEF Received
      <3> QED
        BY <1>2, <1>4, <3>1
    <2>2. CASE th[c].op = "read"
      BY <1>3, <2>2 DEF Received
    <2>3. CASE th[c].op = "write" /\ th[c].seg < LastSeg(c)
      <3>1. Received(c) = [th[c] EXCEPT !.seg = th[c].seg + 1, !.pc = "lock"]
        BY <2>3 DEF Received
      <3> QED
        BY <1>5, <3>1, Zenon
    <2>4. CASE th[c].op \notin {"gather", "read"} /\ ~(th[c].op = "write" /\ th[c].seg < LastSeg(c))
      <3>1. \/ Received(c) = Again(th[c], "postsend") \/ Received(c) = Again(th[c], "postrecv")
        BY <2>4 DEF Received
      <3> QED
        BY <1>1, <1>6, <3>1
    <2> QED
      BY <2>1, <2>2, <2>3, <2>4
  <1> QED
    BY <1>7

LEMMA SlotWork == ASSUME SlotInv, NEW c \in Callers, WorkStep(c) PROVE SlotInv'
  <1>1. Rec(th[c])
    BY DEF SlotInv
  <1>2. CASE Lock(c)
    <2> DEFINE t == IF {p \in Targets(c) : p > th[c].peer} # {}
                      THEN [th[c] EXCEPT !.peer = Min({p \in Targets(c) : p > th[c].peer})]
                    ELSE [th[c] EXCEPT !.pc = IF th[c].op \in {"send", "write"} THEN "postsend"
                                              ELSE "postrecv"]
    <2>1. th' = [th EXCEPT ![c] = t] /\ busy' = busy
      BY <1>2 DEF Lock, Become, groupVars
    <2>2. Rec(t) /\ (Holds(t) => Holds(th[c]))
      BY <1>1 DEF Rec, Fields, Holds
    <2> QED
      BY <2>1, <2>2, Keeps
  <1>3. CASE PostRecv(c)
    <2> DEFINE t == IF th[c].op = "gather" THEN [th[c] EXCEPT !.pc = "postsend"]
                    ELSE [th[c] EXCEPT !.pc = "poll", !.need = 1]
    <2>1. th' = [th EXCEPT ![c] = t] /\ busy' = busy
      BY <1>3 DEF PostRecv, Become, groupVars
    <2>2. Rec(t) /\ (Holds(t) => Holds(th[c]))
      BY <1>1, Zenon DEF Rec, Fields, Holds
    <2> QED
      BY <2>1, <2>2, Keeps, Zenon
  <1>4. CASE PostSend(c)
    <2> DEFINE t == [th[c] EXCEPT !.pc = "poll", !.peer = Min(Targets(c)),
                                  !.need = IF th[c].op = "gather" THEN 2 ELSE 1]
    <2>1. th' = [th EXCEPT ![c] = t] /\ busy' = busy
      BY <1>4 DEF PostSend, Become, groupVars
    <2>2. Rec(t) /\ (Holds(t) => Holds(th[c]))
      BY <1>1, Zenon DEF Rec, Fields, Holds
    <2> QED
      BY <2>1, <2>2, Keeps, Zenon
  <1>5. CASE Poll(c)
    <2>1. CASE th[c].need > 1
      <3> DEFINE t == [th[c] EXCEPT !.need = th[c].need - 1]
      <3>1. th' = [th EXCEPT ![c] = t] /\ busy' = busy
        BY <1>5, <2>1 DEF Poll
      <3>2. Rec(t) /\ (Holds(t) => Holds(th[c]))
        BY <1>1 DEF Rec, Fields, Holds
      <3> QED
        BY <3>1, <3>2, Keeps, Zenon
    <2>2. CASE ~(th[c].need > 1)
      <3>1. /\ th' = [th EXCEPT ![c] = Received(c)] /\ th[c].pc # "recheck"
            /\ busy' = IF Received(c).held THEN busy ELSE Released(c)
        BY <1>5, <2>2 DEF Poll, Become
      <3>2. /\ Rec(Received(c)) /\ Received(c).pc # "recheck"
            /\ Received(c).held => th[c].held
        BY <1>1, <3>1, ReceivedRecord
      <3>3. CASE Received(c).held
        BY <3>1, <3>2, <3>3, Keeps, Zenon DEF Holds
      <3>4. CASE ~Received(c).held
        BY <3>1, <3>2, <3>4, SlotRelease, Zenon DEF Holds
      <3> QED
        BY <3>3, <3>4
    <2> QED
      BY <2>1, <2>2
  <1>6. CASE WorkFails(c)
    <2> DEFINE t == CASE th[c].op = "write" /\ th[c].seg < LastSeg(c) ->
                           [th[c] EXCEPT !.pc = "lock", !.seg = LastSeg(c), !.err = TRUE]
                      [] th[c].op = "read" -> [th[c] EXCEPT !.pc = "rclose", !.err = TRUE]
                      [] OTHER -> [th[c] EXCEPT !.pc = "finish", !.err = TRUE]
    <2>1. th' = [th EXCEPT ![c] = t] /\ busy' = busy
      BY <1>6 DEF WorkFails, Become, groupVars
    <2>2. Rec(t) /\ (Holds(t) => Holds(th[c]))
      BY <1>1, Zenon DEF Rec, Fields, Holds
    <2> QED
      BY <2>1, <2>2, Keeps, Zenon
  <1>7. CASE ReaderClose(c)
    <2>1. th' = [th EXCEPT ![c] = Idle(th[c].k + 1)] /\ busy' = Released(c) /\ th[c].pc # "recheck"
      BY <1>7 DEF ReaderClose, Become
    <2> QED
      BY <2>1, IdleFree, SlotRelease, Zenon
  <1> QED
    BY <1>2, <1>3, <1>4, <1>5, <1>6, <1>7 DEF WorkStep

\* Close leaves the slot alone, and so do the queue pairs and contexts.
LEMMA SlotOthers ==
    ASSUME SlotInv,
           \/ \E c \in Callers : CloseStep(c) \/ Expire(c)
           \/ \E x \in Conns : Transmit(x) \/ Drop(x)
           \/ UNCHANGED vars
    PROVE  SlotInv'
  <1>1. ASSUME NEW c \in Callers, CloseStep(c) \/ Expire(c) PROVE SlotInv'
    <2>1. busy' = busy /\ Rec(th[c])
      BY <1>1, Zenon DEF CloseStep, CloseGroup, CloseConn, Expire, groupVars, SlotInv
    <2>2. \/ th' = th \/ th' = [th EXCEPT ![c] = Idle(th[c].k + 1)]
          \/ th' = [th EXCEPT ![c] = [th[c] EXCEPT !.pc = "closing"]]
          \/ th' = [th EXCEPT ![c] = [th[c] EXCEPT !.late = TRUE]]
      BY <1>1, Zenon DEF CloseStep, CloseGroup, CloseConn, Expire, Become, Goto
    <2>3. /\ Rec([th[c] EXCEPT !.pc = "closing"]) /\ Rec([th[c] EXCEPT !.late = TRUE])
          /\ Holds([th[c] EXCEPT !.pc = "closing"]) => Holds(th[c])
          /\ Holds([th[c] EXCEPT !.late = TRUE]) => Holds(th[c])
      BY <2>1, Zenon DEF Rec, Fields, Holds
    <2>4. CASE th' = th
      BY <2>1, <2>4 DEF SlotInv
    <2> QED
      BY <2>1, <2>2, <2>3, <2>4, IdleFree, Keeps, Zenon
  <1>2. CASE UNCHANGED <<th, busy>>
    BY <1>2 DEF SlotInv
  <1> QED
    BY <1>1, <1>2 DEF Transmit, Drop, vars, groupVars

\* Group operations, streams and Close share one slot, and whatever the ranks
\* do only one operation of a group is active: acquire and release of group.go
\* are a mutual exclusion even though release does not know its owner.
THEOREM DirectOneActive == Spec => []OneActive
  <1>1. SlotInv /\ [Next]_vars => SlotInv'
    BY SlotBoot, SlotSide, SlotSlot, SlotWork, SlotOthers DEF Next, Progress
  <1>2. SlotInv => OneActive
    BY DEF SlotInv, OneActive, Holds
  <1> QED
    BY SlotInit, <1>1, <1>2, PTL DEF Spec
===============================================================================
