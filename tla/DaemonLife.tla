------------------------------- MODULE DaemonLife -------------------------------
(***************************************************************************)
(* The life of one jaccld process and of the RDMA objects it opens: run of *)
(* cmd/jaccld/main.go from start to exit, openHardware and openDaemonConn, *)
(* transport and hardware Close, and the slot ledger that counts objects   *)
(* in a file kept across runs of the same boot.  Next to run, an operation *)
(* per peer (a serve or work goroutine) and the keepalive goroutine use    *)
(* the connections.                                                        *)
(*                                                                         *)
(* What a process leaves behind when it dies stays allocated until the     *)
(* machine reboots (external: this is what the ledger is kept for).        *)
(***************************************************************************)
EXTENDS Integers, Sequences, FiniteSets, SequencesExt

CONSTANT Scenarios  \* records: number of peers, processes started (bound), faults

FaultKinds == {"create", "destroy", "save", "crash", "accept", "reboot"}

ASSUME LifeAssumption ==
    Scenarios \subseteq [peers : Nat \ {0}, runs : Nat \ {0}, faults : SUBSET FaultKinds]

VARIABLE sc  \* the scenario, fixed
P == sc.peers
Faults == sc.faults

Peers == 1 .. P
Kinds == {"pd", "mr", "cq", "qp"}
PD == <<"pd", 0>>
MR == <<"mr", 0>>
CQ(p) == <<"cq", p>>
QP(p) == <<"qp", p>>
Objects == {PD, MR} \cup {CQ(p) : p \in Peers} \cup {QP(p) : p \in Peers}

VARIABLES run,      \* the main goroutine: pc, position while opening, objects to close
          stopped,  \* ctx is done
          mine,     \* objects of this process
          stuck,    \* those among them whose destroy has failed, not to be tried again
          leaked,   \* per kind: objects left behind by earlier processes
          mem, file,\* the ledger: opened, closed, failed (and live) per kind
          lock,     \* per peer: holder of conn.mu
          op,       \* per peer: the operation of a client
          hb,       \* the keepalive goroutine
          route,    \* per peer: the tracker's route
          mapped,   \* the slab's memory is mapped
          data,     \* Slab.data is set
          runs,     \* processes started
          \* History, read by properties only:
          under, off, \* kinds the file may undercount, or miscount at all
          raced,    \* operations that had their range checked when Slab.data was cleared
          touched   \* operations that touched the slab after that

ledgerVars == <<mem, file>>
slabVars == <<mapped, data>>
workVars == <<lock, op, hb, route>>
histVars == <<under, off, raced, touched>>
vars == <<sc, run, stopped, mine, stuck, leaked, ledgerVars, workVars, slabVars, runs, histVars>>

Load(f) == [k \in Kinds |-> [opened |-> f[k].opened, closed |-> f[k].closed,
                             failed |-> f[k].failed, live |-> 0]]
Zero == [k \in Kinds |-> [opened |-> 0, closed |-> 0, failed |-> 0]]
Down == [pc |-> "down", i |-> 0, todo |-> <<>>, served |-> FALSE]
Of(k) == {o \in mine : o[1] = k}
Plan == <<PD, MR>> \o FlattenSeq([p \in Peers |-> <<CQ(p), QP(p)>>])

Asleep == [pc |-> "idle", p |-> 1, due |-> {}]

Quiet ==
    /\ lock = [p \in Peers |-> "none"] /\ op = [p \in Peers |-> "idle"]
    /\ hb = Asleep /\ route = [p \in Peers |-> "none"]

Init ==
    /\ sc \in Scenarios
    /\ run = Down /\ stopped = FALSE /\ mine = {} /\ stuck = {}
    /\ leaked = [k \in Kinds |-> 0]
    /\ mem = Load(Zero) /\ file = Zero
    /\ Quiet /\ mapped = FALSE /\ data = FALSE /\ runs = 0
    /\ under = {} /\ off = {} /\ raced = {} /\ touched = {}

-------------------------------------------------------------------------------
(* The slot ledger: update changes the counters, then saves them all; when  *)
(* the save fails, memory keeps the change.                                 *)

Saved(m) == [k \in Kinds |-> [opened |-> m[k].opened, closed |-> m[k].closed,
                              failed |-> m[k].failed]]
MarkOpened(k) == [mem EXCEPT ![k].opened = @ + 1, ![k].live = @ + 1]

\* Fault: a close that only lowers the live count.
FaultMarkClosed(k) == [mem EXCEPT ![k].live = IF @ > 0 THEN @ - 1 ELSE 0]

MarkClosed(k) == [mem EXCEPT ![k].closed = @ + 1, ![k].live = IF @ > 0 THEN @ - 1 ELSE 0]
MarkFailed(k) == [mem EXCEPT ![k].failed = @ + 1]
update(counters) == mem' = counters /\ file' = Saved(counters)
updateFails(counters) == "save" \in Faults /\ mem' = counters /\ UNCHANGED file
recordSlotFailed(k) == update(MarkFailed(k)) \/ updateFails(MarkFailed(k))
recordSlotClosed(k) ==
    \/ update(MarkClosed(k)) /\ UNCHANGED off
    \/ updateFails(MarkClosed(k)) /\ off' = off \cup {k}
Outstanding(c) == IF c.opened >= c.closed THEN c.opened - c.closed ELSE 0

-------------------------------------------------------------------------------
(* Start: the slab, the ledger, hardware, connections, the ready barrier. *)

\* The side channel is up, the slab is mapped, the ledger is loaded and saved.
Start ==
    /\ run.pc = "down" /\ runs < sc.runs
    /\ runs' = runs + 1 /\ stopped' = FALSE /\ mapped' = TRUE /\ data' = TRUE
    /\ mem' = Load(file) /\ file' = file
    /\ run' = [Down EXCEPT !.pc = "create", !.i = 1]
    /\ UNCHANGED <<mine, stuck, leaked, workVars, histVars>>

Stop ==
    /\ run.pc # "down" /\ ~stopped /\ stopped' = TRUE
    /\ UNCHANGED <<run, mine, stuck, leaked, ledgerVars, workVars, slabVars, runs, histVars>>

Cur == Plan[run.i]

\* What the deferred closes will go through: the connection that failed to
\* open, the others, then memory region and protection domain.
ConnObjects(p) == <<QP(p), CQ(p)>>
CloseOrder(first) ==
    FlattenSeq([p \in Peers |-> ConnObjects(((first + p - 2) % P) + 1)]) \o <<MR, PD>>
Close(held, first) ==
    [run EXCEPT !.pc = "destroy", !.i = 0,
                !.todo = SelectSeq(CloseOrder(first), LAMBDA o : o \in held)]
FailingPeer == IF Cur[2] > 0 THEN Cur[2] ELSE 1

\* The next object, after Init for a queue pair.
Following == IF run.i < Len(Plan) THEN [run EXCEPT !.pc = "create", !.i = @ + 1]
             ELSE [run EXCEPT !.pc = "connect", !.i = 0]
Opened == IF Cur[1] = "qp" THEN [run EXCEPT !.pc = "init"] ELSE Following

Create ==
    /\ run.pc = "create"
    /\ mine' = mine \cup {Cur} /\ run' = [run EXCEPT !.pc = "record"]
    /\ UNCHANGED <<stopped, stuck, leaked, ledgerVars, workVars, slabVars, runs, histVars>>

\* recordSlotFailed, which only logs when its save fails.
CreateFails ==
    /\ run.pc = "create" /\ "create" \in Faults
    /\ recordSlotFailed(Cur[1])
    /\ run' = Close(mine, FailingPeer)
    /\ UNCHANGED <<stopped, mine, stuck, leaked, workVars, slabVars, runs, histVars>>

RecordOpened ==
    /\ run.pc = "record"
    /\ update(MarkOpened(Cur[1]))
    /\ run' = Opened
    /\ UNCHANGED <<stopped, mine, stuck, leaked, workVars, slabVars, runs, histVars>>

\* The save fails: hardware is closed the usual way, a queue on the spot and
\* without MarkClosed.
RecordOpenedFails ==
    /\ run.pc = "record" /\ updateFails(MarkOpened(Cur[1]))
    /\ run' = IF Cur[1] \in {"pd", "mr"} THEN Close(mine, 1) ELSE [run EXCEPT !.pc = "drop"]
    /\ under' = under \cup {Cur[1]} /\ off' = off \cup {Cur[1]}
    /\ UNCHANGED <<stopped, mine, stuck, leaked, workVars, slabVars, runs, raced, touched>>

Drop ==
    /\ run.pc = "drop"
    /\ \/ mine' = mine \ {Cur} /\ UNCHANGED stuck
       \/ "destroy" \in Faults /\ stuck' = stuck \cup {Cur} /\ UNCHANGED mine
    /\ run' = Close(mine \ {Cur}, Cur[2])
    /\ UNCHANGED <<stopped, leaked, ledgerVars, workVars, slabVars, runs, histVars>>

\* InitQueuePair and LocalDestination on a queue pair already counted.
InitQueuePair ==
    /\ run.pc = "init"
    /\ \/ run' = Following
       \/ "create" \in Faults /\ run' = Close(mine, Cur[2])
    /\ UNCHANGED <<stopped, mine, stuck, leaked, ledgerVars, workVars, slabVars, runs, histVars>>

Add(p) == [route EXCEPT ![p] = "healthy"]

\* Ready to receive, ready to send and tracker.Add, peer by peer.
Connect ==
    /\ run.pc = "connect"
    /\ IF run.i < P
         THEN /\ run' = [run EXCEPT !.i = @ + 1]
              /\ route' = Add(run.i + 1)
         ELSE run' = [run EXCEPT !.pc = "serve", !.i = 0, !.served = TRUE] /\ UNCHANGED route
    /\ UNCHANGED <<stopped, mine, stuck, leaked, ledgerVars, lock, op, hb, slabVars, runs, histVars>>

\* The exchange, a transition or the ready barrier fails, or ctx ends it.
ConnectFails ==
    /\ run.pc = "connect" /\ (stopped \/ "create" \in Faults)
    /\ run' = Close(mine, 1)
    /\ UNCHANGED <<stopped, mine, stuck, leaked, ledgerVars, workVars, slabVars, runs, histVars>>

\* ListenAndServe returns, and waits for no connection.
ServeEnds ==
    /\ run.pc = "serve" /\ (stopped \/ "accept" \in Faults)
    /\ run' = Close(mine, 1)
    /\ UNCHANGED <<stopped, mine, stuck, leaked, ledgerVars, workVars, slabVars, runs, histVars>>

-------------------------------------------------------------------------------
(* The deferred closes: transport, hardware, slab. *)

Target == Head(run.todo)
Closing == run.pc = "destroy" /\ run.todo # <<>>
OnConn == Target[1] \in {"qp", "cq"}
Children(o) ==
    CASE o[1] = "pd" -> {x \in mine : x[1] \in {"mr", "qp"}}
      [] o[1] = "cq" -> mine \cap {QP(o[2])}
      [] OTHER -> {}

\* tracker.Remove comes before the connection is closed.
RemoveRoute ==
    /\ Closing /\ OnConn /\ route[Target[2]] # "none"
    /\ route' = [route EXCEPT ![Target[2]] = "none"]
    /\ UNCHANGED <<run, stopped, mine, stuck, leaked, ledgerVars, lock, op, hb, slabVars, runs, histVars>>

\* conn.mu is held from the first destroy of a connection to the last record.
CanDestroy == Closing /\ (OnConn => route[Target[2]] = "none" /\ lock[Target[2]] \in {"none", "close"})
Locked == IF OnConn THEN [lock EXCEPT ![Target[2]] = "close"] ELSE lock
Unlocked == IF Target[1] = "cq" THEN [lock EXCEPT ![Target[2]] = "none"] ELSE lock

\* Fault: the connection is closed without its lock.
FaultDestroy ==
    /\ Closing /\ Children(Target) = {}
    /\ mine' = mine \ {Target} /\ run' = [run EXCEPT !.pc = "mark"]
    /\ UNCHANGED <<stopped, stuck, leaked, ledgerVars, lock, op, hb, route, slabVars, runs, histVars>>

Destroy ==
    /\ CanDestroy /\ Children(Target) = {}
    /\ mine' = mine \ {Target} /\ run' = [run EXCEPT !.pc = "mark"]
    /\ lock' = Locked
    /\ UNCHANGED <<stopped, stuck, leaked, ledgerVars, op, hb, route, slabVars, runs, histVars>>

\* The provider refuses, always while something still uses the object.
DestroyFails ==
    /\ CanDestroy /\ ("destroy" \in Faults \/ Children(Target) # {})
    /\ stuck' = stuck \cup {Target} /\ run' = [run EXCEPT !.todo = Tail(@)]
    /\ lock' = IF Target[1] = "cq" THEN Unlocked ELSE Locked
    /\ UNCHANGED <<stopped, mine, leaked, ledgerVars, op, hb, route, slabVars, runs, histVars>>

\* MarkClosed; a failed save changes nothing but the error.
RecordClosed ==
    /\ run.pc = "mark"
    /\ recordSlotClosed(Target[1])
    /\ run' = [run EXCEPT !.pc = "destroy", !.todo = Tail(@)]
    /\ lock' = Unlocked
    /\ UNCHANGED <<stopped, mine, stuck, leaked, op, hb, route, slabVars, runs, under, raced, touched>>

\* Slab.Close unmaps the memory and then clears data; its mutex keeps no reader
\* of Slab.Bytes away.
Unmap ==
    /\ run.pc = "destroy" /\ run.todo = <<>> /\ mapped
    /\ mapped' = FALSE
    /\ UNCHANGED <<run, stopped, mine, stuck, leaked, ledgerVars, workVars, data, runs, histVars>>

ClearData ==
    /\ run.pc = "destroy" /\ run.todo = <<>> /\ ~mapped /\ data
    /\ data' = FALSE /\ raced' = {p \in Peers : op[p] \in {"copy", "reduce"}}
    /\ UNCHANGED <<run, stopped, mine, stuck, leaked, ledgerVars, workVars, mapped, runs, under, off, touched>>

\* The process is gone: goroutines and locks with it, objects left behind.
Gone ==
    /\ run' = Down /\ mine' = {} /\ stuck' = {} /\ mapped' = FALSE /\ data' = FALSE
    /\ leaked' = [k \in Kinds |-> leaked[k] + Cardinality(Of(k))]
    /\ lock' = [p \in Peers |-> "none"] /\ op' = [p \in Peers |-> "idle"]
    /\ hb' = Asleep /\ route' = [p \in Peers |-> "none"]
    /\ raced' = {} /\ touched' = {}

Exit ==
    /\ run.pc = "destroy" /\ run.todo = <<>> /\ ~data
    /\ Gone
    /\ UNCHANGED <<stopped, ledgerVars, runs, under, off>>

Opening == IF run.pc = "record" THEN {Cur[1]} ELSE {}
Midway == IF run.pc \in {"record", "drop"} THEN {Cur[1]}
          ELSE IF run.pc = "mark" THEN {Target[1]} ELSE {}

Crash ==
    /\ run.pc # "down" /\ "crash" \in Faults
    /\ Gone
    /\ under' = under \cup Opening /\ off' = off \cup Midway
    /\ UNCHANGED <<stopped, ledgerVars, runs>>

\* A new boot ID starts a new file; the provider has forgotten everything.
Reboot ==
    /\ run.pc = "down" /\ "reboot" \in Faults /\ 0 < runs /\ runs < sc.runs
    /\ leaked' = [k \in Kinds |-> 0] /\ file' = Zero /\ under' = {} /\ off' = {}
    /\ UNCHANGED <<run, stopped, mine, stuck, mem, workVars, slabVars, runs, raced, touched>>
-------------------------------------------------------------------------------
(* Goroutines on the connections: one operation a peer, and the keepalive. *)

Usable(p) == {QP(p), MR} \subseteq mine
OpTo(p, pc) == op' = [op EXCEPT ![p] = pc]
Touch(p) == touched' = IF data THEN touched ELSE touched \cup {p}

\* rangeInMR reads slab.Bytes with no lock; the slice found there is used next.
OpBegins(p) ==
    /\ run.served /\ op[p] = "idle" /\ data /\ OpTo(p, "copy")
    /\ UNCHANGED <<run, stopped, mine, stuck, leaked, ledgerVars, lock, hb, route, slabVars, runs, histVars>>

OpCopies(p) ==
    /\ op[p] = "copy" /\ OpTo(p, "want") /\ Touch(p)
    /\ UNCHANGED <<run, stopped, mine, stuck, leaked, ledgerVars, lock, hb, route, slabVars, runs, under, off, raced>>

OpLocks(p) ==
    /\ op[p] = "want" /\ lock[p] = "none"
    /\ lock' = [lock EXCEPT ![p] = "op"] /\ OpTo(p, "locked")
    /\ UNCHANGED <<run, stopped, mine, stuck, leaked, ledgerVars, hb, route, slabVars, runs, histVars>>

OpUnlocks(p, pc) == lock' = [lock EXCEPT ![p] = "none"] /\ OpTo(p, pc)

\* post checks the handles of queue pair and memory region.
OpPosts(p) ==
    /\ op[p] = "locked"
    /\ IF Usable(p) THEN OpTo(p, "poll") /\ UNCHANGED lock ELSE OpUnlocks(p, "idle")
    /\ UNCHANGED <<run, stopped, mine, stuck, leaked, ledgerVars, hb, route, slabVars, runs, histVars>>

OpPolls(p) ==
    /\ op[p] = "poll" /\ OpUnlocks(p, "after")
    /\ UNCHANGED <<run, stopped, mine, stuck, leaked, ledgerVars, hb, route, slabVars, runs, histVars>>

\* Fault: a poll that gives up only when its queue pair is gone.
FaultOpCancelled(p) ==
    /\ op[p] = "poll" /\ stopped /\ QP(p) \notin mine /\ OpUnlocks(p, "idle")
    /\ UNCHANGED <<run, stopped, mine, stuck, leaked, ledgerVars, hb, route, slabVars, runs, histVars>>

\* PollCompletion finds its context done.
OpCancelled(p) ==
    /\ op[p] = "poll" /\ stopped /\ OpUnlocks(p, "idle")
    /\ UNCHANGED <<run, stopped, mine, stuck, leaked, ledgerVars, hb, route, slabVars, runs, histVars>>

\* Fault: no range check after the exchange.
FaultOpChecks(p) ==
    /\ op[p] = "after" /\ OpTo(p, "reduce")
    /\ UNCHANGED <<run, stopped, mine, stuck, leaked, ledgerVars, lock, hb, route, slabVars, runs, histVars>>

\* A reduction: rangeInMR again, then the two slices; a transfer is done here.
OpChecks(p) ==
    /\ op[p] = "after" /\ OpTo(p, IF data THEN "reduce" ELSE "idle")
    /\ UNCHANGED <<run, stopped, mine, stuck, leaked, ledgerVars, lock, hb, route, slabVars, runs, histVars>>

OpReduces(p) ==
    /\ op[p] = "reduce" /\ OpTo(p, "idle") /\ Touch(p)
    /\ UNCHANGED <<run, stopped, mine, stuck, leaked, ledgerVars, lock, hb, route, slabVars, runs, under, off, raced>>

\* BeatIdle lists the idle healthy routes, then beats them without the tracker's lock.
BeatIdle ==
    /\ hb.pc = "idle" /\ ~stopped
    /\ \E due \in SUBSET {p \in Peers : route[p] = "healthy"} :
         due # {} /\ hb' = [Asleep EXCEPT !.pc = "due", !.due = due]
    /\ UNCHANGED <<run, stopped, mine, stuck, leaked, ledgerVars, lock, op, route, slabVars, runs, histVars>>

\* recordBeat: the route of that name, if it is still there.
Beaten(p, ok) == [route EXCEPT ![p] = IF @ = "none" THEN @ ELSE IF ok THEN "healthy" ELSE "sick"]
BeatOver(p, ok) ==
    /\ hb' = IF hb.due = {p} THEN Asleep ELSE [Asleep EXCEPT !.pc = "due", !.due = hb.due \ {p}]
    /\ route' = Beaten(p, ok)

\* heartbeat: a lease that has run out and a lost slab fail it before TryLock,
\* a busy connection counts as beaten, missing handles fail the post.
Beat(p) ==
    /\ hb.pc = "due" /\ p \in hb.due
    /\ \/ BeatOver(p, FALSE) /\ UNCHANGED lock
       \/ data /\ lock[p] # "none" /\ BeatOver(p, TRUE) /\ UNCHANGED lock
       \/ /\ data /\ lock[p] = "none" /\ Usable(p)
          /\ hb' = [hb EXCEPT !.pc = "poll", !.p = p]
          /\ lock' = [lock EXCEPT ![p] = "beat"] /\ UNCHANGED route
    /\ UNCHANGED <<run, stopped, mine, stuck, leaked, ledgerVars, op, slabVars, runs, histVars>>

\* The write completes, fails, times out or is cancelled.
BeatEnds ==
    /\ hb.pc = "poll" /\ lock' = [lock EXCEPT ![hb.p] = "none"]
    /\ \E ok \in BOOLEAN : BeatOver(hb.p, ok)
    /\ UNCHANGED <<run, stopped, mine, stuck, leaked, ledgerVars, op, slabVars, runs, histVars>>

-------------------------------------------------------------------------------
RunStep == \/ Create \/ CreateFails \/ RecordOpened \/ RecordOpenedFails \/ Drop \/ InitQueuePair
           \/ Connect \/ ConnectFails \/ ServeEnds
           \/ RemoveRoute \/ Destroy \/ DestroyFails \/ RecordClosed
           \/ Unmap \/ ClearData \/ Exit
OpEnds(p) == p \in Peers /\ (OpPosts(p) \/ OpCancelled(p)) /\ UNCHANGED sc

Step == \/ Start \/ Stop \/ RunStep \/ Crash \/ Reboot
        \/ \E p \in Peers : \/ OpBegins(p) \/ OpCopies(p) \/ OpLocks(p) \/ OpPosts(p) \/ OpPolls(p)
                            \/ OpCancelled(p) \/ OpChecks(p) \/ OpReduces(p) \/ Beat(p)
        \/ BeatIdle \/ BeatEnds

Next == Step /\ UNCHANGED sc

Spec == Init /\ [][Next]_vars

\* run goes on, a cancelled poll returns, a heartbeat times out; conn.mu is a
\* Go mutex, which does not starve a waiter, and nothing else is assumed of
\* operations and peers.
FairSpec ==
    /\ Spec /\ SF_vars(RunStep /\ UNCHANGED sc) /\ WF_vars(BeatEnds /\ UNCHANGED sc)
    /\ \A p \in 1 .. Max({s.peers : s \in Scenarios}) : WF_vars(OpEnds(p))

-------------------------------------------------------------------------------
(* Properties. *)

\* Every variable has its type; live counts never exceed what one process opens.
TypeOK ==
    /\ run.pc \in {"down", "create", "record", "drop", "init", "connect", "serve", "destroy", "mark"}
    /\ mine \subseteq Objects /\ stuck \subseteq mine
    /\ \A k \in Kinds : mem[k].live \in 0 .. P /\ file[k].closed <= file[k].opened
    /\ lock \in [Peers -> {"none", "close", "op", "beat"}]
    /\ op \in [Peers -> {"idle", "copy", "want", "locked", "poll", "after", "reduce"}]
    /\ route \in [Peers -> {"none", "healthy", "sick"}]

\* The ledger file counts exactly the objects of this boot that still exist,
\* over restarts and crashes, except for kinds hit by a crash between a verb
\* and its record or by a save that failed.  And it never says too little,
\* even after crashes in the middle of a close and failed saves of a close.
\* The live counts the daemon reports cover its own objects, failed saves or not.
LedgerExact ==
    /\ \A k \in Kinds \ (under \cup Opening) :
         leaked[k] + Cardinality(Of(k)) <= Outstanding(file[k])
    /\ \A k \in Kinds \ (off \cup Midway) :
         leaked[k] + Cardinality(Of(k)) = Outstanding(file[k])
    /\ \A k \in Kinds \ Opening :
         run.pc # "down" => Cardinality(Of(k)) <= mem[k].live

\* Shutdown never takes the hardware from under posted work: while an operation
\* or a beat polls, its queues, memory region and protection domain exist and
\* the slab is mapped - unless the provider had refused to destroy that queue pair before.
HardwareOutlivesWork ==
    \A p \in Peers :
        op[p] = "poll" \/ (hb.pc = "poll" /\ hb.p = p)
          => \/ {PD, MR, CQ(p), QP(p)} \subseteq mine /\ mapped
             \/ QP(p) \in stuck

\* slab.Close waits for no operation and clears data only after the unmapping, so
\* operations touch memory that is gone, even ones whose range check comes after
\* the unmapping.  The race ends with data: whoever touches that memory later had
\* its range checked before, and a reduction whose exchange outlives the slab
\* checks again and stops.
TouchedOnlyInRace == touched \subseteq raced

\* Once its context is done the daemon exits, whatever its clients, the peers
\* and the provider do.
ShutdownEnds == stopped ~> run.pc = "down"
===============================================================================
