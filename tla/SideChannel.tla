------------------------------ MODULE SideChannel ------------------------------
(***************************************************************************)
(* internal/tcpchan: the TCP connection of every other rank to rank 0.     *)
(* up[q] and down[q] are the frames in flight on the link of rank q, ends[q]*)
(* the endpoints that are still open.  A frame is the name of the call that *)
(* wrote it (the code sends no name); reads and writes of whole frames are *)
(* atomic.  The callers decide what a read, a write or a failure does next. *)
(***************************************************************************)
EXTENDS Naturals, Sequences, FiniteSets

CONSTANT N   \* c.size

VARIABLES up, down, ends

sideVars == <<up, down, ends>>
Links == 1 .. N - 1

SideInit ==
    /\ up = [q \in Links |-> <<>>]
    /\ down = [q \in Links |-> <<>>]
    /\ ends = [q \in Links |-> {}]

\* dial connects; accept and hello follow.
Connect(q) ==
    /\ ends' = [ends EXCEPT ![q] = {0, q}]
    /\ up' = [up EXCEPT ![q] = <<"hello">>]
    /\ UNCHANGED down

\* The endpoint of rank r on the link of rank q, and the queues it uses.
Far(r, q) == IF r = 0 THEN q ELSE 0
Incoming(r, q) == IF r = 0 THEN up[q] ELSE down[q]
IsOpen(r, q) == r \in ends[q]

\* A read takes the oldest frame; with none left and the far end closed it
\* fails, as does every use of a closed socket.
CanRead(r, q) == IsOpen(r, q) /\ Incoming(r, q) # <<>>
ReadBroken(r, q) == \/ ~IsOpen(r, q)
                    \/ Incoming(r, q) = <<>> /\ ~IsOpen(Far(r, q), q)
TakeFrame(r, q) ==
    /\ CanRead(r, q)
    /\ IF r = 0 THEN up' = [up EXCEPT ![q] = Tail(@)] /\ UNCHANGED down
                ELSE down' = [down EXCEPT ![q] = Tail(@)] /\ UNCHANGED up
    /\ UNCHANGED ends

\* A write to a peer that has closed is accepted by the kernel or refused.
CanWrite(r, q) == IsOpen(r, q)
WriteBroken(r, q) == ~IsOpen(r, q) \/ ~IsOpen(Far(r, q), q)
PutFrame(r, q, frame) ==
    /\ CanWrite(r, q)
    /\ IF r = 0 THEN down' = [down EXCEPT ![q] = Append(@, frame)] /\ UNCHANGED up
                ELSE up' = [up EXCEPT ![q] = Append(@, frame)] /\ UNCHANGED down
    /\ UNCHANGED ends

\* Close of rank r: the hub closes every link, another rank its own.
CloseEnds(r) ==
    /\ ends' = [q \in Links |-> IF r \in {0, q} THEN ends[q] \ {r} ELSE ends[q]]
    /\ UNCHANGED <<up, down>>
===============================================================================
