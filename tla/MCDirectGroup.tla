---------------------------- MODULE MCDirectGroup ----------------------------
(* Instances of DirectGroup for TLC: matrices, programs and faults. *)
EXTENDS DirectGroup

Call(op, peer, n, id) == [op |-> op, peer |-> peer, n |-> n, id |-> id, fits |-> TRUE]
Misfit == [Call("gather", 0, 1, 9) EXCEPT !.fits = FALSE]
Close == Call("close", 0, 0, 0)
Gather(id) == Call("gather", 0, 1, id)
Barrier(id) == Call("barrier", 0, 0, id)

\* The matrix with a device on the given undirected edges.
MatrixOf(edges) ==
    [s \in Ranks |-> [d \in Ranks |-> IF s # d /\ {s, d} \in edges THEN <<"dev">> ELSE <<>>]]
Complete == {{p, q} : p, q \in Ranks}
Line == {{p, p + 1} : p \in 0 .. N - 2}
Star == {{N - 1, p} : p \in Ranks}
Program(a, b) == [c \in Callers |-> IF c[2] = Main THEN a[c[1] + 1] ELSE b[c[1] + 1]]
Nothing == [r \in 1 .. N |-> <<>>]
All(calls) == [r \in 1 .. N |-> calls]
Scenario(edges, ring, prog, faults) ==
    [m |-> MatrixOf(edges), ring |-> ring, prog |-> prog, faults |-> faults]

\* Every matrix of up to two wires an edge, with nothing to do.
Paths == {<<>>, <<"dev">>, <<"dev", "dev">>}
Matrices ==
    {[m |-> m, ring |-> ring, prog |-> Program(Nothing, Nothing), faults |-> {}] :
       m \in {w \in [Ranks -> [Ranks -> Paths]] : \A r \in Ranks : w[r][r] = <<>>},
       ring \in BOOLEAN}

\* Collectives on each topology, ended by Close on every rank.
Collectives ==
    {Scenario(Complete, FALSE, Program(All(<<Barrier(1), Call("gather", 0, 2, 1), Close>>), Nothing), {}),
     Scenario(Complete, TRUE, Program(All(<<Gather(1), Gather(2), Close>>), Nothing), {}),
     Scenario(Line, FALSE, Program(All(<<Gather(1), Barrier(1), Close>>), Nothing), {}),
     Scenario(Star, FALSE, Program(All(<<Call("gather", 0, 2, 1), Gather(2)>>), Nothing), {})}

\* Two callers on a rank compete for the slot; streams; zero lengths.
Transfers ==
    {Scenario(Star, FALSE,
              Program(<< <<Call("recv", 2, 2, 1), Close>>, <<Call("recv", 2, 1, 2)>>,
                         <<Misfit, Call("send", 0, 2, 1), Call("send", 0, 0, 3)>> >>,
                      << <<>>, <<>>, <<Call("send", 1, 1, 2), Call("recv", 2, 1, 4), Call("recv", 0, 0, 5)>> >>), {}),
     Scenario(Line, FALSE,
              Program(<< <<Call("write", 1, 1, 1), Call("send", 1, 1, 3), Close>>,
                         <<Call("read", 0, 1, 1), Call("recv", 0, 1, 3), Close>>,
                         <<Call("send", 1, 1, 2)>> >>,
                      << <<>>, <<Call("recv", 2, 1, 2)>>, <<>> >>), {})}

\* Between ranks 0 and 1 of a line: transfers whose contexts end or whose work
\* fails, and the calls that follow on the same queue pair.
Pair(a, b, faults) ==
    Scenario(Line, FALSE, Program(<<a, b, <<>> >>, Nothing), faults)
Failures ==
    {Pair(<<Call("send", 1, 1, 1), Call("send", 1, 1, 2)>>,
          <<Call("recv", 0, 1, 1), Call("recv", 0, 1, 2)>>, {"cancel"}),
     Pair(<<Call("write", 1, 1, 1)>>, <<Call("read", 0, 1, 1), Call("recv", 0, 1, 2)>>, {"cancel"}),
     Pair(<<Call("send", 1, 1, 1), Call("write", 1, 1, 2)>>,
          <<Call("recv", 0, 1, 1), Call("read", 0, 1, 2)>>, {"drop"}),
     Scenario(Line, FALSE, Program(All(<<Gather(1)>>), Nothing), {"provider"}),
     Scenario(Complete, FALSE, Program(All(<<Barrier(1)>>), Nothing), {"cancel"})}

\* Close while another caller is in an operation, waits for the slot or begins.
Closings ==
    {Scenario(Complete, FALSE,
              Program(<< <<Call("send", 1, 1, 1)>>, <<Call("recv", 0, 1, 1), Close>>,
                         <<Call("send", 1, 1, 2)>> >>,
                      << <<>>, <<Call("recv", 2, 1, 2)>>, <<>> >>), {}),
     Scenario(Complete, FALSE,
              Program(All(<<Barrier(1)>>), << <<Close, Close>>, <<>>, <<>> >>), {}),
     Scenario(Line, FALSE,
              Program(<< <<Call("recv", 1, 1, 1)>>, <<>>, <<>> >>,
                      << <<Call("recv", 1, 1, 2)>>, <<>>, <<>> >>), {"cancel"})}

\* NewGroup fails on some ranks, at any point.
Boots == {Scenario(Complete, FALSE, Program(Nothing, Nothing), f) :
            f \in {{"expire", "device"}, {"device"}, {"wide"}}}

\* The second collective on a mesh.
SecondCollective ==
    {Scenario(Complete, FALSE, Program(All(<<Gather(1), Gather(2)>>), Nothing), {})}

DirectScenarios == UNION {Matrices, Collectives, Transfers, Failures, Closings, Boots}
===============================================================================
