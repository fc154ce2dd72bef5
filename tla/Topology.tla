------------------------------- MODULE Topology -------------------------------
(***************************************************************************)
(* internal/topology/topology.go: which communication topology a device    *)
(* matrix supports.  A matrix m is a function of source and destination    *)
(* rank to the sequence of device names of that directed edge; "" stands   *)
(* for a name that is empty once trimmed, which is not a usable path.      *)
(***************************************************************************)
EXTENDS Naturals, Sequences, FiniteSets

Size(m) == Cardinality(DOMAIN m)
Edges(m) == {e \in (DOMAIN m) \X (DOMAIN m) : e[1] # e[2]}

usablePathCount(paths) == Cardinality({i \in DOMAIN paths : paths[i] # ""})
hasPath(paths) == usablePathCount(paths) > 0
Wires(m, e) == usablePathCount(m[e[1]][e[2]])

ValidateMesh(m) ==
    /\ Size(m) >= 2
    /\ \A e \in Edges(m) : hasPath(m[e[1]][e[2]]) /\ hasPath(m[e[2]][e[1]])

\* The edges of a ring or of a line, and no others, have the wires of 0 -> 1.
OnlyEdges(m, adjacent) ==
    /\ Size(m) >= 2
    /\ Wires(m, <<0, 1>>) # 0
    /\ \A e \in Edges(m) :
         Wires(m, e) = IF e \in adjacent THEN Wires(m, <<0, 1>>) ELSE 0

ValidateRing(m) ==
    OnlyEdges(m, {e \in Edges(m) : \/ e[2] = (e[1] + 1) % Size(m)
                                   \/ e[1] = (e[2] + 1) % Size(m)})

ValidateLine(m) ==
    OnlyEdges(m, {e \in Edges(m) : e[2] = e[1] + 1 \/ e[1] = e[2] + 1})

\* The ranks the search from rank 0 has seen after k rounds.
Seen(m) ==
    LET seen[k \in 0 .. Size(m)] ==
          IF k = 0 THEN {0}
          ELSE seen[k - 1] \cup {d \in DOMAIN m : \E s \in seen[k - 1] : hasPath(m[s][d])}
    IN  seen[Size(m)]

\* Fault: the search stops after the neighbours of rank 0.
FaultConnectedOneRound(m) ==
    /\ Size(m) >= 2
    /\ \A e \in Edges(m) : hasPath(m[e[1]][e[2]]) = hasPath(m[e[2]][e[1]])
    /\ DOMAIN m = {0} \cup {d \in DOMAIN m : hasPath(m[0][d])}

ValidateConnected(m) ==
    /\ Size(m) >= 2
    /\ \A e \in Edges(m) : hasPath(m[e[1]][e[2]]) = hasPath(m[e[2]][e[1]])
    /\ Seen(m) = DOMAIN m

\* The topologies a matrix is valid for, and the first one in the order of
\* preference ("unknown" is the error).
Valid(m) ==
    {t \in {"mesh", "ring", "line", "connected"} :
       CASE t = "mesh" -> ValidateMesh(m) [] t = "ring" -> ValidateRing(m)
         [] t = "line" -> ValidateLine(m) [] OTHER -> ValidateConnected(m)}

Choose(m, preferRing) ==
    LET order == (IF preferRing THEN <<"ring">> ELSE <<>>)
                   \o <<"mesh", "ring", "line", "connected", "unknown">>
        Usual(t) == t \in Valid(m) \cup {"unknown"}
    IN  Head(SelectSeq(order, Usual))

-------------------------------------------------------------------------------
\* What a usable matrix is, without a search: links work both ways and no set
\* of ranks is cut off from the others.
Usable(m) ==
    /\ Size(m) >= 2
    /\ \A e \in Edges(m) : (Wires(m, e) > 0) <=> (Wires(m, <<e[2], e[1]>>) > 0)
    /\ \A S \in (SUBSET DOMAIN m) \ {{}, DOMAIN m} :
         \E e \in Edges(m) : e[1] \in S /\ e[2] \notin S /\ Wires(m, e) > 0

\* What the name of a topology says of the neighbours of each rank, and that the
\* links of a ring or a line have the same number of wires.
Neighbours(m, r) == Cardinality({d \in DOMAIN m \ {r} : Wires(m, <<r, d>>) > 0})
SameWires(m) ==
    \A e, f \in Edges(m) : 0 \in {Wires(m, e), Wires(m, f)} \/ Wires(m, e) = Wires(m, f)
Fits(m, t) ==
    CASE t = "mesh" -> \A r \in DOMAIN m : Neighbours(m, r) = Size(m) - 1
      [] t = "ring" -> SameWires(m) /\ \A r \in DOMAIN m :
                         Neighbours(m, r) = IF Size(m) = 2 THEN 1 ELSE 2
      [] t = "line" -> SameWires(m) /\ \A r \in DOMAIN m :
                         Neighbours(m, r) = IF r \in {0, Size(m) - 1} THEN 1 ELSE 2
      [] t = "connected" -> \E r \in DOMAIN m : Neighbours(m, r) < Size(m) - 1
      [] OTHER -> TRUE
===============================================================================
