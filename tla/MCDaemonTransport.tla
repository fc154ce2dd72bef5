--------------------------- MODULE MCDaemonTransport ---------------------------
(* Instances of DaemonTransport for TLC. *)
EXTENDS DaemonTransport

CONSTANTS a, b, c, z   \* names of goroutines

OneEach == (0 .. N - 1) \X {a}
TwoEach == (0 .. N - 1) \X {a, b}
ThreeAndOne == {<<0, a>>, <<0, b>>, <<0, c>>, <<1, z>>}

\* The goroutines of a rank are alike; the ranks are not, rank 0 is the hub.
TwoAlike == Permutations({a, b})
ThreeAlike == Permutations({a, b, c})
===============================================================================
