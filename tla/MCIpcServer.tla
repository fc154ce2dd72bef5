------------------------------ MODULE MCIpcServer ------------------------------
(* Instances of IpcServer for TLC. *)
EXTENDS IpcServer

\* The daemon makes both pools of one size, so completion queues run out first;
\* the store allows more of them, and then the queue pairs do.
OnePair == {<<1, 1>>}
OneOfEither == {<<1, 1>>, <<1, 2>>}

\* Connections are alike.
Alike == Permutations(Clients)
===============================================================================
