-------------------------- MODULE MCLoadGenerator --------------------------
(***************************************************************************)
(* Instances of LoadGenerator for TLC.                                     *)
(***************************************************************************)
EXTENDS LoadGenerator, TLC

CONSTANTS w1, w2, c1, c2, c3

TwoWorkers == {w1, w2}
ThreeClients == {c1, c2, c3}
TwoOnFirstWorker == (c1 :> w1) @@ (c2 :> w1) @@ (c3 :> w2)

\* A matrix is written as one sequence of kinds per client, row 0 first.
Matrix(rows) ==
    [c \in DOMAIN rows |-> [r \in 0..(Len(rows[c]) - 1) |-> rows[c][r + 1]]]

\* One parallel element: the task of c1 completes the parent, the tasks of c2
\* (on the same worker) and c3 (on the other one) are eternal.
ParallelJoins == (0 :> 0) @@ (1 :> 2)
ParallelAlloc == Matrix(
       (c1 :> <<"join", "completing", "join">>)
    @@ (c2 :> <<"join", "eternal",    "join">>)
    @@ (c3 :> <<"join", "eternal",    "join">>))

TwoClients == {c1, c2}
OnePerWorker == (c1 :> w1) @@ (c2 :> w2)

\* Two parallel elements, the second with more sub-tasks than clients: c3 has
\* a second row of tasks before the join point.
StepsJoins == (0 :> 0) @@ (1 :> 2) @@ (2 :> 5)
StepsAlloc == Matrix(
       (c1 :> <<"join", "completing", "join", "completing", "none",   "join">>)
    @@ (c2 :> <<"join", "eternal",    "join", "normal",     "none",   "join">>)
    @@ (c3 :> <<"join", "eternal",    "join", "normal",     "normal", "join">>))

\* The second element alone, with two clients.
TwoRowJoins == (0 :> 0) @@ (1 :> 3)
TwoRowCompletingAlloc == Matrix(
       (c1 :> <<"join", "completing", "none",   "join">>)
    @@ (c2 :> <<"join", "normal",     "normal", "join">>))
=============================================================================
