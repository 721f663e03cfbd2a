-------------------------- MODULE MCOrchestration --------------------------
(***************************************************************************)
(* Instances of Orchestration for TLC.                                     *)
(***************************************************************************)
EXTENDS Orchestration, TLC

CONSTANTS h1, h2, l1, l2, e1, e2, e3, local, remote

\* A local host with one node and a remote one with two.
LocalAndRemote == (h1 :> local) @@ (h2 :> remote)
OneAndTwoNodes == (h1 :> 1) @@ (h2 :> 2)

\* Two load hosts, the first with two executors.
TwoAndOneExecutors == (e1 :> l1) @@ (e2 :> l1) @@ (e3 :> l2)
TwoProcessors == <<2, 1>>

\* The executors of the first host are interchangeable.
ExecutorSymmetry == Permutations({e1, e2})

\* The least preparation that has a second processor.
OneExecutor == e1 :> l1
TaskEach == <<1, 1>>
=============================================================================
