---------------------------- MODULE StepBarrier ----------------------------
(***************************************************************************)
(* What the load generator promises about the order of a benchmark: its    *)
(* steps are separated by join points, and no worker starts step k + 1     *)
(* before every worker has reached join point k.                           *)
(***************************************************************************)
EXTENDS Naturals

CONSTANTS Party,   \* the workers
          Rounds   \* steps after the initial join point

VARIABLES arrived,  \* join points a party has reached
          released  \* join points the parties were let past

barrierVars == <<arrived, released>>

BarrierTypeOK ==
    /\ arrived \in [Party -> 0..(Rounds + 1)]
    /\ released \in 0..(Rounds + 1)

BarrierInit ==
    /\ arrived = [p \in Party |-> 0]
    /\ released = 0

\* A party that was let past all earlier join points reaches the next one.
Arrive(p) ==
    /\ arrived[p] = released
    /\ released <= Rounds
    /\ arrived' = [arrived EXCEPT ![p] = @ + 1]
    /\ UNCHANGED released

\* Every party is at the join point: the step is over.
Release ==
    /\ \A p \in Party : arrived[p] = released + 1
    /\ released' = released + 1
    /\ UNCHANGED arrived

BarrierNext == Release \/ \E p \in Party : Arrive(p)

BarrierSpec == BarrierInit /\ [][BarrierNext]_barrierVars
=============================================================================
