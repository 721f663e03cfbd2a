----------------------------- MODULE MCRedline -----------------------------
(***************************************************************************)
(* Instances of Redline for TLC.                                           *)
(***************************************************************************)
EXTENDS Redline, TLC

CONSTANTS w1, w2, c1, c2

TwoWorkers == {w1, w2}
TwoClients == {c1, c2}
OnePerWorker == (c1 :> w1) @@ (c2 :> w2)
=============================================================================
