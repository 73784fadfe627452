-------------------------- MODULE MCGoogleOutbound --------------------------
(* Small instances of GoogleOutbound. *)
EXTENDS GoogleOutbound, TLC

CONSTANTS i1, w1, w2

MCItems == {i1}
OneWorker == {w1}
TwoWorkers == {w1, w2}
=============================================================================
