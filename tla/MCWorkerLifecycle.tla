------------------------- MODULE MCWorkerLifecycle -------------------------
(* A small deployment of the worker for TLC: keys are numbers. *)
EXTENDS WorkerLifecycle

CONSTANTS a1, a2

MCAuthority == {a1}
MCTwoAuthorities == {a1, a2}
MCSigner == 1 .. 9
MCNone == {}
=============================================================================
