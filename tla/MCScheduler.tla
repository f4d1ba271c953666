---------------------------- MODULE MCScheduler ----------------------------
(* Scheduler on a small instance: moments that pass, calls and faults are at most *)
(* MaxEvents in all.                                                              *)
EXTENDS Scheduler

CONSTANT MaxEvents

Few == now + calls + faults <= MaxEvents

MCSpec == Init /\ [][Next /\ Few']_vars /\ Fairness
=============================================================================
