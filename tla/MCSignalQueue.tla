---------------------------- MODULE MCSignalQueue ----------------------------
(***************************************************************************)
(* Three signals and two producers at a queue of one: the producers can    *)
(* overshoot, and a third signal meets a full queue.                       *)
(***************************************************************************)
EXTENDS SignalQueue, TLC

CONSTANTS s1, s2, s3, p1, p2

MCSignals == {s1, s2, s3}
MCProducers == {p1, p2}
=============================================================================
