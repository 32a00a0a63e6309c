-------------------------- MODULE MCProgressReporter --------------------------
(* ProgressReporter on a small instance: two texts, five waits.         *)
EXTENDS ProgressReporter, TLC

CONSTANTS pending, issued
=============================================================================
