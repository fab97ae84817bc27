----------------------------- MODULE MCSignals -----------------------------
(* Two signals, the numbers next to them, one sender on another CPU. *)
EXTENDS Signals

CONSTANTS q1, e1, e2

MCSigArg == {-1, 0, 1, 2}
MCEax == {-1, 0}

=============================================================================
