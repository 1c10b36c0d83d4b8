---------------------------- MODULE MCSimulation ----------------------------
(* Model values and bounds for Simulation: "0" and "1" and four more names. *)
EXTENDS Simulation

MCDenoms == 0 .. 5
=============================================================================
