------------------------------ MODULE MCEngine ------------------------------
(***************************************************************************)
(* One life of the engine with every failure, and the delays of            *)
(* internal/steam/backoff.go.                                              *)
(***************************************************************************)
EXTENDS Engine

minIdleSleep == 1
maxIdleSleep == 32
=============================================================================
