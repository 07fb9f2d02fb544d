---------------------------- MODULE MCLifecycle -----------------------------
(***************************************************************************)
(* Two goroutines that call Start and Stop, over a few generations.        *)
(***************************************************************************)
EXTENDS Lifecycle

CONSTANTS c, d
Two == {c, d}
=============================================================================
