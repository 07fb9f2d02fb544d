---------------------------- MODULE MCDashboard -----------------------------
(***************************************************************************)
(* A friend f, whom the user may join from the friends list or by Steam    *)
(* ID, and a stranger s.                                                   *)
(***************************************************************************)
EXTENDS Dashboard

CONSTANTS f, s

Both == {f, s}
OnlyF == {f}
=============================================================================
