------------------------------ MODULE MCPanel -------------------------------
(***************************************************************************)
(* One port and one sending peer; a poll and the refresh of a button may   *)
(* overtake each other.                                                    *)
(***************************************************************************)
EXTENDS Panel

CONSTANTS web, r1, s1

OnePort == {web}
OnePoll == {r1}
OneSender == {s1}
=============================================================================
