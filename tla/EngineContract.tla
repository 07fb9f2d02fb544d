--------------------------- MODULE EngineContract ---------------------------
(***************************************************************************)
(* What the engine promises about the things its goroutines share, the     *)
(* device and the Steam bridge: they are built before the goroutines are   *)
(* started and freed after all of them have returned, and once somebody    *)
(* stops the engine they are freed in the end.                             *)
(***************************************************************************)
CONSTANT Users  \* the engine's goroutines

VARIABLES
  phase,  \* "closed", "open", "draining", "freed"
  users   \* the goroutines that have not returned

contractVars == << phase, users >>

ContractInit == phase = "closed" /\ users = {}

Open   == phase = "closed" /\ phase' = "open" /\ users' = Users
GiveUp == phase = "closed" /\ phase' = "freed" /\ UNCHANGED users
Drain  == phase = "open" /\ phase' = "draining" /\ UNCHANGED users
Free   == phase = "draining" /\ users = {} /\ phase' = "freed" /\ UNCHANGED users
Return(u) == u \in users /\ users' = users \ {u} /\ UNCHANGED phase

ContractNext == Open \/ GiveUp \/ Drain \/ Free \/ \E u \in Users : Return(u)

ContractSpec == ContractInit /\ [][ContractNext]_contractVars

ContractFairSpec ==
  /\ ContractSpec
  /\ WF_contractVars(Free)
  /\ \A u \in Users : WF_contractVars(phase = "draining" /\ Return(u))

=============================================================================
