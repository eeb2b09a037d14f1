------------------------------ MODULE MCBridge ------------------------------
(***************************************************************************)
(* Bridge for TLC, with talkers on one network at a time: which one it is, *)
(* is picked at the start.  The other network's link stays up, once it is; *)
(* the one towards the listeners of a call may flap.                       *)
(***************************************************************************)
EXTENDS Bridge

VARIABLE talkers  \* the network that has talkers

MCInit == Init /\ talkers \in Sources

MCNext ==
  \/ talkers = "dmr" /\ FromDmr /\ UNCHANGED talkers
  \/ talkers = "ysf" /\ FromYsf /\ UNCHANGED talkers
  \/ BridgeTick /\ UNCHANGED talkers
  \/ (talkers = "ysf" \/ ~dmrUp) /\ DmrLink /\ UNCHANGED talkers
  \/ (talkers = "dmr" \/ ~ysfUp) /\ YsfLink /\ UNCHANGED talkers

mcVars == <<vars, talkers>>

MCSpec == MCInit /\ [][MCNext]_mcVars /\ Fairness
=============================================================================
