------------------------------ MODULE MCPeers ------------------------------
(***************************************************************************)
(* The two UDP clients for TLC.  [bridge] mode says which of them exist:   *)
(* the DMR client alone in echolink-dmr, the YSF client alone in           *)
(* echolink-ysf.  The one that does not exist is one whose socket was      *)
(* never opened, and nothing happens to it.  (In ysf-dmr both are open.    *)
(* They share the alarm and the loop that is late for both, and nothing    *)
(* else, so that each of them does there what it does alone.)              *)
(***************************************************************************)
EXTENDS PeerDmr, PeerYsf

dmrOnly == <<running, host, status, phase, pongAge, holdoff, network, master>>
ysfOnly == <<ysfRunning, linked, pending, rxAge, ysfNetwork, known>>
peers   == <<dmrOnly, ysfOnly, clock, faults>>

\* A client that was never opened.
Closed == running = FALSE /\ host = "DISCONNECTED" /\ status = "DISCONNECTED"
YsfClosed == ysfRunning = FALSE /\ linked = FALSE /\ pending = FALSE

MCInit ==
  \/ /\ Init
     /\ YsfClosed /\ rxAge = 0 /\ known = FALSE
     /\ toReflector = <<>> /\ toClient = <<>>
  \/ /\ YsfInit
     /\ Closed /\ phase = 0 /\ pongAge = 0 /\ holdoff = 0 /\ master = "none"
     /\ toMaster = <<>> /\ toPeer = <<>>

MCNext ==
  \/ TickLogin /\ UNCHANGED ysfOnly
  \/ TickKeepaliveLost /\ UNCHANGED ysfOnly
  \/ TickLoginLost /\ UNCHANGED ysfOnly
  \/ Rx /\ UNCHANGED ysfOnly
  \/ Alarm /\ UNCHANGED ysfOnly
  \/ Sigint /\ UNCHANGED ysfOnly
  \/ MasterRx /\ UNCHANGED ysfOnly
  \/ MasterVoice /\ UNCHANGED ysfOnly
  \/ MasterReject /\ UNCHANGED ysfOnly
  \/ MasterRestart /\ UNCHANGED ysfOnly
  \/ Lose /\ UNCHANGED ysfOnly
  \/ Duplicate /\ UNCHANGED ysfOnly
  \/ Second /\ UNCHANGED ysfOnly
  \/ TickReconnect /\ UNCHANGED dmrOnly
  \/ TickLost /\ UNCHANGED dmrOnly
  \/ YsfRx /\ UNCHANGED dmrOnly
  \/ YsfAlarm /\ UNCHANGED dmrOnly
  \/ YsfSigint /\ UNCHANGED dmrOnly
  \/ ReflectorRx /\ UNCHANGED dmrOnly
  \/ ReflectorVoice /\ UNCHANGED dmrOnly
  \/ ReflectorRestart /\ UNCHANGED dmrOnly
  \/ YsfLose /\ UNCHANGED dmrOnly
  \/ YsfSecond /\ UNCHANGED dmrOnly

MCSpec == MCInit /\ [][MCNext]_peers /\ Fairness /\ YsfFairness
=============================================================================
