------------------------------ MODULE BridgeEl ------------------------------
(***************************************************************************)
(* What the two EchoLink bridges of src/bridge_el.c have in common: the    *)
(* struct bridge_el_t serves either mode, with one half-duplex slot, one   *)
(* inbound EL ring and one set of timers.  BridgeElDmr and BridgeElYsf     *)
(* extend it, each with the fields and the operations of its own mode.     *)
(***************************************************************************)
EXTENDS ModeConv

CONSTANTS
  MaxPcm,    \* bound: 20 ms frames the inbound EL ring holds
  MaxRx      \* bound: frames a behaviour receives from the other network

ASSUME ElAssumption ==
  /\ MaxPcm \in Nat \ {0}
  /\ MaxRx \in Nat

VARIABLES
  call,     \* call_active: 0 "idle", 1 "el", 2 "peer" for a call towards EL
  pcm,      \* frames waiting in the inbound EL ring
  quiet,    \* EL_HANG_MS are over since last_el_speech
  cooling,  \* EL_TX_COOLDOWN_MS are not over since last_el_tx_end
  rxQuiet,  \* DMR_RX_HANG_MS or YSF_RX_HANG_MS are over since last_dmr_rx
  rxLeft    \* DMRD or YSFD frames still to come

timers == <<quiet, cooling, rxQuiet>>

\* A frame of the other network arrives.
Received ==
  /\ rxLeft > 0
  /\ rxLeft' = rxLeft - 1

(* A call towards EchoLink whose frames stop coming gives the slot back      *)
(* (DMR_RX_HANG_MS, YSF_RX_HANG_MS).                                         *)
SlotReleased == (call = "peer") ~> (call # "peer")
=============================================================================
