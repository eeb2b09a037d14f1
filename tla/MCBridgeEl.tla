----------------------------- MODULE MCBridgeEl -----------------------------
(***************************************************************************)
(* The two EchoLink bridges for TLC: the mode of bridge_el_t is picked at  *)
(* the start, and what only the other mode has stays as bridge_el_init     *)
(* left it.                                                                *)
(***************************************************************************)
EXTENDS BridgeElDmr, BridgeElYsf

VARIABLE mode  \* [bridge] mode: "dmr" for echolink-dmr, "ysf" for echolink-ysf

dmrOnly == <<ending, ambe, dmrUp, wasUp, frames, stream, rxStream, toDmr, ptt, up>>
ysfOnly == <<ysfEnding, ysfAmbe, toYsf, down>>
mcVars  == <<vars, ysfVars, mode>>

MCInit == Init /\ YsfInit /\ mode \in {"dmr", "ysf"}

InDmr == mode = "dmr" /\ UNCHANGED <<ysfOnly, mode>>
InYsf == mode = "ysf" /\ UNCHANGED <<dmrOnly, mode>>

MCNext ==
  \/ FromEl /\ InDmr
  \/ FromDmr /\ InDmr
  \/ Ptt /\ InDmr
  \/ Tick /\ InDmr
  \/ Time /\ InDmr
  \/ DmrLink /\ InDmr
  \/ YsfFromEl /\ InYsf
  \/ FromYsf /\ InYsf
  \/ YsfTick /\ InYsf
  \/ YsfTime /\ InYsf

\* The fairness of the mode's own LiveSpec.
MCFairness ==
  /\ SF_mcVars(PaceDmrEnd /\ InDmr)
  /\ WF_mcVars(DmrRxHang /\ InDmr)
  /\ WF_mcVars(RxQuietElapses /\ InDmr)
  /\ WF_mcVars(PttLinkDown /\ InDmr)
  /\ WF_mcVars((\E s \in Own : PttStart(s)) /\ InDmr)
  /\ SF_mcVars(PttHeader /\ InDmr)
  /\ SF_mcVars((\E s \in Own : PttFinish(s)) /\ InDmr)
  /\ WF_mcVars(EmitYsf /\ InYsf)
  /\ WF_mcVars(ElHang /\ InYsf)
  /\ WF_mcVars(YsfRxHang /\ InYsf)
  /\ WF_mcVars(YsfRxQuietElapses /\ InYsf)

MCSpec == MCInit /\ [][MCNext]_mcVars /\ MCFairness
=============================================================================
