---------------------------- MODULE ModeConvLane ----------------------------
(***************************************************************************)
(* One lane of the repacker as a state machine: a producer that announces, *)
(* feeds and ends a call, and the paced consumer of bridge_tick.           *)
(*                                                                         *)
(* steady is a history variable: since the lane was last empty-handed by a *)
(* reset, producer and consumer have kept the step the converter is        *)
(* written for.  A header found the lane empty, an EOT found nothing but   *)
(* voice, and everything fitted.  Nothing in the code enforces it          *)
(* (datagrams arrive in bursts, and the consumer stands still while a link *)
(* is down), so the lane is checked both in step and out of it.            *)
(*                                                                         *)
(* The names start with Lane where a bridge has one of the same kind, so   *)
(* that proofs about a bridge can extend this module as well.              *)
(***************************************************************************)
EXTENDS ModeConv

CONSTANTS
  Group,   \* units per outgoing frame: 3 towards DMR, 5 towards YSF
  Frame,   \* units per incoming frame: 5 from YSF, 3 from DMR
  Cap,     \* whole units the ring takes
  MaxN     \* bound on the unit counter

ASSUME LaneAssumption ==
  /\ <<Group, Frame>> \in {<<3, 5>>, <<5, 3>>}
  /\ Cap \in Nat /\ Cap >= 5
  /\ MaxN \in Nat

VARIABLES
  q,      \* the lane: ring and unit counter
  got,    \* what a get has just returned
  steady  \* both sides have kept step since the last reset

laneVars == <<q, got, steady>>

LaneTypeOK ==
  /\ q \in Lanes
  /\ got \in Tags \cup {"NODATA"}
  /\ steady \in BOOLEAN

LaneInit == q = EmptyLane /\ got = "NODATA" /\ steady = TRUE

TagsIn(s) == {s[i] : i \in 1..Len(s)} \ {"DATA"}

LaneRoom(k) == q.n + k <= MaxN

Fits(k) == Len(q.buf) + k <= Cap

Header ==
  /\ LaneRoom(1)
  /\ q' = PutHeader(q, Cap)
  /\ got' = "NODATA"
  /\ steady' = (steady /\ q.buf = <<>>)

Voice ==
  /\ LaneRoom(Frame)
  /\ q' = PutData(q, Frame, Cap)  \* PutDmrVoice or PutYsfVoice
  /\ got' = "NODATA"
  /\ steady' = (steady /\ Fits(Frame))

Eot ==
  /\ LaneRoom(Group + 1)
  /\ q' = PutEot(q, Group, Cap)
  /\ got' = "NODATA"
  /\ steady' = (steady /\ TagsIn(q.buf) = {} /\ Fits(Group + 1))

Get ==
  /\ q.n > 0
  /\ q' = GetRest(q, Group)
  /\ got' = GetTag(q, Group)
  /\ UNCHANGED steady

\* modeconv_reset by a new call, or by the end of one.
Reset ==
  /\ q # EmptyLane
  /\ q' = EmptyLane
  /\ got' = "NODATA"
  /\ steady' = TRUE

LaneNext == Header \/ Voice \/ Eot \/ Get \/ Reset

LaneSpec == LaneInit /\ [][LaneNext]_laneVars

\* bridge_tick comes round and the link is up.
LiveLaneSpec == LaneSpec /\ WF_laneVars(Get)

-----------------------------------------------------------------------------

\* "queue ModeConv EOT; HEADER/CSD/EOT leave on paced emit" (bridge_el.c:1093):
\* an EOT is never inside a voice frame, where its tag is not looked at and
\* the end of the call would be lost.
EotLeaves == ~EotInFrame(q, Group)

\* As long as both sides keep step that is so: the grouping of getDMR and
\* getYSF and the padding of putYSFEOT and putDMREOT, which is worked out from
\* the counter and not from the ring, agree on where the frames begin.
EotIntact == steady => EotLeaves

\* The counter covers the ring: no unit is in the ring that the counter does
\* not know of, so none outlives its call, overflow or not.
CountCoversRing == q.n >= Len(q.buf)

\* An EOT that was put is handed out, or wiped by a reset: between sides that
\* keep step it neither stays in the lane nor leaves it unseen.
EotDelivered ==
  \A i \in 1..Cap :
    (i <= Len(q.buf) /\ q.buf[i] = "EOT")
      ~> (got = "EOT" \/ q = EmptyLane \/ ~steady)
=============================================================================
