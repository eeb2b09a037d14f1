---------------------------- MODULE BridgeElYsf ----------------------------
(***************************************************************************)
(* The EchoLink <-> YSF bridge of src/bridge_el.c (mode echolink-ysf): who *)
(* has the half-duplex slot, the EL -> YSF lane of ModeConv, and the timers*)
(* that end a call nobody ends.                                            *)
(*                                                                         *)
(* A timer is the Boolean "its time is over"; the action that lets it run  *)
(* out is taken at any moment, EL_HANG_MS only once the emitter has had the*)
(* time to send what was queued (700 ms against 90 ms) if Steady.          *)
(*                                                                         *)
(* The YSF -> EL lane is drained in the handler that fills it and ends no  *)
(* call by its tags, so it is left out; so are PCM, AMBE and names.        *)
(***************************************************************************)
EXTENDS BridgeEl

CONSTANTS
  Steady,    \* TRUE: the emitter keeps up with what is queued
  MaxYsf,    \* bound: units queued towards YSF before the EL side pauses
  CapYsf     \* units the ring towards YSF takes (357)

ASSUME ElYsfAssumption ==
  /\ Steady \in BOOLEAN
  /\ MaxYsf \in Nat
  /\ CapYsf \in Nat /\ CapYsf >= 5
  /\ MaxYsf + MaxPcm + 6 <= CapYsf

VARIABLES
  ysfEnding,  \* ysf_ending
  ysfAmbe,    \* ysf_ambe_count
  toYsf,      \* the ModeConv lane towards YSF
  down        \* the last kind of frame sent to the reflector

ysfVars == <<call, ysfEnding, toYsf, ysfAmbe, pcm, timers, rxLeft, down>>

YsfTypeOK ==
  /\ call \in {"idle", "el", "peer"}
  /\ ysfEnding \in BOOLEAN
  /\ toYsf \in Lanes
  /\ ysfAmbe \in 0..4
  /\ pcm \in 0..MaxPcm
  /\ quiet \in BOOLEAN /\ cooling \in BOOLEAN /\ rxQuiet \in BOOLEAN
  /\ rxLeft \in 0..MaxRx
  /\ down \in {"none", "HEADER", "DATA", "EOT"}

\* bridge_el_init.
YsfInit ==
  /\ call = "idle"
  /\ ysfEnding = FALSE
  /\ toYsf = EmptyLane
  /\ ysfAmbe = 0
  /\ pcm = 0
  /\ quiet = FALSE /\ cooling = FALSE /\ rxQuiet = FALSE
  /\ rxLeft = MaxRx
  /\ down = "none"

-----------------------------------------------------------------------------
(* EchoLink -> YSF *)

\* Fault: the header is not queued.
AnnouncedNot == EmptyLane

\* bridge_el_begin_el_to_ysf: modeconv_reset, then the header.
Announced == PutHeader(EmptyLane, CapYsf)

\* bridge_el_process_el_to_ysf without the slot: the PCM stays in its ring,
\* which drops what it has no room for.
YsfElWaits ==
  /\ call = "peer" \/ ysfEnding
  /\ pcm' = IF pcm < MaxPcm THEN pcm + 1 ELSE pcm
  /\ UNCHANGED <<call, ysfEnding, toYsf, ysfAmbe, timers, rxLeft, down>>

\* ... after an EL call has just ended: residual audio is dropped.
YsfElCooldown ==
  /\ call = "idle" /\ ~ysfEnding
  /\ cooling
  /\ pcm' = 0
  /\ ysfAmbe' = 0
  /\ quiet' = FALSE
  /\ UNCHANGED <<call, ysfEnding, toYsf, cooling, rxQuiet, rxLeft, down>>

\* Fault: a YSF frame is queued one vocoder frame late, past the buffer's end.
FullFramesLate(n) == IF n = 0 THEN 0 ELSE (n - 1) \div 5

\* Of n vocoder frames in ysf_ambe_buf, the YSF frames that are full and queued.
FullFrames(n) == n \div 5

\* ... with the slot free or its own: of the frames kept in the ring and the new
\* ones, good are encoded and the vocoder fails on the others; three failures
\* in a row (wedged) throw the partial YSF frame away.
YsfElVoice(new, good, wedged) ==
  /\ call # "peer" /\ ~ysfEnding
  /\ call = "idle" => ~cooling
  /\ toYsf.n + 5 <= MaxYsf
  /\ pcm + new > 0
  /\ good <= pcm + new
  /\ wedged => pcm + new - good >= 3
  /\ LET opens == call = "idle" /\ good > 0
         total == (IF opens THEN 0 ELSE ysfAmbe) + good
     IN  /\ call' = IF opens THEN "el" ELSE call
         /\ toYsf' = PutData(IF opens THEN Announced ELSE toYsf,
                             5 * FullFrames(total), CapYsf)
         /\ ysfAmbe' = IF wedged THEN 0 ELSE total - 5 * FullFrames(total)
  /\ pcm' = 0
  /\ quiet' = FALSE
  /\ UNCHANGED <<ysfEnding, cooling, rxQuiet, rxLeft, down>>

\* bridge_el_ysf_reheader_if_talker_changed: SDES names another talker.
Reheader ==
  /\ call = "el" /\ ~ysfEnding
  /\ toYsf.n + 1 <= MaxYsf
  /\ toYsf' = PutHeader(toYsf, CapYsf)
  /\ UNCHANGED <<call, ysfEnding, ysfAmbe, pcm, timers, rxLeft, down>>

\* Something is queued that bridge_el_emit_ysf_from_conv would send.
Pending == toYsf.n > 0 /\ toYsf # GetRest(toYsf, 5)

\* Fault: the end of the call leaves ysf_ending set.
CallOverKeepsEnding ==
  /\ call' = "idle"
  /\ ysfAmbe' = 0
  /\ pcm' = 0
  /\ toYsf' = EmptyLane
  /\ cooling' = TRUE
  /\ UNCHANGED ysfEnding

\* The EOT branch of bridge_el_emit_ysf_from_conv.
CallOver ==
  /\ call' = "idle"
  /\ ysfEnding' = FALSE
  /\ ysfAmbe' = 0
  /\ pcm' = 0
  /\ toYsf' = EmptyLane
  /\ cooling' = TRUE

\* bridge_el_tick, YSF_FRAME_MS over: bridge_el_emit_ysf_from_conv.
EmitYsf ==
  /\ call = "el"
  /\ Pending
  /\ \/ /\ GetTag(toYsf, 5) \in {"HEADER", "DATA"}
        /\ down' = GetTag(toYsf, 5)
        /\ toYsf' = GetRest(toYsf, 5)
        /\ UNCHANGED <<call, ysfEnding, ysfAmbe, pcm, cooling>>
     \/ /\ GetTag(toYsf, 5) = "EOT"
        /\ down' = "EOT"
        /\ CallOver
  /\ UNCHANGED <<quiet, rxQuiet, rxLeft>>

\* bridge_el_tick, EL_HANG_MS over: bridge_el_end_ysf_call.
ElHang ==
  /\ call = "el" /\ ~ysfEnding
  /\ quiet
  /\ Steady => ~Pending
  /\ ysfEnding' = TRUE
  /\ toYsf' = PutEot(toYsf, 5, CapYsf)
  /\ UNCHANGED <<call, ysfAmbe, pcm, timers, rxLeft, down>>

-----------------------------------------------------------------------------
(* YSF -> EchoLink *)

\* A YSF frame takes the slot.  bridge_el_end_ysf_call marks an EL call as
\* ending and queues its EOT, which modeconv_reset then wipes.
TakeSlot ==
  /\ call' = "peer"
  /\ ysfEnding' = (ysfEnding \/ call = "el")
  /\ toYsf' = EmptyLane
  /\ rxQuiet' = FALSE

\* bridge_el_on_ysfd, HEADER: always a call of its own.
YsfHeader ==
  /\ Received
  /\ TakeSlot
  /\ UNCHANGED <<ysfAmbe, pcm, quiet, cooling, down>>

\* bridge_el_on_ysfd, COMMUNICATIONS: a late join, or the call goes on.
YsfVoice ==
  /\ Received
  /\ IF call = "peer" THEN rxQuiet' = FALSE /\ UNCHANGED <<call, ysfEnding, toYsf>>
                     ELSE TakeSlot
  /\ UNCHANGED <<ysfAmbe, pcm, quiet, cooling, down>>

\* bridge_el_on_ysfd, TERMINATOR: drains what is left and frees the slot.
YsfTerminator ==
  /\ Received
  /\ call = "peer"
  /\ call' = "idle"
  /\ toYsf' = EmptyLane
  /\ UNCHANGED <<ysfEnding, ysfAmbe, pcm, timers, down>>

\* Fault: the hang time is not looked at.
YsfRxHangNever == FALSE /\ UNCHANGED ysfVars

\* bridge_el_tick, YSF_RX_HANG_MS over: the stream died without a terminator.
YsfRxHang ==
  /\ call = "peer"
  /\ rxQuiet
  /\ call' = "idle"
  /\ toYsf' = EmptyLane
  /\ UNCHANGED <<ysfEnding, ysfAmbe, pcm, timers, rxLeft, down>>

-----------------------------------------------------------------------------
(* Time *)

YsfQuietElapses ==
  /\ call = "el" /\ ~quiet
  /\ Steady => ~Pending
  /\ quiet' = TRUE
  /\ UNCHANGED <<call, ysfEnding, toYsf, ysfAmbe, pcm, cooling, rxQuiet, rxLeft, down>>

YsfCooldownElapses ==
  /\ cooling
  /\ cooling' = FALSE
  /\ UNCHANGED <<call, ysfEnding, toYsf, ysfAmbe, pcm, quiet, rxQuiet, rxLeft, down>>

YsfRxQuietElapses ==
  /\ call = "peer" /\ ~rxQuiet
  /\ rxQuiet' = TRUE
  /\ UNCHANGED <<call, ysfEnding, toYsf, ysfAmbe, pcm, quiet, cooling, rxLeft, down>>

-----------------------------------------------------------------------------

YsfFromEl ==
  \/ YsfElWaits \/ YsfElCooldown \/ Reheader
  \/ \E new \in 0..1, good \in 0..(MaxPcm + 1), wedged \in BOOLEAN :
       YsfElVoice(new, good, wedged)

FromYsf == YsfHeader \/ YsfVoice \/ YsfTerminator

YsfTick == EmitYsf \/ ElHang \/ YsfRxHang

YsfTime == YsfQuietElapses \/ YsfCooldownElapses \/ YsfRxQuietElapses

YsfNext == YsfFromEl \/ FromYsf \/ YsfTick \/ YsfTime

YsfSpec == YsfInit /\ [][YsfNext]_ysfVars

\* The main loop comes round and time passes; nobody has to talk.
YsfLiveSpec ==
  /\ YsfSpec
  /\ WF_ysfVars(EmitYsf)
  /\ WF_ysfVars(ElHang)
  /\ WF_ysfVars(YsfRxHang)
  /\ WF_ysfVars(YsfRxQuietElapses)

-----------------------------------------------------------------------------
(* Properties *)

\* What the reflector hears of a new call begins with a header.
HeaderFirst ==
  [][(down \in {"none", "EOT"} /\ down' # down) => (down' = "HEADER")]_ysfVars

\* An EL call that is ending ends and clears ysf_ending, unless a YSF call takes
\* the slot meanwhile.
DrainEnds == (ysfEnding /\ call = "el") ~> (~ysfEnding \/ call = "peer")

\* "ModeConv EOT queued; paced YSFD drain in progress" (bridge_el.h:56): what
\* ysf_ending announces comes to an end.
YsfEndingEnds == ysfEnding ~> (~ysfEnding)
=============================================================================
