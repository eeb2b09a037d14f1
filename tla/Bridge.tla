------------------------------- MODULE Bridge -------------------------------
(***************************************************************************)
(* The YSF <-> DMR bridge of src/bridge.c: call state, stream identity,    *)
(* the connect PTT and the two paced emitters around ModeConv.             *)
(*                                                                         *)
(* One action per handler: a DMRD or a YSFD arrives (bridge_on_dmrd,       *)
(* bridge_on_ysfd), or bridge_tick finds a timer elapsed.  A tick in which *)
(* several timers have elapsed is the sequence of these steps, in the      *)
(* code's order.  Pacing clocks are not modelled: a timer that may have    *)
(* elapsed may be taken, except where the code forces the emission.        *)
(*                                                                         *)
(* Sequence numbers, talker names and frame payloads are abstracted away.  *)
(* up and down are history variables: the frames the last sending step put *)
(* on the DMR uplink and on the YSF link.  down also says when the header  *)
(* that would have been next on the YSF link was dropped.                  *)
(***************************************************************************)
EXTENDS ModeConv

CONSTANTS
  Own,      \* stream ids new_stream_id draws
  Remote,   \* stream ids of other stations' DMR calls, NoStream maybe among them
  NoStream, \* stream id 0
  Clear,    \* [dmr] clear_dynamic_tg
  Sources,  \* which networks have talkers: subset of {"dmr", "ysf"}
  Flaps,    \* which links may go down again: subset of {"dmr", "ysf"}
  Steady,   \* TRUE: an EOT arrives after its call's header has been sent
  CapDmr,   \* units the ring towards DMR takes (499)
  CapYsf,   \* units the ring towards YSF takes (357)
  MaxQueue  \* bound: units a lane holds before the senders pause

ASSUME BridgeAssumption ==
  /\ NoStream \notin Own
  /\ Own \cap Remote = {}
  /\ \E s, t, u \in Own : s # t /\ t # u /\ s # u
  /\ Clear \in BOOLEAN
  /\ Sources \subseteq {"dmr", "ysf"}
  /\ Flaps \subseteq {"dmr", "ysf"}
  /\ Steady \in BOOLEAN
  /\ CapDmr \in Nat /\ CapDmr >= 5
  /\ CapYsf \in Nat /\ CapYsf >= 5
  /\ MaxQueue \in Nat

VARIABLES
  dmrUp, ysfUp,  \* peer_dmr_connected, peer_ysf_linked
  wasUp,         \* dmr_was_connected
  call,          \* call_active
  stream,        \* dmr_stream_id
  talker,        \* ysf_rf_id is a YSF talker's own id: it goes on the uplink
  txFrames,      \* dmr_tx_frames % 6, the place in the DMR superframe
  gated,         \* dmr_last_dtype = DMRD_DTYPE_VHEAD (1)
  toDmr, toYsf,  \* the two ModeConv lanes
  ptt,           \* connect_ptt_*
  up, down       \* frames of the last step that sent any, or dropped one

links == <<dmrUp, ysfUp, wasUp>>
conv  == <<toDmr, toYsf>>
vars  == <<links, call, stream, talker, txFrames, gated, conv, ptt,
           up, down>>

Streams == Own \cup Remote \cup {NoStream}

Frames == [kind : {"VHEAD", "VOICE", "VTERM"}, n : 0..5, stream : Streams,
           tg : {"tg", "4000"}, src : {"bridge", "talker"}]

PttStates == [active : BOOLEAN, phase : 0..1, frames : 0..5,
              tg : {"tg", "4000"}, clearing : BOOLEAN]

TypeOK ==
  /\ dmrUp \in BOOLEAN /\ ysfUp \in BOOLEAN /\ wasUp \in BOOLEAN
  /\ call \in BOOLEAN
  /\ stream \in Streams
  /\ talker \in BOOLEAN
  /\ txFrames \in 0..5
  /\ gated \in BOOLEAN
  /\ toDmr \in Lanes
  /\ toYsf \in Lanes
  /\ ptt \in PttStates
  /\ up \in Seq(Frames)
  /\ down \in {"none", "HEADER", "DATA", "EOT", "dropped"}

NoPtt == [active |-> FALSE, phase |-> 0, frames |-> 0, tg |-> "tg",
          clearing |-> FALSE]

\* bridge_init and the two peers before their first login.
Init ==
  /\ dmrUp = FALSE /\ ysfUp = FALSE /\ wasUp = FALSE
  /\ call = FALSE
  /\ stream = NoStream
  /\ talker = FALSE
  /\ txFrames = 0
  /\ gated = FALSE
  /\ toDmr = EmptyLane
  /\ toYsf = EmptyLane
  /\ ptt = NoPtt
  /\ up = <<>>
  /\ down = "none"

-----------------------------------------------------------------------------
(* Sending on the DMR uplink *)

\* new_stream_id: 30 random bits, taken never to repeat an id still in use.
Fresh == Own \ ({stream} \cup {up[i].stream : i \in 1..Len(up)})

\* bridge_tx_tg.
TxTg == IF ptt.active THEN ptt.tg ELSE "tg"

\* The identity a frame goes out under: the YSF talker's, or the bridge's own.
RfId(known) == IF known THEN "talker" ELSE "bridge"

\* bridge_send_dmrd: identity, talkgroup and stream are read when it is sent.
Dmrd(kind, n, known) ==
  [kind |-> kind, n |-> n, stream |-> stream, tg |-> TxTg, src |-> RfId(known)]

Vhead3 == [i \in 1..3 |-> Dmrd("VHEAD", 0, talker)]

\* Fault: the terminator leaves in the middle of a superframe.
ClosingUnpadded(sent, known) == <<Dmrd("VTERM", 0, known)>>

\* Silence to the end of the superframe, then the terminator.
Closing(sent, known) ==
  [i \in 1..((6 - sent) % 6) |-> Dmrd("VOICE", sent + i - 1, known)]
    \o <<Dmrd("VTERM", 0, known)>>

-----------------------------------------------------------------------------
(* Connect PTT *)

PttStream(tg, clearing) ==
  [active |-> TRUE, phase |-> 0, frames |-> 0, tg |-> tg,
   clearing |-> clearing]

\* bridge_abort_connect_ptt: end the stream on the air, skip a follow-on one.
\* known: whose id ysf_rf_id is by then (a YSF header sets it before).
AbortConnectPtt(known) ==
  /\ ptt' = NoPtt
  /\ up' = IF ptt.active /\ ptt.phase > 0 THEN Closing(ptt.frames, known)
                                         ELSE up

\* bridge_poll_connect_ptt on the rising edge: unless a call is active, open a
\* stream and (last_dmr_tx was cleared) send its headers at once.
PttStart(s) ==
  /\ dmrUp /\ ~wasUp
  /\ wasUp' = TRUE
  /\ IF call
     THEN UNCHANGED <<stream, ptt, up>>
     ELSE /\ s \in Fresh
          /\ stream' = s
          /\ ptt' = [PttStream(IF Clear THEN "4000" ELSE "tg", Clear)
                       EXCEPT !.phase = 1]
          /\ up' = [i \in 1..3 |->
                      [kind |-> "VHEAD", n |-> 0, stream |-> s,
                       tg |-> IF Clear THEN "4000" ELSE "tg",
                       src |-> RfId(talker)]]
  /\ UNCHANGED <<dmrUp, ysfUp, call, talker, txFrames, gated, conv, down>>

\* bridge_poll_connect_ptt while the link is down.
PttLinkDown ==
  /\ ~dmrUp
  /\ wasUp \/ ptt.active
  /\ wasUp' = FALSE
  /\ ptt' = NoPtt
  /\ UNCHANGED <<dmrUp, ysfUp, call, stream, talker, txFrames, gated, conv,
                 up, down>>

\* The edge has been seen: bridge_tick reaches the paced emissions.
Polled == dmrUp /\ wasUp

\* bridge_emit_connect_ptt, phase 0: the headers of the follow-on stream.
PttHeader ==
  /\ Polled
  /\ ptt.active /\ ptt.phase = 0
  /\ ptt' = [ptt EXCEPT !.phase = 1]
  /\ up' = Vhead3
  /\ UNCHANGED <<links, call, stream, talker, txFrames, gated, conv, down>>

\* bridge_emit_connect_ptt, phase 1, less than CONNECT_PTT_MS after the start.
PttVoice ==
  /\ Polled
  /\ ptt.active /\ ptt.phase = 1
  /\ ptt' = [ptt EXCEPT !.frames = (@ + 1) % 6]
  /\ up' = <<Dmrd("VOICE", ptt.frames, talker)>>
  /\ UNCHANGED <<links, call, stream, talker, txFrames, gated, conv, down>>

\* Fault: the follow-on stream is taken for another clearing one.
PttFinishLoops(s) ==
  /\ Polled
  /\ ptt.active /\ ptt.phase = 1
  /\ s \in Fresh
  /\ up' = Closing(ptt.frames, talker)
  /\ IF ptt.clearing
     THEN ptt' = PttStream("tg", TRUE) /\ stream' = s
     ELSE ptt' = NoPtt /\ UNCHANGED stream
  /\ UNCHANGED <<links, call, talker, txFrames, gated, conv, down>>

\* bridge_connect_ptt_finish, CONNECT_PTT_MS after the start: close the stream
\* and, if it was the clearing one, open the one to the talkgroup.
PttFinish(s) ==
  /\ Polled
  /\ ptt.active /\ ptt.phase = 1
  /\ s \in Fresh
  /\ up' = Closing(ptt.frames, talker)
  /\ IF ptt.clearing
     THEN ptt' = PttStream("tg", FALSE) /\ stream' = s
     ELSE ptt' = NoPtt /\ UNCHANGED stream
  /\ UNCHANGED <<links, call, talker, txFrames, gated, conv, down>>

-----------------------------------------------------------------------------
(* Calls *)

\* Fault: bridge_reset_call leaves the duplicate-VHEAD gate as it was.
ResetCallKeepsGate ==
  /\ call' = FALSE
  /\ txFrames' = 0
  /\ talker' = FALSE
  /\ toDmr' = EmptyLane
  /\ toYsf' = EmptyLane
  /\ UNCHANGED gated

\* Fault: bridge_reset_call leaves the last talker's id in place.
ResetCallKeepsTalker ==
  /\ call' = FALSE
  /\ txFrames' = 0
  /\ gated' = FALSE
  /\ toDmr' = EmptyLane
  /\ toYsf' = EmptyLane
  /\ UNCHANGED talker

\* bridge_reset_call.
ResetCall ==
  /\ call' = FALSE
  /\ txFrames' = 0
  /\ talker' = FALSE
  /\ gated' = FALSE
  /\ toDmr' = EmptyLane
  /\ toYsf' = EmptyLane

\* bridge_tick, DMR_FRAME_MS elapsed: bridge_emit_dmr_from_conv.
EmitDmr ==
  /\ Polled /\ ysfUp
  /\ ~ptt.active
  /\ toDmr.n > 0
  /\ toDmr # GetRest(toDmr, 3)
  /\ LET tag == GetTag(toDmr, 3)
     IN  \/ /\ tag = "HEADER"
            /\ up' = Vhead3
            /\ toDmr' = GetRest(toDmr, 3)
            /\ UNCHANGED <<call, talker, txFrames, gated, toYsf>>
         \/ /\ tag = "DATA"
            /\ up' = <<Dmrd("VOICE", txFrames, talker)>>
            /\ txFrames' = (txFrames + 1) % 6
            /\ toDmr' = GetRest(toDmr, 3)
            /\ UNCHANGED <<call, talker, gated, toYsf>>
         \/ /\ tag = "EOT"
            /\ up' = Closing(txFrames, talker)
            /\ ResetCall
         \/ /\ tag = "NODATA"
            /\ toDmr' = GetRest(toDmr, 3)
            /\ UNCHANGED <<up, call, talker, txFrames, gated, toYsf>>
  /\ UNCHANGED <<links, stream, ptt, down>>

\* bridge_tick, YSF_FRAME_MS elapsed: bridge_emit_ysf_from_conv.
EmitYsf ==
  /\ Polled /\ ysfUp
  /\ toYsf.n > 0
  /\ toYsf # GetRest(toYsf, 5)
  /\ LET tag == GetTag(toYsf, 5)
     IN  \/ /\ tag \in {"HEADER", "DATA"}
            /\ down' = tag
            /\ toYsf' = GetRest(toYsf, 5)
            /\ UNCHANGED <<call, talker, txFrames, gated, toDmr>>
         \/ /\ tag = "EOT"
            /\ down' = tag
            /\ ResetCall
         \/ /\ tag = "NODATA"
            /\ toYsf' = GetRest(toYsf, 5)
            /\ UNCHANGED <<down, call, talker, txFrames, gated, toDmr>>
  /\ UNCHANGED <<links, stream, ptt, up>>

-----------------------------------------------------------------------------
(* A DMRD from the master *)

\* bridge_begin_dmr_to_ysf: modeconv_reset, then whatever the caller puts.
BeginDmrToYsf(s) ==
  /\ call' = TRUE
  /\ IF s # NoStream THEN stream' = s ELSE stream' \in Fresh
  /\ txFrames' = 0
  /\ toDmr' = EmptyLane

Room(q, k) == q.n + k <= MaxQueue

\* A VHEAD of stream s opens a call.
Opens(s) == ~call \/ (s # NoStream /\ s # stream)

\* VHEAD of stream s: a new call, unless it repeats the one being bridged;
\* the header is queued only on a transition of the frame type, new call or
\* not.
DmrHeader(s) ==
  /\ Room(toYsf, 1)
  /\ LET q == IF Opens(s) THEN EmptyLane ELSE toYsf
     IN  toYsf' = IF gated THEN q ELSE PutHeader(q, CapYsf)
  /\ IF Opens(s)
     THEN BeginDmrToYsf(s)
     ELSE UNCHANGED <<call, stream, txFrames, toDmr>>
  /\ gated' = TRUE
  /\ down' = IF Opens(s) /\ gated THEN "dropped" ELSE down
  /\ UNCHANGED <<links, talker, ptt, up>>

\* VTERM, whatever its stream: the end of the active call.
DmrTerminator ==
  /\ Room(toYsf, 6)
  /\ Steady => \A i \in 1..Len(toYsf.buf) : toYsf.buf[i] = "DATA"
  /\ toYsf' = IF call THEN PutEot(toYsf, 5, CapYsf) ELSE toYsf
  /\ gated' = FALSE
  /\ UNCHANGED <<links, call, stream, talker, txFrames, toDmr, ptt, up, down>>

\* A late entry announces itself, then its first frame.
LateEntry == PutDmrVoice(PutHeader(EmptyLane, CapYsf), CapYsf)

\* Fault: the late entry is not announced.
DmrVoiceUnannounced(s, second) ==
  /\ Room(toYsf, 4)
  /\ IF call
     THEN /\ toYsf' = PutDmrVoice(toYsf, CapYsf)
          /\ UNCHANGED <<call, stream, txFrames, toDmr>>
     ELSE /\ BeginDmrToYsf(s)
          /\ toYsf' = PutDmrVoice(EmptyLane, CapYsf)
  /\ gated' = second
  /\ UNCHANGED <<links, talker, ptt, up, down>>

\* A voice frame; the second burst of a superframe has the low nibble of b15
\* that a VHEAD has, and shuts the gate too.
DmrVoice(s, second) ==
  /\ Room(toYsf, 4)
  /\ IF call
     THEN /\ toYsf' = PutDmrVoice(toYsf, CapYsf)
          /\ UNCHANGED <<call, stream, txFrames, toDmr>>
     ELSE /\ BeginDmrToYsf(s)
          /\ toYsf' = LateEntry
  /\ gated' = second
  /\ UNCHANGED <<links, talker, ptt, up, down>>

-----------------------------------------------------------------------------
(* A YSFD from the reflector *)

\* The start of a YSF call in bridge_on_ysfd: it takes the uplink over.
BeginYsfToDmr(s, known) ==
  /\ AbortConnectPtt(known)
  /\ call' = TRUE
  /\ s \in Fresh
  /\ stream' = s
  /\ txFrames' = 0
  /\ toYsf' = EmptyLane

\* bridge_resolve_ysf_header: the talker has an id of its own, or goes out
\* under the bridge's (which is configured, so a header is never turned down).
Resolved == BOOLEAN

\* The header names the talker.
YsfHeader(s, known) ==
  /\ Room(toDmr, 1)
  /\ talker' = known
  /\ IF call
     THEN /\ toDmr' = PutHeader(toDmr, CapDmr)
          /\ UNCHANGED <<call, stream, txFrames, toYsf, ptt, up>>
     ELSE /\ BeginYsfToDmr(s, known)
          /\ toDmr' = PutHeader(EmptyLane, CapDmr)
  /\ UNCHANGED <<links, gated, down>>

YsfTerminator ==
  /\ Room(toDmr, 4)
  /\ Steady => \A i \in 1..Len(toDmr.buf) : toDmr.buf[i] = "DATA"
  /\ call
  /\ toDmr' = PutEot(toDmr, 3, CapDmr)
  /\ UNCHANGED <<links, call, stream, talker, txFrames, gated, toYsf, ptt,
                 up, down>>

\* Voice; without a header before it the call starts unannounced.
YsfVoice(s) ==
  /\ Room(toDmr, 5)
  /\ IF call
     THEN /\ toDmr' = PutYsfVoice(toDmr, CapDmr)
          /\ UNCHANGED <<call, stream, txFrames, toYsf, ptt, up>>
     ELSE /\ BeginYsfToDmr(s, talker)
          /\ toDmr' = PutYsfVoice(EmptyLane, CapDmr)
  /\ UNCHANGED <<links, talker, gated, down>>

-----------------------------------------------------------------------------
(* The links, as the peers report them *)

DmrLink ==
  /\ dmrUp => "dmr" \in Flaps
  /\ wasUp = dmrUp
  /\ dmrUp' = ~dmrUp
  /\ UNCHANGED <<ysfUp, wasUp, call, stream, talker, txFrames, gated, conv,
                 ptt, up, down>>

YsfLink ==
  /\ ysfUp => "ysf" \in Flaps
  /\ ysfUp' = ~ysfUp
  /\ UNCHANGED <<dmrUp, wasUp, call, stream, talker, txFrames, gated, conv,
                 ptt, up, down>>

-----------------------------------------------------------------------------

FromDmr ==
  /\ "dmr" \in Sources
  /\ \/ \E s \in Remote :
          \/ DmrHeader(s)
          \/ \E second \in BOOLEAN : DmrVoice(s, second)
     \/ DmrTerminator

\* peer_ysf_poll has marked the link up by the time it hands a frame over.
FromYsf ==
  /\ "ysf" \in Sources
  /\ ysfUp
  /\ \/ \E s \in Own : (\E known \in Resolved : YsfHeader(s, known)) \/ YsfVoice(s)
     \/ YsfTerminator

BridgeTick ==
  \/ \E s \in Own : PttStart(s) \/ PttFinish(s)
  \/ PttLinkDown \/ PttHeader \/ PttVoice
  \/ EmitDmr \/ EmitYsf

Next == FromDmr \/ FromYsf \/ BridgeTick \/ DmrLink \/ YsfLink

Spec == Init /\ [][Next]_vars

\* The main loop comes round, so a timer that has elapsed is seen; a peer that
\* is down logs in again.
Fairness ==
  /\ SF_vars(EmitDmr)
  /\ SF_vars(\E s \in Own : PttStart(s))
  /\ WF_vars(PttLinkDown)
  /\ SF_vars(PttHeader)
  /\ SF_vars(\E s \in Own : PttFinish(s))
  /\ WF_vars(~dmrUp /\ DmrLink)
  /\ WF_vars(~ysfUp /\ YsfLink)

-----------------------------------------------------------------------------
(* Properties *)

\* Between calls nothing of the last one is left: no queued unit that would be
\* sent as a call nobody makes, no talker id a connect PTT would go out under,
\* no superframe position, no VHEAD gate that would swallow the next call's
\* header (bridge_reset_call against every place that opens a call).
IdleIsClean ==
  ~call => /\ toDmr.n = 0 /\ toDmr.buf = <<>>
           /\ toYsf.n = 0 /\ toYsf.buf = <<>>
           /\ txFrames = 0
           /\ ~talker
           /\ ~gated

\* g may follow f on the uplink: a terminator ends the stream it belongs to, on
\* a superframe boundary; voice counts on within a stream and starts at 0 in
\* the next; a stream goes to one talkgroup, and is not resumed once ended.
Follows(f, g) ==
  /\ g.kind = "VTERM" => g.stream = f.stream /\ (f.kind = "VOICE" => f.n = 5)
  /\ g.kind = "VOICE" /\ f.stream # g.stream => g.n = 0
  /\ g.kind = "VOICE" /\ f.stream = g.stream /\ f.kind = "VOICE" =>
       g.n = (f.n + 1) % 6
  /\ f.kind = "VTERM" => g.stream # f.stream
  /\ g.stream = f.stream => g.tg = f.tg

\* The DMRD frames the bridge sends form well-formed streams, whichever way
\* the connect PTT, calls, aborts and link losses interleave.  The exception is
\* a connect PTT that a DMR call has lent its stream id to: it goes on under
\* the other station's (bridge_begin_dmr_to_ysf sets dmr_stream_id).
UplinkWellFormed ==
  [][up' # up /\ stream \in Own \cup {NoStream} =>
       /\ up # <<>> => Follows(up[Len(up)], up'[1])
       /\ \A i \in 1..(Len(up') - 1) : Follows(up'[i], up'[i + 1])]_vars

\* The talkgroup that clears dynamic ones is keyed up under the bridge's own
\* id, never under that of a talker of an earlier call.
ClearedByBridge ==
  \A i \in 1..Len(up) :
    up[i].tg = "4000" /\ up[i].kind = "VHEAD" => up[i].src = "bridge"

\* After a YSF terminator the next frame is a header: a call that has ended on
\* the YSF side stays silent until it, or another, is announced again.  The one
\* exception is a call whose own header was dropped, because the last DMRD
\* before it was a header of another stream or looked like one.
TerminatorThenHeader ==
  [][down = "EOT" /\ down' # down => down' \in {"HEADER", "dropped"}]_vars

\* "DMR->YSF ignore duplicate VHEAD" (bridge.c:1049): a header that is ignored
\* repeats one, so no call goes out with its voice first.  It need not repeat
\* one: once a VTERM was lost, the header of the next stream may be ignored.
OnlyDuplicatesIgnored == [][down = "dropped" => down' # "DATA"]_vars

\* Once its terminator is queued a YSF call ends: the EOT reaches the head of
\* the lane as a tag and bridge_reset_call runs.
CallEnds == (\E i \in 1..Len(toDmr.buf) : toDmr.buf[i] = "EOT") ~> ~call

\* A connect PTT ends, the follow-on one of clear_dynamic_tg included.
PttEnds == ptt.active ~> ~ptt.active
=============================================================================
