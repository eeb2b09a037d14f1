---------------------------- MODULE BridgeElDmr ----------------------------
(***************************************************************************)
(* The EchoLink <-> DMR bridge of src/bridge_el.c (mode echolink-dmr): who *)
(* has the half-duplex slot, the EL -> DMR lane of ModeConv, the paced end *)
(* of a call, its preemption, and the connect PTT on the same uplink.      *)
(*                                                                         *)
(* A timer is the Boolean "its time is over"; pacing clocks are not        *)
(* modelled.  el_rf_id is set when an EL call opens and cleared when it    *)
(* ends, so it adds nothing to call.  PCM, AMBE and names are left out.    *)
(* up is a history variable, the DMRD frames the last sending step sent.   *)
(***************************************************************************)
EXTENDS BridgeEl

CONSTANTS
  Own,      \* stream ids new_stream_id draws
  Remote,   \* stream ids of other stations' DMR calls
  NoStream, \* stream id 0
  Clear,    \* [dmr] clear_dynamic_tg
  Flaps,    \* TRUE: the DMR link may go down again
  MaxQueue, \* bound: units queued towards DMR before the EL side pauses
  CapDmr    \* units the ring towards DMR takes (499)

ASSUME ElDmrAssumption ==
  /\ NoStream \notin Own \cup Remote
  /\ \E s, t, u \in Own : s # t /\ t # u /\ s # u
  /\ Clear \in BOOLEAN
  /\ Flaps \in BOOLEAN
  /\ MaxQueue \in Nat
  /\ CapDmr \in Nat /\ MaxQueue + MaxPcm <= CapDmr

VARIABLES
  ending,        \* dmr_ending
  ambe,          \* el_ambe_count
  dmrUp, wasUp,  \* peer_dmr_connected, dmr_was_connected
  frames,        \* dmr_voice_frames % 6, counted in both directions
  stream,        \* dmr_stream_id
  rxStream,      \* dmr_rx_stream_id
  toDmr,         \* the ModeConv lane towards DMR
  ptt,           \* connect_ptt_*
  up             \* frames of the last step that sent any (history)

links  == <<dmrUp, wasUp>>
audio  == <<toDmr, ambe, pcm>>
vars   == <<links, call, ending, frames, stream, rxStream, audio, ptt, timers,
            rxLeft, up>>

Streams == Own \cup Remote \cup {NoStream}

Frames == [kind : {"VHEAD", "VOICE", "VTERM"}, n : 0..5, stream : Streams,
           tg : {"tg", "4000"}]

PttStates == [active : BOOLEAN, phase : 0..1, frames : 0..5,
              tg : {"tg", "4000"}, clearing : BOOLEAN]

TypeOK ==
  /\ dmrUp \in BOOLEAN /\ wasUp \in BOOLEAN
  /\ call \in {"idle", "el", "peer"}
  /\ ending \in BOOLEAN
  /\ frames \in 0..5
  /\ stream \in Streams
  /\ rxStream \in Streams
  /\ toDmr \in Lanes
  /\ ambe \in 0..2
  /\ pcm \in 0..MaxPcm
  /\ ptt \in PttStates
  /\ quiet \in BOOLEAN /\ cooling \in BOOLEAN /\ rxQuiet \in BOOLEAN
  /\ rxLeft \in 0..MaxRx
  /\ up \in Seq(Frames)

NoPtt == [active |-> FALSE, phase |-> 0, frames |-> 0, tg |-> "tg",
          clearing |-> FALSE]

\* bridge_el_init.
Init ==
  /\ dmrUp = FALSE /\ wasUp = FALSE
  /\ call = "idle"
  /\ ending = FALSE
  /\ frames = 0
  /\ stream = NoStream
  /\ rxStream = NoStream
  /\ toDmr = EmptyLane
  /\ ambe = 0
  /\ pcm = 0
  /\ ptt = NoPtt
  /\ quiet = FALSE /\ cooling = FALSE /\ rxQuiet = FALSE
  /\ rxLeft = MaxRx
  /\ up = <<>>

-----------------------------------------------------------------------------
(* Sending on the DMR uplink *)

\* new_stream_id: taken never to repeat an id still in use.
Fresh == Own \ ({stream} \cup {up[i].stream : i \in 1..Len(up)})

\* bridge_el_tx_tg.
TxTg == IF ptt.active THEN ptt.tg ELSE "tg"

\* bridge_el_send_dmrd.
Dmrd(kind, n) == [kind |-> kind, n |-> n, stream |-> stream, tg |-> TxTg]

-----------------------------------------------------------------------------
(* Connect PTT *)

\* bridge_el_connect_ptt_begin_stream.
PttStream(tg, clearing) ==
  [active |-> TRUE, phase |-> 0, frames |-> 0, tg |-> tg,
   clearing |-> clearing]

\* bridge_el_poll_connect_ptt on the rising edge: bridge_el_start_connect_ptt
\* and, as last_dmr_tx was cleared, the header at once.
PttStart(s) ==
  /\ dmrUp /\ ~wasUp
  /\ wasUp' = TRUE
  /\ IF call # "idle"
     THEN UNCHANGED <<stream, ptt, up>>
     ELSE LET tg == IF Clear THEN "4000" ELSE "tg"
          IN  /\ s \in Fresh
              /\ stream' = s
              /\ ptt' = [PttStream(tg, Clear) EXCEPT !.phase = 1]
              /\ up' = <<[kind |-> "VHEAD", n |-> 0, stream |-> s, tg |-> tg]>>
  /\ UNCHANGED <<dmrUp, call, ending, frames, rxStream, audio, timers, rxLeft>>

\* ... while the link is down.
PttLinkDown ==
  /\ ~dmrUp
  /\ wasUp
  /\ wasUp' = FALSE
  /\ ptt' = NoPtt
  /\ UNCHANGED <<dmrUp, call, ending, frames, stream, rxStream, audio, timers,
                 rxLeft, up>>

\* This tick has polled the connect PTT: nothing else asks whether the link is
\* up, so the call paths below also send while it is down.
Polled == dmrUp = wasUp

\* bridge_el_emit_connect_ptt, phase 0: the header of the follow-on stream.
PttHeader ==
  /\ Polled
  /\ ptt.active /\ ptt.phase = 0
  /\ ptt' = [ptt EXCEPT !.phase = 1]
  /\ up' = <<Dmrd("VHEAD", 0)>>
  /\ UNCHANGED <<links, call, ending, frames, stream, rxStream, audio, timers,
                 rxLeft>>

\* ... phase 1, less than CONNECT_PTT_MS after the start.
PttVoice ==
  /\ Polled
  /\ ptt.active /\ ptt.phase = 1
  /\ ptt' = [ptt EXCEPT !.frames = (@ + 1) % 6]
  /\ up' = <<Dmrd("VOICE", ptt.frames)>>
  /\ UNCHANGED <<links, call, ending, frames, stream, rxStream, audio, timers,
                 rxLeft>>

\* bridge_el_connect_ptt_finish, CONNECT_PTT_MS after the start.
PttFinish(s) ==
  /\ Polled
  /\ ptt.active /\ ptt.phase = 1
  /\ s \in Fresh
  /\ up' = [i \in 1..((6 - ptt.frames) % 6) |-> Dmrd("VOICE", ptt.frames + i - 1)]
             \o <<Dmrd("VTERM", 0)>>
  /\ IF ptt.clearing
     THEN ptt' = PttStream("tg", FALSE) /\ stream' = s
     ELSE ptt' = NoPtt /\ UNCHANGED stream
  /\ UNCHANGED <<links, call, ending, frames, rxStream, audio, timers, rxLeft>>

-----------------------------------------------------------------------------
(* EchoLink -> DMR *)

\* bridge_el_process_el_audio without the slot: the PCM stays in its ring,
\* which drops what it has no room for.
ElWaits ==
  /\ call = "peer" \/ ending
  /\ pcm' = IF pcm < MaxPcm THEN pcm + 1 ELSE pcm
  /\ UNCHANGED <<links, call, ending, frames, stream, rxStream, toDmr, ambe,
                 ptt, timers, rxLeft, up>>

\* ... after an EL call has just ended: residual audio is dropped.
ElCooldown ==
  /\ call = "idle"
  /\ cooling
  /\ pcm' = 0
  /\ ambe' = 0
  /\ quiet' = FALSE
  /\ UNCHANGED <<links, call, ending, frames, stream, rxStream, toDmr, ptt,
                 cooling, rxQuiet, rxLeft, up>>

\* Fault: a DMR burst is queued one vocoder frame late, past the buffer's end.
FullBurstsLate(n) == IF n = 0 THEN 0 ELSE (n - 1) \div 3

\* Of n vocoder frames in el_ambe_buf, the DMR bursts that are full and queued.
FullBursts(n) == n \div 3

\* ... with the slot free or its own: of the frames kept in the ring and the new
\* ones, good are encoded and the vocoder fails on the others; three failures
\* in a row (wedged) throw the partial DMR burst away.
ElVoice(new, good, wedged) ==
  /\ call # "peer" /\ ~ending
  /\ call = "idle" => ~cooling
  /\ toDmr.n + 3 <= MaxQueue
  /\ pcm + new > 0
  /\ good <= pcm + new
  /\ wedged => pcm + new - good >= 3
  /\ toDmr' = PutData(toDmr, 3 * FullBursts(ambe + good), CapDmr)
  /\ ambe' = IF wedged THEN 0
             ELSE ambe + good - 3 * FullBursts(ambe + good)
  /\ pcm' = 0
  /\ quiet' = FALSE
  /\ UNCHANGED <<links, call, ending, frames, stream, rxStream, ptt, cooling,
                 rxQuiet, rxLeft, up>>

\* bridge_el_pace_dmr_tx, the first burst of a call: bridge_el_emit_dmr_voice
\* opens it.  The burst's place in the superframe was read from
\* dmr_voice_frames before that is set to zero.
OpenCall(s) ==
  /\ Polled
  /\ call = "idle" /\ ~ptt.active
  /\ GetTag(toDmr, 3) = "DATA"
  /\ s \in Fresh
  /\ call' = "el"
  /\ stream' = s
  /\ frames' = 1
  /\ toDmr' = EmptyLane
  /\ up' = << [kind |-> "VHEAD", n |-> 0, stream |-> s, tg |-> "tg"],
              [kind |-> "VOICE", n |-> frames, stream |-> s, tg |-> "tg"] >>
  /\ UNCHANGED <<links, ending, rxStream, ambe, pcm, ptt, timers, rxLeft>>

\* ... the next ones, DMR_FRAME_MS apart.
PaceDmrTx ==
  /\ Polled
  /\ call = "el" /\ ~ending /\ ~ptt.active
  /\ GetTag(toDmr, 3) = "DATA"
  /\ toDmr' = GetRest(toDmr, 3)
  /\ up' = <<Dmrd("VOICE", frames)>>
  /\ frames' = (frames + 1) % 6
  /\ UNCHANGED <<links, call, ending, stream, rxStream, ambe, pcm, ptt, timers,
                 rxLeft>>

\* bridge_el_tick, EL_HANG_MS over: bridge_el_begin_dmr_end.
BeginDmrEnd ==
  /\ call = "el" /\ ~ending
  /\ quiet
  /\ ending' = TRUE
  /\ ambe' = 0
  /\ pcm' = 0
  /\ toDmr' = EmptyLane
  /\ UNCHANGED <<links, call, frames, stream, rxStream, ptt, timers, rxLeft,
                 up>>

\* Fault: dmr_ending stays set.
FinishDmrEndKeepsEnding(next) ==
  /\ call' = next
  /\ frames' = 0
  /\ ambe' = 0
  /\ pcm' = 0
  /\ toDmr' = EmptyLane
  /\ cooling' = TRUE
  /\ UNCHANGED ending

\* bridge_el_finish_dmr_end; next is who has the slot afterwards.
FinishDmrEnd(next) ==
  /\ call' = next
  /\ ending' = FALSE
  /\ frames' = 0
  /\ ambe' = 0
  /\ pcm' = 0
  /\ toDmr' = EmptyLane
  /\ cooling' = TRUE

\* Fault: the terminator does not wait for the end of the superframe.
PaceDmrEndUnpadded ==
  /\ Polled
  /\ ending /\ call = "el"
  /\ up' = <<Dmrd("VTERM", 0)>>
  /\ FinishDmrEnd("idle")
  /\ UNCHANGED <<links, stream, rxStream, ptt, quiet, rxQuiet, rxLeft>>

\* bridge_el_pace_dmr_end: silence to the end of the superframe, one burst per
\* DMR_FRAME_MS, then the terminator.
PaceDmrEnd ==
  /\ Polled
  /\ ending /\ call = "el"
  /\ IF frames # 0
     THEN /\ up' = <<Dmrd("VOICE", frames)>>
          /\ frames' = (frames + 1) % 6
          /\ UNCHANGED <<call, ending, audio, cooling>>
     ELSE /\ up' = <<Dmrd("VTERM", 0)>>
          /\ FinishDmrEnd("idle")
  /\ UNCHANGED <<links, stream, rxStream, ptt, quiet, rxQuiet, rxLeft>>

-----------------------------------------------------------------------------
(* DMR -> EchoLink *)

\* bridge_el_on_dmrd, VHEAD: a repeat of the call's own, or a call that takes
\* the slot, from an EL call with bridge_el_end_dmr_call.
DmrHeader(s) ==
  /\ Received
  /\ rxQuiet' = FALSE
  /\ IF call = "peer" /\ s = rxStream
     THEN UNCHANGED <<call, ending, frames, rxStream, audio, cooling, up>>
     ELSE /\ rxStream' = s
          /\ IF call = "el"
             THEN up' = <<Dmrd("VTERM", 0)>> /\ FinishDmrEnd("peer")
             ELSE /\ call' = "peer"
                  /\ frames' = 0
                  /\ UNCHANGED <<ending, audio, cooling, up>>
  /\ UNCHANGED <<links, stream, ptt, quiet>>

\* The slot of a DMR call is given back.
FreeSlot ==
  /\ call = "peer"
  /\ call' = "idle"
  /\ frames' = 0
  /\ rxStream' = NoStream

\* ... VTERM, whatever its stream.
DmrTerminator ==
  /\ Received
  /\ FreeSlot
  /\ UNCHANGED <<links, ending, stream, audio, ptt, timers, up>>

\* ... voice: nothing without a header before it.
DmrVoice ==
  /\ Received
  /\ call = "peer"
  /\ rxQuiet' = FALSE
  /\ frames' = (frames + 1) % 6
  /\ UNCHANGED <<links, call, ending, stream, rxStream, audio, ptt, quiet,
                 cooling, up>>

\* bridge_el_tick, DMR_RX_HANG_MS over: the stream died without a VTERM.
DmrRxHang ==
  /\ rxQuiet
  /\ FreeSlot
  /\ UNCHANGED <<links, ending, stream, audio, ptt, timers, rxLeft, up>>

-----------------------------------------------------------------------------
(* Time, and the link as peer_dmr reports it *)

QuietElapses ==
  /\ ~quiet
  /\ quiet' = TRUE
  /\ UNCHANGED <<links, call, ending, frames, stream, rxStream, audio, ptt,
                 cooling, rxQuiet, rxLeft, up>>

CooldownElapses ==
  /\ cooling
  /\ cooling' = FALSE
  /\ UNCHANGED <<links, call, ending, frames, stream, rxStream, audio, ptt,
                 quiet, rxQuiet, rxLeft, up>>

RxQuietElapses ==
  /\ call = "peer" /\ ~rxQuiet
  /\ rxQuiet' = TRUE
  /\ UNCHANGED <<links, call, ending, frames, stream, rxStream, audio, ptt,
                 quiet, cooling, rxLeft, up>>

DmrLink ==
  /\ dmrUp => Flaps
  /\ Polled
  /\ dmrUp' = ~dmrUp
  /\ UNCHANGED <<wasUp, call, ending, frames, stream, rxStream, audio, ptt,
                 timers, rxLeft, up>>

-----------------------------------------------------------------------------

FromEl ==
  \/ ElWaits \/ ElCooldown
  \/ \E new \in 0..1, good \in 0..(MaxPcm + 1), wedged \in BOOLEAN :
       ElVoice(new, good, wedged)

FromDmr == (\E s \in Remote : DmrHeader(s)) \/ DmrTerminator \/ DmrVoice

Ptt ==
  \/ \E s \in Own : PttStart(s) \/ PttFinish(s)
  \/ PttLinkDown \/ PttHeader \/ PttVoice

Tick ==
  \/ \E s \in Own : OpenCall(s)
  \/ PaceDmrTx \/ BeginDmrEnd \/ PaceDmrEnd \/ DmrRxHang

Time == QuietElapses \/ CooldownElapses \/ RxQuietElapses

Next == FromEl \/ FromDmr \/ Ptt \/ Tick \/ Time \/ DmrLink

Spec == Init /\ [][Next]_vars

\* The main loop comes round and time passes; nobody has to talk, and the link
\* may flap (so a paced step may be due only now and then).
LiveSpec ==
  /\ Spec
  /\ SF_vars(PaceDmrEnd)
  /\ WF_vars(DmrRxHang)
  /\ WF_vars(RxQuietElapses)
  /\ WF_vars(PttLinkDown)
  /\ WF_vars(\E s \in Own : PttStart(s))
  /\ SF_vars(PttHeader)
  /\ SF_vars(\E s \in Own : PttFinish(s))

-----------------------------------------------------------------------------
(* Properties *)

\* g may follow f on the uplink: a stream begins with a header, its voice counts
\* on from 0, it goes to one talkgroup and ends with its terminator.
Follows(f, g) ==
  IF g.kind = "VHEAD"
  THEN g.stream # f.stream
  ELSE /\ g.stream = f.stream /\ g.tg = f.tg
       /\ f.kind # "VTERM"
       /\ g.kind = "VOICE" => g.n = IF f.kind = "VOICE" THEN (f.n + 1) % 6 ELSE 0

\* A terminator that leaves inside a superframe.
Cuts(f, g) == g.kind = "VTERM" /\ f.kind = "VOICE" /\ f.n # 5

\* The DMRD frames the bridge sends form well-formed streams however calls, the
\* connect PTT and link losses interleave, and only a DMR call that takes the
\* slot cuts one short ("Immediate VTERM (no pad burst)").
UplinkWellFormed ==
  [][up' # up =>
       /\ IF up = <<>> THEN up'[1].kind = "VHEAD"
          ELSE /\ Follows(up[Len(up)], up'[1])
               /\ Cuts(up[Len(up)], up'[1]) => call = "el" /\ call' = "peer"
       /\ \A i \in 1..(Len(up') - 1) :
            Follows(up'[i], up'[i + 1]) /\ ~Cuts(up'[i], up'[i + 1])]_vars

\* An EL call that is ending ends, padding included.
EndingEnds == ending ~> (~ending)
=============================================================================
