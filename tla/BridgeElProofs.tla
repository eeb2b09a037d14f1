--------------------------- MODULE BridgeElProofs ---------------------------
(***************************************************************************)
(* Proofs about the EchoLink bridges, for every set of stream ids, every   *)
(* configuration and every size of the rings and queues: types, the order  *)
(* of what is sent, and that the paced end of an EL call is never stuck.   *)
(*                                                                         *)
(* Both bridges are extended: the program runs one of the two, and what    *)
(* both keep in struct bridge_el_s is declared in BridgeEl.                *)
(***************************************************************************)
EXTENDS BridgeElDmr, BridgeElYsf, ModeConvProofs

-----------------------------------------------------------------------------
(* The EchoLink <-> DMR bridge: types *)

\* Of k units, those that do not fill a frame of g.
LEMMA Remainder ==
  ASSUME NEW k \in Nat, NEW g \in {3, 5}
  PROVE  /\ k \div g \in Nat
         /\ g * (k \div g) \in Nat /\ g * (k \div g) <= k
         /\ k - g * (k \div g) \in 0..(g - 1)
<1>1. CASE g = 3
  BY <1>1, Z3
<1>2. CASE g = 5
  BY <1>2, Z3
<1> QED
  BY <1>1, <1>2

\* The empty lane is a lane.
LEMMA EmptyLaneType == /\ EmptyLane \in Lanes
                       /\ EmptyLane.n = 0 /\ EmptyLane.buf = <<>>
BY DEF EmptyLane, Lanes, Tags

\* No PTT.
LEMMA NoPttType == NoPtt \in PttStates /\ ~NoPtt.active
BY DEF NoPtt, PttStates

\* bridge_el_connect_ptt_begin_stream starts one.
LEMMA PttStreamType ==
  ASSUME NEW tg \in {"tg", "4000"}, NEW clearing \in BOOLEAN
  PROVE  /\ PttStream(tg, clearing) \in PttStates
         /\ PttStream(tg, clearing).phase = 0
         /\ PttStream(tg, clearing).frames = 0
         /\ PttStream(tg, clearing).tg = tg
BY DEF PttStream, PttStates

\* Sending its header leaves a PTT in its second phase.
LEMMA PttHeaded ==
  ASSUME NEW p \in PttStates
  PROVE  LET r == [p EXCEPT !.phase = 1] IN
         /\ r \in PttStates /\ r.phase = 1
         /\ r.frames = p.frames /\ r.tg = p.tg /\ r.active = p.active
BY DEF PttStates

\* Sending voice counts its frames.
LEMMA PttFramed ==
  ASSUME NEW p \in PttStates, NEW k \in 0..5
  PROVE  LET r == [p EXCEPT !.frames = k] IN
         /\ r \in PttStates /\ r.phase = p.phase
         /\ r.frames = k /\ r.tg = p.tg /\ r.active = p.active
BY DEF PttStates

\* bridge_el_send_dmrd builds a frame.
LEMMA DmrdType ==
  ASSUME TypeOK, NEW kind \in {"VHEAD", "VOICE", "VTERM"}, NEW n \in 0..5
  PROVE  Dmrd(kind, n) \in Frames
<1>1. stream \in Streams
  BY DEF TypeOK
<1>2. TxTg \in {"tg", "4000"}
  BY DEF TypeOK, PttStates, TxTg
<1> QED
  BY <1>1, <1>2 DEF Dmrd, Frames

\* What it puts into one.
LEMMA DmrdFields ==
  ASSUME NEW kind, NEW n
  PROVE  /\ Dmrd(kind, n).kind = kind /\ Dmrd(kind, n).n = n
         /\ Dmrd(kind, n).stream = stream /\ Dmrd(kind, n).tg = TxTg
BY DEF Dmrd

\* What bridge_el_connect_ptt_finish sends: silence, and the terminator.
Closing ==
  [i \in 1..((6 - ptt.frames) % 6) |-> Dmrd("VOICE", ptt.frames + i - 1)]
    \o <<Dmrd("VTERM", 0)>>

\* Frame by frame.
LEMMA ClosingShape ==
  ASSUME TypeOK
  PROVE  LET k == (6 - ptt.frames) % 6
         IN  /\ Closing \in Seq(Frames)
             /\ Len(Closing) = k + 1
             /\ \A i \in 1..k : Closing[i] = Dmrd("VOICE", ptt.frames + i - 1)
             /\ Closing[k + 1] = Dmrd("VTERM", 0)
<1> DEFINE k == (6 - ptt.frames) % 6
           pad == [i \in 1..k |-> Dmrd("VOICE", ptt.frames + i - 1)]
           last == <<Dmrd("VTERM", 0)>>
<1>1. ptt.frames \in 0..5
  BY DEF TypeOK, PttStates
<1>2. k \in Nat /\ \A i \in 1..k : ptt.frames + i - 1 \in 0..5
  BY <1>1, Z3
<1>3. /\ \A i \in 1..k : Dmrd("VOICE", ptt.frames + i - 1) \in Frames
      /\ Dmrd("VTERM", 0) \in Frames
  BY <1>2, DmrdType
<1>4. Closing = pad \o last
  BY DEF Closing
<1> HIDE DEF k
<1>5. /\ pad \in Seq(Frames) /\ Len(pad) = k
      /\ \A i \in 1..k : pad[i] = Dmrd("VOICE", ptt.frames + i - 1)
  BY <1>2, <1>3
<1>6. last \in Seq(Frames) /\ Len(last) = 1 /\ last[1] = Dmrd("VTERM", 0)
  BY <1>3
<1> HIDE DEF pad, last
<1>7. /\ pad \o last \in Seq(Frames)
      /\ Len(pad \o last) = k + 1
      /\ \A i \in 1..(k + 1) :
           (pad \o last)[i] = IF i <= k THEN pad[i] ELSE last[i - k]
  <2>1. pad \o last \in Seq(Frames) /\ Len(pad \o last) = Len(pad) + Len(last)
    BY <1>5, <1>6, ConcatProperties
  <2>2. \A i \in 1..(Len(pad) + Len(last)) :
          (pad \o last)[i] = IF i <= Len(pad) THEN pad[i] ELSE last[i - Len(pad)]
    BY <1>5, <1>6, ConcatProperties
  <2> QED
    BY <1>2, <1>5, <1>6, <2>1, <2>2
<1>8. \A i \in 1..k : (pad \o last)[i] = pad[i]
  BY <1>2, <1>7
<1>9. (pad \o last)[k + 1] = last[1]
  BY <1>2, <1>7
<1> QED
  BY <1>4, <1>5, <1>6, <1>7, <1>8, <1>9 DEF k

\* bridge_el_init.
LEMMA InitType == Init => TypeOK
<1> SUFFICES ASSUME Init PROVE TypeOK
  OBVIOUS
<1>1. stream \in Streams /\ rxStream \in Streams
  BY DEF Init, Streams
<1>2. up \in Seq(Frames)
  BY DEF Init
<1>3. pcm \in 0..MaxPcm /\ rxLeft \in 0..MaxRx /\ frames \in 0..5 /\ ambe \in 0..2
  BY ElAssumption DEF Init
<1>4. toDmr \in Lanes /\ ptt \in PttStates
  BY EmptyLaneType, NoPttType DEF Init
<1> QED
  BY <1>1, <1>2, <1>3, <1>4 DEF Init, TypeOK

\* The connect PTT.
LEMMA PttType ==
  ASSUME TypeOK, Ptt
  PROVE  TypeOK'
<1>1. ptt \in PttStates /\ ptt.frames \in 0..5 /\ stream \in Streams
  BY DEF TypeOK, PttStates
<1>2. Fresh \subseteq Streams /\ Clear \in BOOLEAN
  BY ElDmrAssumption DEF Fresh, Streams
<1>3. SUFFICES /\ ptt' \in PttStates /\ stream' \in Streams
               /\ up' \in Seq(Frames) /\ wasUp' \in BOOLEAN
  <2>1. /\ UNCHANGED <<dmrUp, call, ending, frames, rxStream, rxLeft>>
        /\ UNCHANGED <<toDmr, ambe, pcm>> /\ UNCHANGED <<quiet, cooling, rxQuiet>>
    BY DEF Ptt, PttStart, PttFinish, PttLinkDown, PttHeader, PttVoice, links,
           audio, timers
  <2> QED
    BY <1>3, <2>1 DEF TypeOK
<1>4. ASSUME NEW s \in Own, PttStart(s)
      PROVE  /\ ptt' \in PttStates /\ stream' \in Streams
             /\ up' \in Seq(Frames) /\ wasUp' \in BOOLEAN
  <2>1. CASE call # "idle"
    BY <1>1, <1>4, <2>1 DEF PttStart, TypeOK
  <2>2. CASE call = "idle"
    <3> DEFINE tg == IF Clear THEN "4000" ELSE "tg"
    <3>1. s \in Streams /\ tg \in {"tg", "4000"}
      BY <1>2, <1>4, <2>2 DEF PttStart
    <3>2. [kind |-> "VHEAD", n |-> 0, stream |-> s, tg |-> tg] \in Frames
      BY <3>1 DEF Frames
    <3>3. [PttStream(tg, Clear) EXCEPT !.phase = 1] \in PttStates
      BY <1>2, <3>1, PttStreamType, PttHeaded
    <3>4. /\ stream' = s /\ wasUp' = TRUE
          /\ ptt' = [PttStream(tg, Clear) EXCEPT !.phase = 1]
          /\ up' = <<[kind |-> "VHEAD", n |-> 0, stream |-> s, tg |-> tg]>>
      BY <1>4, <2>2, Zenon DEF PttStart
    <3> HIDE DEF tg
    <3> QED
      BY <3>1, <3>2, <3>3, <3>4
  <2> QED
    BY <2>1, <2>2
<1>5. ASSUME NEW s \in Own, PttFinish(s)
      PROVE  /\ ptt' \in PttStates /\ stream' \in Streams
             /\ up' \in Seq(Frames) /\ wasUp' \in BOOLEAN
  <2>1. up' = Closing /\ Closing \in Seq(Frames)
    BY <1>5, ClosingShape DEF PttFinish, Closing
  <2>2. wasUp' \in BOOLEAN
    BY <1>5 DEF PttFinish, links, TypeOK
  <2>3. ptt' \in PttStates /\ stream' \in Streams
    BY <1>1, <1>2, <1>5, NoPttType, PttStreamType DEF PttFinish
  <2> QED
    BY <2>1, <2>2, <2>3
<1>6. CASE PttLinkDown
  BY <1>1, <1>6, NoPttType DEF PttLinkDown, TypeOK
<1>7. CASE PttHeader
  <2>1. Dmrd("VHEAD", 0) \in Frames
    BY DmrdType
  <2>2. ptt' \in PttStates
    BY <1>1, <1>7, PttHeaded DEF PttHeader
  <2> QED
    BY <1>1, <1>7, <2>1, <2>2 DEF PttHeader, links, TypeOK
<1>8. CASE PttVoice
  <2>1. Dmrd("VOICE", ptt.frames) \in Frames
    BY <1>1, DmrdType
  <2>2. (ptt.frames + 1) % 6 \in 0..5
    BY <1>1
  <2>3. ptt' \in PttStates
    BY <1>1, <1>8, <2>2, PttFramed DEF PttVoice
  <2> QED
    BY <1>1, <1>8, <2>1, <2>3 DEF PttVoice, links, TypeOK
<1> QED
  BY <1>4, <1>5, <1>6, <1>7, <1>8 DEF Ptt

\* EchoLink audio: what does not fill a burst stays in el_ambe_buf.
LEMMA ElType ==
  ASSUME TypeOK, FromEl
  PROVE  TypeOK'
<1>1. /\ MaxPcm \in Nat /\ MaxQueue \in Nat /\ CapDmr \in Nat
      /\ MaxQueue + MaxPcm <= CapDmr /\ 0 \in 0..MaxPcm /\ 0 \in 0..2
      /\ pcm \in 0..MaxPcm /\ ambe \in 0..2 /\ toDmr \in Lanes /\ quiet \in BOOLEAN
  BY ElDmrAssumption, ElAssumption DEF TypeOK
<1>2. /\ UNCHANGED <<call, ending, frames, stream, rxStream, ptt, rxLeft, up>>
      /\ UNCHANGED <<dmrUp, wasUp>> /\ UNCHANGED <<cooling, rxQuiet>>
  BY DEF FromEl, ElWaits, ElCooldown, ElVoice, links, timers
<1>3. SUFFICES /\ pcm' \in 0..MaxPcm /\ ambe' \in 0..2 /\ toDmr' \in Lanes
               /\ quiet' \in BOOLEAN
  BY <1>2, <1>3 DEF TypeOK
<1>4. CASE ElWaits
  <2>1. (IF pcm < MaxPcm THEN pcm + 1 ELSE pcm) \in 0..MaxPcm
    BY <1>1
  <2> QED
    BY <1>1, <1>4, <2>1 DEF ElWaits, timers
<1>5. CASE ElCooldown
  BY <1>1, <1>5, Zenon DEF ElCooldown
<1>6. ASSUME NEW new \in 0..1, NEW good \in 0..(MaxPcm + 1), NEW wedged \in BOOLEAN,
             ElVoice(new, good, wedged)
      PROVE  /\ pcm' \in 0..MaxPcm /\ ambe' \in 0..2 /\ toDmr' \in Lanes
             /\ quiet' \in BOOLEAN
  <2> DEFINE k == ambe + good
  <2>1. k \in Nat /\ k <= MaxPcm + 3
    BY <1>1
  <2>2. /\ 3 * (k \div 3) \in Nat /\ 3 * (k \div 3) <= k
        /\ k - 3 * (k \div 3) \in 0..2
    <3> HIDE DEF k
    <3> QED
      BY <2>1, Remainder
  <2>3. toDmr.n + 3 <= MaxQueue
    BY <1>6 DEF ElVoice
  <2>4. 3 <= MaxQueue
    BY <1>1, <2>3 DEF Lanes
  <2>5. 3 * (k \div 3) <= CapDmr
    <3> HIDE DEF k
    <3>1. k <= CapDmr
      BY <1>1, <2>1, <2>4
    <3> QED
      BY <1>1, <2>1, <2>2, <3>1
  <2>6. PutData(toDmr, 3 * (k \div 3), CapDmr) \in Lanes
    <3> HIDE DEF k
    <3> QED
      BY <1>1, <2>2, <2>5, PutDataType
  <2>7. /\ toDmr' = PutData(toDmr, 3 * (k \div 3), CapDmr)
        /\ ambe' = IF wedged THEN 0 ELSE k - 3 * (k \div 3)
        /\ pcm' = 0 /\ quiet' = FALSE
    <3>1. FullBursts(k) = k \div 3
      BY DEF FullBursts
    <3>2. toDmr' = PutData(toDmr, 3 * FullBursts(k), CapDmr)
      BY <1>6 DEF ElVoice
    <3>3. ambe' = IF wedged THEN 0 ELSE k - 3 * FullBursts(k)
      <4>1. ambe' = IF wedged THEN 0 ELSE ambe + (good - 3 * FullBursts(k))
        BY <1>6, Zenon DEF ElVoice
      <4>2. ambe + (good - 3 * FullBursts(k)) = k - 3 * FullBursts(k)
        BY <1>1, <2>1, <2>2, <3>1
      <4> QED
        BY <4>1, <4>2, Zenon
    <3>4. pcm' = 0 /\ quiet' = FALSE
      BY <1>6 DEF ElVoice
    <3> QED
      BY <3>1, <3>2, <3>3, <3>4
  <2> HIDE DEF k
  <2> QED
    BY <1>1, <2>2, <2>6, <2>7, Zenon
<1> QED
  BY <1>4, <1>5, <1>6 DEF FromEl

\* The end of an EL call (bridge_el_finish_dmr_end).
LEMMA FinishType ==
  ASSUME NEW next \in {"idle", "el", "peer"}, FinishDmrEnd(next)
  PROVE  /\ call' \in {"idle", "el", "peer"} /\ ending' \in BOOLEAN
         /\ frames' \in 0..5 /\ ambe' \in 0..2 /\ pcm' \in 0..MaxPcm
         /\ toDmr' \in Lanes /\ cooling' \in BOOLEAN
<1>1. 0 \in 0..5 /\ 0 \in 0..2 /\ 0 \in 0..MaxPcm
  BY ElAssumption
<1> QED
  BY <1>1, EmptyLaneType, Zenon DEF FinishDmrEnd

\* A DMRD that arrives.
LEMMA DmrType ==
  ASSUME TypeOK, FromDmr
  PROVE  TypeOK'
<1>1. rxLeft \in Nat /\ MaxRx \in Nat
  BY ElAssumption DEF TypeOK
<1>2. /\ UNCHANGED <<dmrUp, wasUp>> /\ UNCHANGED <<stream, ptt, quiet>>
      /\ Received
  BY DEF FromDmr, DmrHeader, DmrTerminator, DmrVoice, links, timers
<1>3. rxLeft' \in 0..MaxRx
  BY <1>1, <1>2 DEF Received, TypeOK
<1>4. Dmrd("VTERM", 0) \in Frames
  BY DmrdType
<1>5. SUFFICES /\ call' \in {"idle", "el", "peer"} /\ ending' \in BOOLEAN
               /\ frames' \in 0..5 /\ ambe' \in 0..2 /\ pcm' \in 0..MaxPcm
               /\ toDmr' \in Lanes /\ cooling' \in BOOLEAN
               /\ rxStream' \in Streams /\ rxQuiet' \in BOOLEAN
               /\ up' \in Seq(Frames)
  BY <1>2, <1>3, <1>5 DEF TypeOK
<1>6. ASSUME NEW s \in Remote, DmrHeader(s)
      PROVE  /\ call' \in {"idle", "el", "peer"} /\ ending' \in BOOLEAN
             /\ frames' \in 0..5 /\ ambe' \in 0..2 /\ pcm' \in 0..MaxPcm
             /\ toDmr' \in Lanes /\ cooling' \in BOOLEAN
             /\ rxStream' \in Streams /\ rxQuiet' \in BOOLEAN
             /\ up' \in Seq(Frames)
  <2>1. s \in Streams /\ rxQuiet' \in BOOLEAN
    BY <1>6 DEF Streams, DmrHeader
  <2>2. CASE call = "peer" /\ s = rxStream
    BY <1>6, <2>1, <2>2 DEF DmrHeader, audio, TypeOK
  <2>3. CASE ~(call = "peer" /\ s = rxStream) /\ call = "el"
    <3>1. rxStream' = s /\ up' = <<Dmrd("VTERM", 0)>> /\ FinishDmrEnd("peer")
      BY <1>6, <2>3 DEF DmrHeader
    <3>2. up' \in Seq(Frames)
      BY <1>4, <3>1
    <3> QED
      BY <2>1, <3>1, <3>2, FinishType
  <2>4. CASE ~(call = "peer" /\ s = rxStream) /\ call # "el"
    <3>1. /\ rxStream' = s /\ call' = "peer" /\ frames' = 0
          /\ UNCHANGED <<ending, toDmr, ambe, pcm, cooling, up>>
      BY <1>6, <2>4 DEF DmrHeader, audio
    <3> QED
      BY <2>1, <3>1 DEF TypeOK
  <2> QED
    BY <2>2, <2>3, <2>4
<1>7. CASE DmrTerminator
  <2>1. NoStream \in Streams
    BY DEF Streams
  <2> QED
    BY <1>7, <2>1 DEF DmrTerminator, FreeSlot, audio, timers, TypeOK
<1>8. CASE DmrVoice
  <2>1. (frames + 1) % 6 \in 0..5
    BY DEF TypeOK
  <2> QED
    BY <1>8, <2>1 DEF DmrVoice, audio, TypeOK
<1> QED
  BY <1>6, <1>7, <1>8 DEF FromDmr

\* The frame the call has reached is one of a superframe.
LEMMA FramesNext == TypeOK => frames \in 0..5 /\ (frames + 1) % 6 \in 0..5
BY DEF TypeOK

\* bridge_el_tick.
LEMMA TickType ==
  ASSUME TypeOK, Tick
  PROVE  TypeOK'
<1> USE FramesNext
<1>1. /\ UNCHANGED <<dmrUp, wasUp>> /\ UNCHANGED <<ptt, quiet, rxQuiet, rxLeft>>
  BY DEF Tick, OpenCall, PaceDmrTx, BeginDmrEnd, PaceDmrEnd, DmrRxHang, links,
         timers
<1> DEFINE Typed ==
             /\ call' \in {"idle", "el", "peer"} /\ ending' \in BOOLEAN
             /\ frames' \in 0..5 /\ ambe' \in 0..2 /\ pcm' \in 0..MaxPcm
             /\ toDmr' \in Lanes /\ cooling' \in BOOLEAN
             /\ stream' \in Streams /\ rxStream' \in Streams
             /\ up' \in Seq(Frames)
<1>2. SUFFICES Typed
  BY <1>1, <1>2 DEF TypeOK
<1>3. 0 \in 0..5 /\ 1 \in 0..5 /\ 0 \in 0..2 /\ 0 \in 0..MaxPcm
  BY ElAssumption
<1>4. /\ Dmrd("VTERM", 0) \in Frames
      /\ Dmrd("VOICE", frames) \in Frames
  BY <1>3, DmrdType
<1>5. << Dmrd("VTERM", 0) >> \in Seq(Frames) /\ << Dmrd("VOICE", frames) >> \in Seq(Frames)
  BY <1>4
<1>6. ASSUME NEW s \in Own, OpenCall(s) PROVE Typed
  <2>1. s \in Streams
    BY DEF Streams
  <2>2. /\ [kind |-> "VHEAD", n |-> 0, stream |-> s, tg |-> "tg"] \in Frames
        /\ [kind |-> "VOICE", n |-> frames, stream |-> s, tg |-> "tg"] \in Frames
    BY <1>3, <2>1 DEF Frames
  <2>3. up' \in Seq(Frames)
    BY <1>6, <2>2 DEF OpenCall
  <2>4. /\ call' = "el" /\ stream' = s /\ frames' = 1 /\ toDmr' = EmptyLane
        /\ UNCHANGED <<ending, rxStream, ambe, pcm, cooling>>
    BY <1>6 DEF OpenCall, timers
  <2> QED
    BY <1>3, <2>1, <2>3, <2>4, EmptyLaneType DEF TypeOK
<1>7. CASE PaceDmrTx
  <2>1. GetRest(toDmr, 3) \in Lanes
    BY GetRestType DEF TypeOK
  <2>2. /\ toDmr' = GetRest(toDmr, 3) /\ up' = << Dmrd("VOICE", frames) >>
        /\ frames' = (frames + 1) % 6
        /\ UNCHANGED <<call, ending, stream, rxStream, ambe, pcm, cooling>>
    BY <1>7 DEF PaceDmrTx, timers
  <2> QED
    BY <1>5, <2>1, <2>2 DEF TypeOK
<1>8. CASE BeginDmrEnd
  <2>1. /\ ending' = TRUE /\ ambe' = 0 /\ pcm' = 0 /\ toDmr' = EmptyLane
        /\ UNCHANGED <<call, frames, stream, rxStream, cooling, up>>
    BY <1>8 DEF BeginDmrEnd, timers
  <2> QED
    BY <1>3, <2>1, EmptyLaneType DEF TypeOK
<1>9. CASE PaceDmrEnd
  <2>1. CASE frames # 0
    <3>1. /\ up' = << Dmrd("VOICE", frames) >> /\ frames' = (frames + 1) % 6
          /\ UNCHANGED <<call, ending, toDmr, ambe, pcm, cooling, stream, rxStream>>
      BY <1>9, <2>1 DEF PaceDmrEnd, audio
    <3> QED
      BY <1>5, <3>1 DEF TypeOK
  <2>2. CASE frames = 0
    <3>1. /\ up' = << Dmrd("VTERM", 0) >> /\ FinishDmrEnd("idle")
          /\ UNCHANGED <<stream, rxStream>>
      BY <1>9, <2>2 DEF PaceDmrEnd
    <3> QED
      BY <1>5, <3>1, FinishType DEF TypeOK
  <2> QED
    BY <2>1, <2>2
<1>10. CASE DmrRxHang
  <2>1. NoStream \in Streams
    BY DEF Streams
  <2>2. /\ call' = "idle" /\ frames' = 0 /\ rxStream' = NoStream
        /\ UNCHANGED <<ending, stream, toDmr, ambe, pcm, cooling, up>>
    BY <1>10 DEF DmrRxHang, FreeSlot, audio, timers
  <2> QED
    BY <1>3, <2>1, <2>2 DEF TypeOK
<1> QED
  BY <1>6, <1>7, <1>8, <1>9, <1>10 DEF Tick

\* Time and the link change only their own variables.
LEMMA TimeType ==
  ASSUME TypeOK, Time \/ DmrLink
  PROVE  TypeOK'
<1>1. /\ UNCHANGED <<wasUp, call, ending, frames, stream, rxStream, ptt, rxLeft, up>>
      /\ UNCHANGED <<toDmr, ambe, pcm>>
  BY DEF Time, QuietElapses, CooldownElapses, RxQuietElapses, DmrLink, links, audio
<1>2. /\ dmrUp' \in BOOLEAN
      /\ quiet' \in BOOLEAN /\ cooling' \in BOOLEAN /\ rxQuiet' \in BOOLEAN
  BY DEF TypeOK, Time, QuietElapses, CooldownElapses, RxQuietElapses, DmrLink,
         links, timers
<1> QED
  BY <1>1, <1>2 DEF TypeOK

\* Every step keeps the types.
LEMMA StepType == TypeOK /\ [Next]_vars => TypeOK'
<1> SUFFICES ASSUME TypeOK, [Next]_vars PROVE TypeOK'
  OBVIOUS
<1>1. CASE UNCHANGED vars
  BY <1>1 DEF TypeOK, vars, links, audio, timers
<1> QED
  BY <1>1, PttType, ElType, DmrType, TickType, TimeType DEF Next

\* The state of the EchoLink-DMR bridge never leaves its types: in particular
\* the partial DMR burst never outgrows el_ambe_buf, whatever the PCM ring held
\* when the slot came free.
THEOREM TypeCorrect == Spec => []TypeOK
BY InitType, StepType, PTL DEF Spec

-----------------------------------------------------------------------------
(***************************************************************************)
(* The DMR uplink.  That the frames form streams needs to know what the    *)
(* last one was: it belongs to the stream that is on the air, an EL call's *)
(* or the connect PTT's and never both, and the counter of whoever has it  *)
(* says which frame comes next.  A PTT that is to go on to the configured  *)
(* talkgroup has an id the last frame does not carry.                      *)
(***************************************************************************)

Last == up[Len(up)]

OnAir(tg, k) ==
  /\ up # <<>>
  /\ Last.stream = stream /\ Last.tg = tg
  /\ Last.kind # "VTERM"
  /\ k = IF Last.kind = "VOICE" THEN (Last.n + 1) % 6 ELSE 0

IdleIsReset == call = "idle" => frames = 0

CallOnAir == call = "el" => ~ptt.active /\ OnAir("tg", frames)

PttOnAir ==
  ptt.active => /\ ptt.phase = 1 => OnAir(ptt.tg, ptt.frames)
                /\ ptt.phase = 0 => /\ ptt.frames = 0
                                    /\ up # <<>> /\ Last.stream # stream

UplinkInv == IdleIsReset /\ CallOnAir /\ PttOnAir

\* What UplinkWellFormed says of the step that sends the frames of s.
Continues(s) ==
  /\ s # <<>>
  /\ IF up = <<>> THEN s[1].kind = "VHEAD"
     ELSE /\ Follows(Last, s[1])
          /\ Cuts(Last, s[1]) => call = "el" /\ call' = "peer"
  /\ \A i \in 1..(Len(s) - 1) : Follows(s[i], s[i + 1]) /\ ~Cuts(s[i], s[i + 1])

\* The last frame sent is a frame, and no fresh id is its.
LEMMA LastType ==
  ASSUME TypeOK
  PROVE  /\ up # <<>> => Last \in Frames /\ Last.n \in 0..5
         /\ \A s \in Fresh : s # stream /\ (up # <<>> => s # Last.stream)
<1>1. ASSUME up # <<>> PROVE Last \in Frames /\ Len(up) \in 1..Len(up)
  BY <1>1 DEF TypeOK, Last
<1>2. ASSUME up # <<>> PROVE Last.n \in 0..5
  BY <1>1, <1>2 DEF Frames
<1>3. ASSUME NEW s \in Fresh PROVE s # stream /\ (up # <<>> => s # Last.stream)
  BY <1>1, <1>3 DEF Fresh, Last
<1> QED
  BY <1>1, <1>2, <1>3

\* One frame of the stream that is on the air: the next voice frame, or a
\* terminator where one may stand.
LEMMA OneFrame ==
  ASSUME TypeOK, NEW d, NEW tg, NEW k \in 0..5, OnAir(tg, k),
         d.stream = stream, d.tg = tg,
         \/ d.kind = "VOICE" /\ d.n = k
         \/ d.kind = "VTERM" /\ (k = 0 \/ (call = "el" /\ call' = "peer"))
  PROVE  Continues(<<d>>)
<1>1. Len(<<d>>) = 1 /\ <<d>>[1] = d /\ <<d>> # <<>>
  OBVIOUS
<1>2. up # <<>> /\ Last.n \in 0..5
  BY LastType DEF OnAir
<1>3. Follows(Last, d)
  BY DEF OnAir, Follows
<1>4. ASSUME Cuts(Last, d) PROVE call = "el" /\ call' = "peer"
  <2>1. Last.kind = "VOICE" /\ Last.n # 5 /\ d.kind = "VTERM"
    BY <1>4 DEF Cuts
  <2>2. k # 0
    BY <1>2, <2>1 DEF OnAir
  <2> QED
    BY <2>1, <2>2
<1>5. \A i \in 1..(Len(<<d>>) - 1) :
        Follows(<<d>>[i], <<d>>[i + 1]) /\ ~Cuts(<<d>>[i], <<d>>[i + 1])
  BY <1>1
<1> QED
  BY <1>1, <1>2, <1>3, <1>4, <1>5 DEF Continues

\* A header under a fresh id, alone or with the first voice frame.
LEMMA NewStream ==
  ASSUME TypeOK, NEW s \in Fresh, NEW d, NEW v,
         d.kind = "VHEAD", d.stream = s,
         v.kind = "VOICE", v.stream = s, v.tg = d.tg, v.n = 0
  PROVE  Continues(<<d>>) /\ Continues(<<d, v>>)
<1>1. up # <<>> => Follows(Last, d) /\ ~Cuts(Last, d)
  BY LastType DEF Follows, Cuts
<1>2. Follows(d, v) /\ ~Cuts(d, v)
  BY DEF Follows, Cuts
<1>3. /\ Len(<<d>>) = 1 /\ <<d>>[1] = d /\ <<d>> # <<>>
      /\ Len(<<d, v>>) = 2 /\ <<d, v>>[1] = d /\ <<d, v>>[2] = v /\ <<d, v>> # <<>>
  OBVIOUS
<1>4. \A i \in 1..(Len(<<d>>) - 1) :
        Follows(<<d>>[i], <<d>>[i + 1]) /\ ~Cuts(<<d>>[i], <<d>>[i + 1])
  BY <1>3
<1>5. \A i \in 1..(Len(<<d, v>>) - 1) :
        Follows(<<d, v>>[i], <<d, v>>[i + 1]) /\ ~Cuts(<<d, v>>[i], <<d, v>>[i + 1])
  BY <1>2, <1>3
<1> QED
  BY <1>1, <1>3, <1>4, <1>5 DEF Continues

\* The end of the connect PTT's stream.
LEMMA ClosingContinues ==
  ASSUME TypeOK, OnAir(ptt.tg, ptt.frames), ptt.active
  PROVE  Continues(Closing) /\ Closing[Len(Closing)].stream = stream
<1> DEFINE k == (6 - ptt.frames) % 6
           c == Closing
<1>1. ptt.frames \in 0..5
  BY DEF TypeOK, PttStates
<1>2. /\ Len(c) = k + 1
      /\ \A i \in 1..k : c[i] = Dmrd("VOICE", ptt.frames + i - 1)
      /\ c[k + 1] = Dmrd("VTERM", 0)
  BY ClosingShape
<1>3. /\ k \in 0..5 /\ (k = 0 <=> ptt.frames = 0)
      /\ (k > 0 => ptt.frames + k = 6)
  BY <1>1, Z3
<1> HIDE DEF c, k
<1>4. \A i \in 1..k : /\ c[i].kind = "VOICE" /\ c[i].n = ptt.frames + i - 1
                      /\ c[i].stream = stream /\ c[i].tg = ptt.tg
  BY <1>2, DmrdFields DEF TxTg
<1>5. c[k + 1].kind = "VTERM" /\ c[k + 1].stream = stream /\ c[k + 1].tg = ptt.tg
  BY <1>2, DmrdFields DEF TxTg
<1>6. up # <<>> /\ Last.n \in 0..5
  BY LastType DEF OnAir
<1>7. Follows(Last, c[1]) /\ ~Cuts(Last, c[1])
  <2>1. CASE k = 0
    <3>1. ptt.frames = 0 /\ c[1] = c[k + 1]
      BY <1>3, <2>1
    <3>2. Last.kind = "VOICE" => Last.n = 5
      BY <1>6, <3>1 DEF OnAir
    <3> QED
      BY <1>5, <3>1, <3>2 DEF Follows, OnAir, Cuts
  <2>2. CASE k > 0
    <3>1. 1 \in 1..k /\ ptt.frames + 1 - 1 = ptt.frames
      BY <1>1, <1>3, <2>2
    <3>2. /\ c[1].kind = "VOICE" /\ c[1].n = ptt.frames
          /\ c[1].stream = stream /\ c[1].tg = ptt.tg
      BY <1>4, <3>1
    <3> QED
      BY <3>2 DEF Follows, OnAir, Cuts
  <2> QED
    BY <1>3, <2>1, <2>2
<1>8. \A i \in 1..(Len(c) - 1) : Follows(c[i], c[i + 1]) /\ ~Cuts(c[i], c[i + 1])
  <2> SUFFICES ASSUME NEW i \in 1..k
               PROVE  Follows(c[i], c[i + 1]) /\ ~Cuts(c[i], c[i + 1])
    BY <1>2, <1>3
  <2>1. CASE i = k
    <3>1. ptt.frames + i - 1 = 5
      BY <1>1, <1>3, <2>1
    <3> QED
      BY <1>4, <1>5, <2>1, <3>1 DEF Follows, Cuts
  <2>2. CASE i # k
    <3>1. i + 1 \in 1..k /\ ptt.frames + (i + 1) - 1 = ((ptt.frames + i - 1) + 1) % 6
      BY <1>1, <1>3, <2>2
    <3> QED
      BY <1>4, <3>1 DEF Follows, Cuts
  <2> QED
    BY <2>1, <2>2
<1>9. c # <<>> /\ c[Len(c)].stream = stream
  BY <1>2, <1>3, <1>5
<1> QED
  BY <1>6, <1>7, <1>8, <1>9 DEF Continues, c

\* bridge_el_init: nothing is on the air.
LEMMA InitUplink == Init => UplinkInv
BY NoPttType DEF Init, UplinkInv, IdleIsReset, CallOnAir, PttOnAir

\* What the last frame is after a step that sends one.
LEMMA SentOne ==
  ASSUME NEW d, up' = <<d>>
  PROVE  up' # <<>> /\ Last' = d
BY DEF Last

\* The connect PTT.
LEMMA PttUplink ==
  ASSUME TypeOK, UplinkInv, Ptt
  PROVE  UplinkInv' /\ (up' # up => Continues(up'))
<1>1. UNCHANGED <<call, frames>>
  BY DEF Ptt, PttStart, PttFinish, PttLinkDown, PttHeader, PttVoice
<1>2. /\ ptt \in PttStates /\ ptt.frames \in 0..5 /\ ptt.phase \in 0..1
      /\ Clear \in BOOLEAN
  BY ElDmrAssumption DEF TypeOK, PttStates
<1>3. IdleIsReset'
  BY <1>1 DEF UplinkInv, IdleIsReset
<1>4. ASSUME NEW s \in Own, PttStart(s)
      PROVE  UplinkInv' /\ (up' # up => Continues(up'))
  <2>1. CASE call # "idle"
    <3>1. UNCHANGED <<stream, ptt, up>>
      BY <1>4, <2>1 DEF PttStart
    <3> QED
      BY <1>1, <1>3, <3>1 DEF UplinkInv, CallOnAir, PttOnAir, OnAir, Last
  <2>2. CASE call = "idle"
    <3> DEFINE tg == IF Clear THEN "4000" ELSE "tg"
               d == [kind |-> "VHEAD", n |-> 0, stream |-> s, tg |-> tg]
               v == [kind |-> "VOICE", n |-> 0, stream |-> s, tg |-> tg]
    <3>1. /\ s \in Fresh /\ stream' = s /\ up' = <<d>>
          /\ ptt' = [PttStream(tg, Clear) EXCEPT !.phase = 1]
      BY <1>4, <2>2, Zenon DEF PttStart
    <3>2. /\ d.kind = "VHEAD" /\ d.stream = s /\ d.tg = tg
          /\ v.kind = "VOICE" /\ v.stream = s /\ v.tg = d.tg /\ v.n = 0
      OBVIOUS
    <3>3. tg \in {"tg", "4000"}
      OBVIOUS
    <3> HIDE DEF tg, d, v
    <3>4. Continues(<<d>>)
      BY <3>1, <3>2, NewStream
    <3>5. ptt'.phase = 1 /\ ptt'.frames = 0 /\ ptt'.tg = tg
      BY <1>2, <3>1, <3>3, PttStreamType, PttHeaded
    <3>6. OnAir(ptt.tg, ptt.frames)'
      BY <3>1, <3>2, <3>5, SentOne DEF OnAir
    <3> QED
      BY <1>1, <1>3, <2>2, <3>1, <3>4, <3>5, <3>6 DEF UplinkInv, CallOnAir, PttOnAir
  <2> QED
    BY <2>1, <2>2
<1>5. ASSUME NEW s \in Own, PttFinish(s)
      PROVE  UplinkInv' /\ (up' # up => Continues(up'))
  <2>1. ptt.active /\ OnAir(ptt.tg, ptt.frames) /\ call # "el"
    BY <1>5 DEF PttFinish, UplinkInv, PttOnAir, CallOnAir
  <2>2. up' = Closing
    BY <1>5 DEF PttFinish, Closing
  <2>3. Continues(Closing) /\ Closing[Len(Closing)].stream = stream
    BY <2>1, ClosingContinues
  <2>4. up' # <<>> /\ Last'.stream = stream
    BY <2>2, <2>3 DEF Continues, Last
  <2>5. PttOnAir'
    <3>1. CASE ptt.clearing
      <4>1. ptt' = PttStream("tg", FALSE) /\ stream' = s /\ s # stream
        BY <1>5, <3>1, LastType DEF PttFinish
      <4>2. ptt'.phase # 1 /\ ptt'.frames = 0
        <5>1. ptt'.phase = 0 /\ ptt'.frames = 0
          BY <4>1, PttStreamType
        <5> QED
          BY <5>1
      <4>3. up' # <<>> /\ Last'.stream # stream'
        BY <2>4, <4>1
      <4> QED
        BY <4>2, <4>3, Zenon DEF PttOnAir
    <3>2. CASE ~ptt.clearing
      <4>1. ~ptt'.active
        BY <1>5, <3>2, NoPttType DEF PttFinish
      <4> QED
        BY <4>1 DEF PttOnAir
    <3> QED
      BY <3>1, <3>2
  <2> QED
    BY <1>1, <1>3, <2>1, <2>2, <2>3, <2>5 DEF UplinkInv, CallOnAir
<1>6. CASE PttLinkDown
  <2>1. ~ptt'.active /\ UNCHANGED <<up, stream>>
    BY <1>6, NoPttType DEF PttLinkDown
  <2> QED
    BY <1>1, <1>3, <2>1 DEF UplinkInv, CallOnAir, PttOnAir, OnAir, Last
<1>7. CASE PttHeader
  <2> DEFINE d == Dmrd("VHEAD", 0)
  <2>1. /\ ptt.active /\ ptt.phase = 0 /\ UNCHANGED stream
        /\ ptt' = [ptt EXCEPT !.phase = 1] /\ up' = <<d>>
    BY <1>7 DEF PttHeader
  <2>2. call # "el" /\ ptt.frames = 0 /\ up # <<>> /\ Last.stream # stream
    BY <2>1 DEF UplinkInv, CallOnAir, PttOnAir
  <2>3. d.kind = "VHEAD" /\ d.stream = stream /\ d.tg = ptt.tg
    BY <2>1, DmrdFields DEF TxTg
  <2> HIDE DEF d
  <2>4. Follows(Last, d) /\ ~Cuts(Last, d)
    BY <2>2, <2>3 DEF Follows, Cuts
  <2>5. Continues(<<d>>)
    <3>1. Len(<<d>>) = 1 /\ <<d>>[1] = d /\ <<d>> # <<>>
      OBVIOUS
    <3>2. \A i \in 1..(Len(<<d>>) - 1) :
            Follows(<<d>>[i], <<d>>[i + 1]) /\ ~Cuts(<<d>>[i], <<d>>[i + 1])
      BY <3>1
    <3> QED
      BY <2>2, <2>4, <3>1, <3>2 DEF Continues
  <2>6. ptt'.phase = 1 /\ ptt'.frames = 0 /\ ptt'.tg = ptt.tg
    BY <1>2, <2>1, <2>2, PttHeaded
  <2>7. OnAir(ptt.tg, ptt.frames)'
    BY <2>1, <2>3, <2>6, SentOne DEF OnAir
  <2> QED
    BY <1>1, <1>3, <2>1, <2>2, <2>5, <2>6, <2>7 DEF UplinkInv, CallOnAir, PttOnAir
<1>8. CASE PttVoice
  <2> DEFINE d == Dmrd("VOICE", ptt.frames)
             k == (ptt.frames + 1) % 6
  <2>1. /\ ptt.active /\ ptt.phase = 1 /\ UNCHANGED stream
        /\ ptt' = [ptt EXCEPT !.frames = k] /\ up' = <<d>>
    BY <1>8 DEF PttVoice
  <2>2. call # "el" /\ OnAir(ptt.tg, ptt.frames)
    BY <2>1 DEF UplinkInv, CallOnAir, PttOnAir
  <2>3. d.kind = "VOICE" /\ d.n = ptt.frames /\ d.stream = stream /\ d.tg = ptt.tg
    BY <2>1, DmrdFields DEF TxTg
  <2>4. k \in 0..5 /\ k = (d.n + 1) % 6
    BY <1>2, <2>3
  <2> HIDE DEF d, k
  <2>5. Continues(<<d>>)
    BY <1>2, <2>2, <2>3, OneFrame
  <2>6. ptt'.phase = 1 /\ ptt'.frames = k /\ ptt'.tg = ptt.tg
    BY <1>2, <2>1, <2>4, PttFramed
  <2>7. OnAir(ptt.tg, ptt.frames)'
    BY <2>1, <2>3, <2>4, <2>6, SentOne DEF OnAir
  <2> QED
    BY <1>1, <1>3, <2>1, <2>2, <2>5, <2>6, <2>7 DEF UplinkInv, CallOnAir, PttOnAir
<1> QED
  BY <1>4, <1>5, <1>6, <1>7, <1>8 DEF Ptt

\* EchoLink audio, time and the link send nothing and leave the counters alone.
LEMMA QuietUplink ==
  ASSUME UplinkInv, FromEl \/ Time \/ DmrLink \/ UNCHANGED vars
  PROVE  UplinkInv' /\ UNCHANGED up
<1>1. UNCHANGED <<call, frames, stream, ptt, up>>
  BY DEF FromEl, ElWaits, ElCooldown, ElVoice, Time, QuietElapses,
         CooldownElapses, RxQuietElapses, DmrLink, vars
<1> QED
  BY <1>1 DEF UplinkInv, IdleIsReset, CallOnAir, PttOnAir, OnAir, Last

\* A DMRD that arrives: a header takes the slot from an EL call.
LEMMA DmrUplink ==
  ASSUME TypeOK, UplinkInv, FromDmr
  PROVE  UplinkInv' /\ (up' # up => Continues(up'))
<1>1. UNCHANGED <<stream, ptt>> /\ frames \in 0..5
  BY DEF FromDmr, DmrHeader, DmrTerminator, DmrVoice, TypeOK
<1>2. ASSUME UNCHANGED up, call' # "el", IdleIsReset' PROVE UplinkInv'
  BY <1>1, <1>2 DEF UplinkInv, CallOnAir, PttOnAir, OnAir, Last
<1>3. ASSUME NEW s \in Remote, DmrHeader(s)
      PROVE  UplinkInv' /\ (up' # up => Continues(up'))
  <2>1. CASE call = "peer" /\ s = rxStream
    <3>1. UNCHANGED <<call, frames, up>>
      BY <1>3, <2>1 DEF DmrHeader
    <3> QED
      BY <1>2, <2>1, <3>1 DEF UplinkInv, IdleIsReset
  <2>2. CASE call = "el"
    <3> DEFINE d == Dmrd("VTERM", 0)
    <3>1. up' = <<d>> /\ call' = "peer"
      BY <1>3, <2>2 DEF DmrHeader, FinishDmrEnd
    <3>2. ~ptt.active /\ OnAir("tg", frames)
      BY <2>2 DEF UplinkInv, CallOnAir
    <3>3. d.kind = "VTERM" /\ d.stream = stream /\ d.tg = "tg"
      BY <3>2, DmrdFields DEF TxTg
    <3> HIDE DEF d
    <3>4. Continues(<<d>>)
      BY <1>1, <2>2, <3>1, <3>2, <3>3, OneFrame
    <3> QED
      BY <1>1, <3>1, <3>2, <3>4 DEF UplinkInv, IdleIsReset, CallOnAir, PttOnAir
  <2>3. CASE ~(call = "peer" /\ s = rxStream) /\ call # "el"
    <3>1. call' = "peer" /\ UNCHANGED up
      BY <1>3, <2>3 DEF DmrHeader
    <3> QED
      BY <1>2, <3>1 DEF IdleIsReset
  <2> QED
    BY <2>1, <2>2, <2>3
<1>4. CASE DmrTerminator
  <2>1. call' = "idle" /\ frames' = 0 /\ UNCHANGED up
    BY <1>4 DEF DmrTerminator, FreeSlot
  <2> QED
    BY <1>2, <2>1 DEF IdleIsReset
<1>5. CASE DmrVoice
  <2>1. call' = "peer" /\ UNCHANGED up
    BY <1>5 DEF DmrVoice
  <2> QED
    BY <1>2, <2>1 DEF IdleIsReset
<1> QED
  BY <1>3, <1>4, <1>5 DEF FromDmr

\* bridge_el_tick: the burst that opens a call is the first of its superframe
\* only because dmr_voice_frames is zero whenever nobody has the slot.
LEMMA TickUplink ==
  ASSUME TypeOK, UplinkInv, Tick
  PROVE  UplinkInv' /\ (up' # up => Continues(up'))
<1>1. UNCHANGED ptt /\ frames \in 0..5
  BY DEF Tick, OpenCall, PaceDmrTx, BeginDmrEnd, PaceDmrEnd, DmrRxHang, TypeOK
<1>2. ASSUME NEW s \in Own, OpenCall(s)
      PROVE  UplinkInv' /\ (up' # up => Continues(up'))
  <2> DEFINE d == [kind |-> "VHEAD", n |-> 0, stream |-> s, tg |-> "tg"]
             v == [kind |-> "VOICE", n |-> frames, stream |-> s, tg |-> "tg"]
  <2>1. /\ call = "idle" /\ ~ptt.active /\ s \in Fresh
        /\ call' = "el" /\ stream' = s /\ frames' = 1 /\ up' = <<d, v>>
    BY <1>2 DEF OpenCall
  <2>2. frames = 0
    BY <2>1 DEF UplinkInv, IdleIsReset
  <2>3. /\ d.kind = "VHEAD" /\ d.stream = s
        /\ v.kind = "VOICE" /\ v.stream = s /\ v.tg = d.tg /\ v.n = 0 /\ v.tg = "tg"
    BY <2>2
  <2> HIDE DEF d, v
  <2>4. Continues(<<d, v>>)
    BY <2>1, <2>3, NewStream
  <2>5. up' # <<>> /\ Last' = v
    BY <2>1 DEF Last
  <2>6. OnAir("tg", frames)'
    <3>1. 1 = (v.n + 1) % 6
      BY <2>3
    <3> QED
      BY <2>1, <2>3, <2>5, <3>1 DEF OnAir
  <2> QED
    BY <1>1, <2>1, <2>4, <2>6 DEF UplinkInv, IdleIsReset, CallOnAir, PttOnAir
<1>3. ASSUME call = "el", up' = <<Dmrd("VOICE", frames)>>,
             frames' = (frames + 1) % 6, UNCHANGED <<call, stream>>
      PROVE  UplinkInv' /\ Continues(up')
  <2> DEFINE d == Dmrd("VOICE", frames)
  <2>1. ~ptt.active /\ OnAir("tg", frames)
    BY <1>3 DEF UplinkInv, CallOnAir
  <2>2. d.kind = "VOICE" /\ d.n = frames /\ d.stream = stream /\ d.tg = "tg"
    BY <2>1, DmrdFields DEF TxTg
  <2>3. up' = <<d>> /\ frames' = (d.n + 1) % 6
    BY <1>3, <2>2
  <2> HIDE DEF d
  <2>4. Continues(<<d>>)
    BY <1>1, <2>1, <2>2, OneFrame
  <2>5. OnAir("tg", frames)'
    BY <1>3, <2>2, <2>3, SentOne DEF OnAir
  <2> QED
    BY <1>1, <1>3, <2>1, <2>3, <2>4, <2>5
       DEF UplinkInv, IdleIsReset, CallOnAir, PttOnAir
<1>4. CASE PaceDmrTx
  BY <1>3, <1>4 DEF PaceDmrTx
<1>5. CASE BeginDmrEnd
  <2>1. UNCHANGED <<call, frames, stream, up>>
    BY <1>5 DEF BeginDmrEnd
  <2> QED
    BY <1>1, <2>1 DEF UplinkInv, IdleIsReset, CallOnAir, PttOnAir, OnAir, Last
<1>6. CASE PaceDmrEnd
  <2>1. CASE frames # 0
    BY <1>3, <1>6, <2>1 DEF PaceDmrEnd
  <2>2. CASE frames = 0
    <3> DEFINE d == Dmrd("VTERM", 0)
    <3>1. /\ call = "el" /\ up' = <<d>> /\ call' = "idle" /\ frames' = 0
          /\ UNCHANGED stream
      BY <1>6, <2>2 DEF PaceDmrEnd, FinishDmrEnd
    <3>2. ~ptt.active /\ OnAir("tg", 0)
      BY <2>2, <3>1 DEF UplinkInv, CallOnAir
    <3>3. d.kind = "VTERM" /\ d.stream = stream /\ d.tg = "tg"
      BY <3>2, DmrdFields DEF TxTg
    <3> HIDE DEF d
    <3>4. Continues(<<d>>)
      BY <3>2, <3>3, OneFrame
    <3> QED
      BY <1>1, <3>1, <3>2, <3>4 DEF UplinkInv, IdleIsReset, CallOnAir, PttOnAir
  <2> QED
    BY <2>1, <2>2
<1>7. CASE DmrRxHang
  <2>1. call' = "idle" /\ frames' = 0 /\ UNCHANGED <<stream, up>>
    BY <1>7 DEF DmrRxHang, FreeSlot
  <2> QED
    BY <1>1, <2>1 DEF UplinkInv, IdleIsReset, CallOnAir, PttOnAir, OnAir, Last
<1> QED
  BY <1>2, <1>4, <1>5, <1>6, <1>7 DEF Tick

\* Every step keeps the invariant, and what it sends goes on from it.
LEMMA StepUplink ==
  ASSUME TypeOK, UplinkInv, [Next]_vars
  PROVE  UplinkInv' /\ (up' # up => Continues(up'))
BY QuietUplink, PttUplink, DmrUplink, TickUplink DEF Next

\* The DMRD frames of the EchoLink-DMR bridge form well-formed streams, however
\* EL calls, DMR calls that preempt them, the connect PTT and link losses
\* interleave, and whatever the queues hold; only preemption cuts a superframe.
THEOREM UplinkAlwaysWellFormed == Spec => UplinkWellFormed
<1>1. TypeOK /\ UplinkInv /\ [Next]_vars
        => (up' # up =>
             /\ IF up = <<>> THEN up'[1].kind = "VHEAD"
                ELSE /\ Follows(up[Len(up)], up'[1])
                     /\ Cuts(up[Len(up)], up'[1]) => call = "el" /\ call' = "peer"
             /\ \A i \in 1..(Len(up') - 1) :
                  Follows(up'[i], up'[i + 1]) /\ ~Cuts(up'[i], up'[i + 1]))
  BY StepUplink DEF Continues, Last
<1>2. TypeOK /\ UplinkInv /\ [Next]_vars => UplinkInv'
  BY StepUplink
<1> QED
  BY <1>1, <1>2, InitType, StepType, InitUplink, PTL DEF Spec, UplinkWellFormed

-----------------------------------------------------------------------------
(* The EchoLink <-> DMR bridge: the paced end of a call *)

\* Silence bursts that the superframe of the call that ends still lacks.
PadLeft == (6 - frames) % 6

\* Only an EL call ends in steps: bridge_el_begin_dmr_end sets dmr_ending in one.
EndingIsEl == ending => call = "el"

\* What a step may do to a call that is ending: finish it, pad its superframe by
\* one burst, or leave the padding alone.
EndMoves ==
  ending => \/ ending' = FALSE
            \/ PaceDmrEnd /\ PadLeft' = PadLeft - 1 /\ PadLeft > 0
            \/ ~PaceDmrEnd /\ UNCHANGED frames

\* One burst of padding is one burst less to pad.
LEMMA PadStep ==
  ASSUME NEW f \in 0..5, f # 0
  PROVE  (6 - ((f + 1) % 6)) % 6 = ((6 - f) % 6) - 1 /\ (6 - f) % 6 > 0
<1>1. CASE f = 5
  BY <1>1, Z3
<1>2. CASE f \in 1..4
  BY <1>2, Z3
<1> QED
  BY <1>1, <1>2

\* One step of the bridge towards the end of the call.
LEMMA StepEnd ==
  TypeOK /\ EndingIsEl /\ [Next]_vars => EndingIsEl' /\ EndMoves
<1> SUFFICES ASSUME TypeOK, EndingIsEl, [Next]_vars
             PROVE  EndingIsEl' /\ EndMoves
  OBVIOUS
<1>0. ending \in BOOLEAN /\ frames \in 0..5
  BY DEF TypeOK
<1>1. CASE UNCHANGED vars
  <2>1. UNCHANGED <<ending, call, frames>>
    BY <1>1 DEF vars
  <2>2. ~(ending /\ PaceDmrEnd)
    <3> SUFFICES ASSUME ending, PaceDmrEnd PROVE FALSE
      OBVIOUS
    <3>1. CASE frames # 0
      BY <3>1, <2>1, <1>0 DEF PaceDmrEnd
    <3>2. CASE frames = 0
      BY <3>2, <2>1, <1>0 DEF PaceDmrEnd, FinishDmrEnd
    <3> QED
      BY <3>1, <3>2
  <2> QED
    BY <2>1, <2>2 DEF EndingIsEl, EndMoves
<1>2. CASE PaceDmrEnd
  <2>1. CASE frames # 0
    <3>1. UNCHANGED <<call, ending>> /\ frames' = (frames + 1) % 6
      BY <1>2, <2>1 DEF PaceDmrEnd
    <3>2. PadLeft' = PadLeft - 1 /\ PadLeft > 0
      BY <3>1, <2>1, <1>0, PadStep DEF PadLeft
    <3> QED
      BY <3>1, <3>2, <1>2 DEF EndingIsEl, EndMoves
  <2>2. CASE frames = 0
    BY <1>2, <2>2 DEF PaceDmrEnd, FinishDmrEnd, EndingIsEl, EndMoves
  <2> QED
    BY <2>1, <2>2
<1>3. CASE UNCHANGED <<call, ending, frames>> /\ ~PaceDmrEnd
  BY <1>3 DEF EndingIsEl, EndMoves
<1>4. CASE ~PaceDmrEnd /\ (FromEl \/ Ptt \/ Time \/ DmrLink)
  <2>1. UNCHANGED <<call, ending, frames>>
    BY <1>4 DEF FromEl, ElWaits, ElCooldown, ElVoice, Ptt, PttStart, PttFinish,
      PttLinkDown, PttHeader, PttVoice, Time, QuietElapses, CooldownElapses,
      RxQuietElapses, DmrLink
  <2> QED
    BY <2>1, <1>4, <1>3
<1>5. CASE FromDmr
  <2>1. ASSUME NEW s \in Remote, DmrHeader(s)
        PROVE  EndingIsEl' /\ EndMoves
    <3>1. CASE call = "el"
      BY <3>1, <2>1 DEF DmrHeader, FinishDmrEnd, EndingIsEl, EndMoves
    <3>2. CASE call # "el"
      <4>1. ending = FALSE /\ ending' = FALSE
        BY <3>2, <2>1, <1>0 DEF DmrHeader, EndingIsEl
      <4> QED
        BY <4>1 DEF EndingIsEl, EndMoves
    <3> QED
      BY <3>1, <3>2
  <2>2. CASE DmrTerminator \/ DmrVoice
    <3>1. ending = FALSE /\ ending' = FALSE
      BY <2>2, <1>0 DEF DmrTerminator, DmrVoice, FreeSlot, EndingIsEl
    <3> QED
      BY <3>1 DEF EndingIsEl, EndMoves
  <2> QED
    BY <1>5, <2>1, <2>2 DEF FromDmr
<1>6. CASE ~PaceDmrEnd /\ Tick
  <2>1. CASE (\E s \in Own : OpenCall(s)) \/ DmrRxHang
    <3>1. ending = FALSE /\ ending' = FALSE
      BY <2>1, <1>0 DEF OpenCall, DmrRxHang, FreeSlot, EndingIsEl
    <3> QED
      BY <3>1 DEF EndingIsEl, EndMoves
  <2>2. CASE PaceDmrTx
    BY <2>2 DEF PaceDmrTx, EndingIsEl, EndMoves
  <2>3. CASE BeginDmrEnd
    BY <2>3 DEF BeginDmrEnd, EndingIsEl, EndMoves
  <2> QED
    BY <1>6, <2>1, <2>2, <2>3 DEF Tick
<1> QED
  BY <1>1, <1>2, <1>4, <1>5, <1>6 DEF Next

\* The safety half of EndingEnds.  Only an EL call is ever ending, and every
\* step then finishes it, pads its superframe by exactly one burst (at most five
\* are left), or leaves the padding alone: no step of the PTT, of the talkers or
\* of a flapping link takes bridge_el_pace_dmr_end back.
THEOREM EndNeverStuck ==
  Spec => [](EndingIsEl /\ PadLeft \in 0..5) /\ [][EndMoves]_vars
<1>1. Init => EndingIsEl
  BY DEF Init, EndingIsEl
<1>2. TypeOK => PadLeft \in 0..5
  <2>1. TypeOK => frames \in 0..5
    BY DEF TypeOK
  <2> QED
    BY <2>1, Z3 DEF PadLeft
<1> QED
  BY <1>1, <1>2, InitType, StepType, StepEnd, PTL DEF Spec

-----------------------------------------------------------------------------
(***************************************************************************)
(* The EchoLink <-> YSF bridge.  The lane towards YSF never overflows, so  *)
(* its counter and its ring agree, and while the reflector has heard       *)
(* nothing of the call yet, the call's header is at the head of the lane.  *)
(***************************************************************************)

InStep(l) == l.n = Len(l.buf) /\ l.n <= CapYsf

YsfInv ==
  /\ YsfTypeOK
  /\ InStep(toYsf)
  /\ ~ysfEnding => toYsf.n <= MaxYsf + MaxPcm
  /\ call = "el" /\ down \in {"none", "EOT"}
       => toYsf.buf # <<>> /\ toYsf.buf[1] = "HEADER"

\* Voice at the end of a lane, of any length, leaves its head.
LEMMA VoiceKeepsHead ==
  ASSUME NEW l \in Lanes, NEW k \in Nat, CapYsf \in Nat,
         l.n = Len(l.buf), l.n + k <= CapYsf
  PROVE  LET r == PutData(l, k, CapYsf) IN
         /\ r \in Lanes /\ InStep(r) /\ r.n = l.n + k
         /\ l.buf # <<>> => r.buf # <<>> /\ r.buf[1] = l.buf[1]
<1> DEFINE r == PutData(l, k, CapYsf)
<1>1. l.buf \in Seq(Tags) /\ l.n \in Nat
  BY DEF Lanes
<1>2. /\ r \in Lanes /\ r.n = l.n + k /\ Len(r.buf) = Len(l.buf) + k
      /\ \A i \in 1..Len(l.buf) : r.buf[i] = l.buf[i]
  BY PutDataAppends
<1> HIDE DEF r
<1>3. r.buf \in Seq(Tags)
  BY <1>2 DEF Lanes
<1>4. ASSUME l.buf # <<>> PROVE r.buf # <<>> /\ r.buf[1] = l.buf[1]
  <2>1. Len(l.buf) > 0 /\ 1 \in 1..Len(l.buf)
    BY <1>1, <1>4
  <2>2. Len(r.buf) > 0
    BY <1>1, <1>2, <2>1
  <2> QED
    BY <1>2, <1>3, <2>1, <2>2
<1>5. InStep(r)
  BY <1>1, <1>2 DEF InStep
<1> QED
  BY <1>2, <1>4, <1>5 DEF r

\* The header of a new call is alone in the lane.
LEMMA AnnouncedLane ==
  ASSUME CapYsf \in Nat, CapYsf > 0
  PROVE  /\ Announced \in Lanes /\ Announced.n = 1
         /\ Announced.n = Len(Announced.buf)
         /\ Announced.buf # <<>> /\ Announced.buf[1] = "HEADER"
<1> DEFINE h == PutHeader(EmptyLane, CapYsf)
<1>1. Announced = h
  BY DEF Announced
<1>2. /\ EmptyLane \in Lanes /\ EmptyLane.n = Len(EmptyLane.buf)
      /\ EmptyLane.n < CapYsf /\ EmptyLane.n = 0 /\ EmptyLane.buf = <<>>
  BY EmptyLaneType
<1>3. Extends(EmptyLane, h, "HEADER") /\ h.n = 1
  BY <1>2, PutHeaderExtends
<1> HIDE DEF h
<1>4. /\ h.buf # <<>>
      /\ h.buf[1] = IF EmptyLane.buf = <<>> THEN "HEADER" ELSE EmptyLane.buf[1]
  BY <1>2, <1>3, HeadKept
<1>5. h \in Lanes /\ h.n = Len(h.buf)
  BY <1>3 DEF Extends
<1> QED
  BY <1>1, <1>2, <1>3, <1>4, <1>5

\* bridge_el_init.
LEMMA InitYsf == YsfInit => YsfInv
<1> SUFFICES ASSUME YsfInit PROVE YsfInv
  OBVIOUS
<1>1. toYsf = EmptyLane /\ call = "idle" /\ down = "none" /\ ysfEnding = FALSE
  BY DEF YsfInit
<1>2. MaxPcm \in Nat /\ MaxYsf \in Nat /\ CapYsf \in Nat
  BY ElAssumption, ElYsfAssumption
<1>3. InStep(toYsf) /\ toYsf \in Lanes /\ toYsf.n <= MaxYsf + MaxPcm
  BY <1>1, <1>2, EmptyLaneType DEF InStep
<1>4. /\ ysfAmbe \in 0..4 /\ pcm \in 0..MaxPcm /\ rxLeft \in 0..MaxRx
      /\ quiet \in BOOLEAN /\ cooling \in BOOLEAN /\ rxQuiet \in BOOLEAN
  <2>1. 0 \in 0..4 /\ 0 \in 0..MaxPcm /\ MaxRx \in 0..MaxRx
    BY ElAssumption
  <2> QED
    BY <2>1, Zenon DEF YsfInit
<1>5. YsfTypeOK
  BY <1>1, <1>3, <1>4 DEF YsfTypeOK
<1> QED
  BY <1>1, <1>3, <1>5 DEF YsfInv

\* A step that empties the lane while no EL call is on keeps the invariant if it
\* keeps the types.
LEMMA Wiped ==
  ASSUME YsfTypeOK', toYsf' = EmptyLane, call' # "el"
  PROVE  YsfInv'
<1>1. MaxPcm \in Nat /\ MaxYsf \in Nat /\ CapYsf \in Nat
  BY ElAssumption, ElYsfAssumption
<1>2. InStep(EmptyLane) /\ EmptyLane.n <= MaxYsf + MaxPcm
  BY <1>1, EmptyLaneType DEF InStep
<1> QED
  BY <1>2 DEF YsfInv, InStep

\* What the invariant and the assumptions say of the sizes.
LEMMA YsfLane ==
  ASSUME YsfInv
  PROVE  /\ toYsf \in Lanes /\ toYsf.n \in Nat /\ toYsf.n = Len(toYsf.buf)
         /\ toYsf.n <= CapYsf
         /\ MaxPcm \in Nat /\ MaxYsf \in Nat /\ CapYsf \in Nat /\ MaxRx \in Nat
         /\ MaxYsf + MaxPcm + 6 <= CapYsf
BY ElAssumption, ElYsfAssumption DEF YsfInv, InStep, YsfTypeOK, Lanes

\* A step that leaves the lane alone and the slot, too.
LEMMA LaneAlone ==
  ASSUME YsfInv, YsfTypeOK', UNCHANGED <<call, ysfEnding, toYsf, down>>
  PROVE  YsfInv'
BY DEF YsfInv, InStep

\* EchoLink audio: what does not fill a YSF frame stays in ysf_ambe_buf, and
\* the header of a call that opens comes before its voice.
LEMMA ElVoiceYsf ==
  ASSUME YsfInv, NEW new \in 0..1, NEW good \in 0..(MaxPcm + 1),
         NEW wedged \in BOOLEAN, YsfElVoice(new, good, wedged)
  PROVE  YsfInv'
<1> DEFINE opens == call = "idle" /\ good > 0
           total == (IF opens THEN 0 ELSE ysfAmbe) + good
           k == 5 * (total \div 5)
           l == IF opens THEN Announced ELSE toYsf
<1>1. /\ toYsf \in Lanes /\ toYsf.n \in Nat /\ toYsf.n = Len(toYsf.buf)
      /\ MaxPcm \in Nat /\ MaxYsf \in Nat /\ CapYsf \in Nat
      /\ MaxYsf + MaxPcm + 6 <= CapYsf
      /\ ysfAmbe \in 0..4
  BY YsfLane DEF YsfInv, YsfTypeOK
<1>2. /\ toYsf.n + 5 <= MaxYsf /\ call # "peer" /\ ~ysfEnding
      /\ UNCHANGED <<ysfEnding, cooling, rxQuiet, rxLeft, down>>
      /\ pcm' = 0 /\ quiet' = FALSE
      /\ call' = IF opens THEN "el" ELSE call
  BY DEF YsfElVoice
<1>3. total \in Nat /\ total <= MaxPcm + 5 /\ (opens => total <= MaxPcm + 1)
  BY <1>1
<1>4. k \in Nat /\ k <= total /\ total - k \in 0..4
  <2> HIDE DEF total
  <2> QED
    BY <1>3, Remainder
<1>5. /\ l \in Lanes /\ l.n = Len(l.buf) /\ l.n \in Nat
      /\ l.n + k <= MaxYsf + MaxPcm
      /\ opens => l.buf # <<>> /\ l.buf[1] = "HEADER"
      /\ ~opens => l = toYsf
  <2>1. CASE opens
    <3>1. l = Announced
      BY <2>1
    <3>2. CapYsf > 0 /\ 5 <= MaxYsf
      BY <1>1, <1>2
    <3>3. /\ Announced \in Lanes /\ Announced.n = 1
          /\ Announced.n = Len(Announced.buf)
          /\ Announced.buf # <<>> /\ Announced.buf[1] = "HEADER"
      BY <1>1, <3>2, AnnouncedLane
    <3> HIDE DEF k, l, total, opens
    <3>4. 1 + k <= MaxYsf + MaxPcm
      BY <1>1, <1>3, <1>4, <2>1, <3>2
    <3>5. l.n = 1 /\ l.n + k <= MaxYsf + MaxPcm
      BY <3>1, <3>3, <3>4
    <3>6. /\ l \in Lanes /\ l.n = Len(l.buf)
          /\ l.buf # <<>> /\ l.buf[1] = "HEADER"
      BY <3>1, <3>3, Zenon
    <3>7. l.n \in Nat
      BY <3>5
    <3> QED
      BY <2>1, <3>5, <3>6, <3>7, Zenon
  <2>2. CASE ~opens
    <3>1. l = toYsf
      BY <2>2
    <3> HIDE DEF k, l, total, opens
    <3> QED
      BY <1>1, <1>2, <1>3, <1>4, <2>2, <3>1
  <2> QED
    BY <2>1, <2>2
<1>6. /\ toYsf' = PutData(l, k, CapYsf)
      /\ ysfAmbe' = IF wedged THEN 0 ELSE total - k
  <2>1. FullFrames(total) = total \div 5
    BY DEF FullFrames
  <2>2. toYsf' = PutData(l, 5 * FullFrames(total), CapYsf)
    BY DEF YsfElVoice
  <2>3. ysfAmbe' = IF wedged THEN 0 ELSE total - 5 * FullFrames(total)
    BY DEF YsfElVoice
  <2> QED
    BY <2>1, <2>2, <2>3
<1> HIDE DEF k, l, total
<1>7. /\ toYsf' \in Lanes /\ InStep(toYsf') /\ toYsf'.n = l.n + k
      /\ l.buf # <<>> => toYsf'.buf # <<>> /\ toYsf'.buf[1] = l.buf[1]
  <2>1. l.n + k <= CapYsf
    BY <1>1, <1>4, <1>5
  <2> QED
    BY <1>1, <1>4, <1>5, <1>6, <2>1, VoiceKeepsHead
<1>8. YsfTypeOK'
  <2>1. ysfAmbe' \in 0..4 /\ pcm' \in 0..MaxPcm
    BY <1>1, <1>2, <1>4, <1>6
  <2>2. call' \in {"idle", "el", "peer"}
    BY <1>2 DEF YsfInv, YsfTypeOK
  <2>3. toYsf' \in Lanes
    BY <1>7
  <2> QED
    BY <1>2, <2>1, <2>2, <2>3 DEF YsfInv, YsfTypeOK
<1>9. toYsf'.n <= MaxYsf + MaxPcm
  BY <1>5, <1>7
<1>10. ASSUME call' = "el", down' \in {"none", "EOT"}
       PROVE  toYsf'.buf # <<>> /\ toYsf'.buf[1] = "HEADER"
  <2>1. CASE opens
    BY <1>5, <1>7, <2>1
  <2>2. CASE ~opens
    <3>1. call = "el" /\ down \in {"none", "EOT"}
      BY <1>2, <1>10, <2>2
    <3>2. toYsf.buf # <<>> /\ toYsf.buf[1] = "HEADER"
      BY <3>1 DEF YsfInv
    <3> QED
      BY <1>5, <1>7, <2>2, <3>2
  <2> QED
    BY <2>1, <2>2
<1> QED
  BY <1>7, <1>8, <1>9, <1>10 DEF YsfInv, InStep

\* bridge_el_emit_ysf_from_conv sends the head of the lane.
LEMMA EmitYsfFirst ==
  ASSUME YsfInv, EmitYsf
  PROVE  YsfInv' /\ (down \in {"none", "EOT"} => down' = "HEADER")
<1> DEFINE tag == GetTag(toYsf, 5)
           rest == GetRest(toYsf, 5)
<1>1. /\ toYsf \in Lanes /\ toYsf.n \in Nat /\ toYsf.n = Len(toYsf.buf)
      /\ toYsf.n <= CapYsf /\ CapYsf \in Nat
      /\ MaxPcm \in Nat /\ MaxYsf \in Nat
  BY YsfLane
<1>2. /\ call = "el" /\ UNCHANGED <<quiet, rxQuiet, rxLeft>>
      /\ \/ /\ tag \in {"HEADER", "DATA"} /\ down' = tag /\ toYsf' = rest
            /\ UNCHANGED <<call, ysfEnding, ysfAmbe, pcm, cooling>>
         \/ tag = "EOT" /\ down' = "EOT" /\ CallOver
  BY DEF EmitYsf
<1>3. /\ rest \in Lanes /\ rest.n = Len(rest.buf) /\ rest.n <= toYsf.n
      /\ toYsf.buf # <<>> /\ toYsf.buf[1] # "DATA" => tag = toYsf.buf[1]
  BY <1>1, GetInStep, GetRestType
<1>4. down \in {"none", "EOT"} => tag = "HEADER"
  BY <1>2, <1>3 DEF YsfInv
<1> HIDE DEF tag, rest
<1>5. CASE /\ tag \in {"HEADER", "DATA"} /\ down' = tag /\ toYsf' = rest
           /\ UNCHANGED <<call, ysfEnding, ysfAmbe, pcm, cooling>>
  <2>1. rest.n \in Nat
    BY <1>3 DEF Lanes
  <2>2. YsfTypeOK'
    BY <1>2, <1>3, <1>5 DEF YsfInv, YsfTypeOK
  <2>3. rest.n <= CapYsf /\ (toYsf.n <= MaxYsf + MaxPcm => rest.n <= MaxYsf + MaxPcm)
    BY <1>1, <1>3, <2>1
  <2>4. down' \notin {"none", "EOT"}
    BY <1>5
  <2> QED
    BY <1>3, <1>4, <1>5, <2>2, <2>3, <2>4 DEF YsfInv, InStep
<1>6. CASE tag = "EOT" /\ down' = "EOT" /\ CallOver
  <2>1. /\ call' = "idle" /\ ysfEnding' = FALSE /\ ysfAmbe' = 0 /\ pcm' = 0
        /\ toYsf' = EmptyLane /\ cooling' = TRUE
    BY <1>6 DEF CallOver
  <2>2. 0 \in 0..4 /\ 0 \in 0..MaxPcm /\ EmptyLane \in Lanes
    BY <1>1, EmptyLaneType
  <2>3. YsfTypeOK'
    BY <1>2, <1>6, <2>1, <2>2 DEF YsfInv, YsfTypeOK
  <2> QED
    BY <1>4, <1>6, <2>1, <2>3, Wiped
<1> QED
  BY <1>2, <1>5, <1>6

\* bridge_el_end_ysf_call and bridge_el_ysf_reheader_if_talker_changed add to
\* the lane behind what is there.
LEMMA PutsYsf ==
  ASSUME YsfInv, ElHang \/ Reheader
  PROVE  YsfInv'
<1>1. /\ toYsf \in Lanes /\ toYsf.n \in Nat /\ toYsf.n = Len(toYsf.buf)
      /\ MaxPcm \in Nat /\ MaxYsf \in Nat /\ CapYsf \in Nat
      /\ MaxYsf + MaxPcm + 6 <= CapYsf
  BY YsfLane
<1>2. call = "el" /\ ~ysfEnding /\ toYsf.n <= MaxYsf + MaxPcm
  BY DEF ElHang, Reheader, YsfInv
<1>3. /\ UNCHANGED <<call, ysfAmbe, pcm, rxLeft, down>>
      /\ UNCHANGED <<quiet, cooling, rxQuiet>>
  BY DEF ElHang, Reheader, timers
<1>4. ASSUME NEW u, Extends(toYsf, toYsf', u), toYsf'.n <= CapYsf,
             ysfEnding' \in BOOLEAN, ~ysfEnding' => toYsf'.n <= MaxYsf + MaxPcm
      PROVE  YsfInv'
  <2>1. toYsf' \in Lanes /\ toYsf'.n = Len(toYsf'.buf)
    BY <1>4 DEF Extends
  <2>2. /\ toYsf'.buf # <<>>
        /\ toYsf.buf # <<>> => toYsf'.buf[1] = toYsf.buf[1]
    BY <1>1, <1>4, HeadKept
  <2>3. YsfTypeOK'
    BY <1>3, <1>4, <2>1 DEF YsfInv, YsfTypeOK
  <2> QED
    BY <1>3, <1>4, <2>1, <2>2, <2>3 DEF YsfInv, InStep
<1>5. CASE ElHang
  <2>1. toYsf' = PutEot(toYsf, 5, CapYsf) /\ ysfEnding' = TRUE
    BY <1>5 DEF ElHang
  <2>2. toYsf.n + 5 + 1 <= CapYsf
    BY <1>1, <1>2
  <2>3. Extends(toYsf, toYsf', "DATA") /\ toYsf'.n <= toYsf.n + 5 + 1
    BY <1>1, <2>1, <2>2, PutEotExtends
  <2>4. toYsf'.n \in Nat
    BY <2>3 DEF Extends, Lanes
  <2>5. toYsf'.n <= CapYsf
    BY <1>1, <2>2, <2>3, <2>4
  <2> QED
    BY <1>4, <2>1, <2>3, <2>5
<1>6. CASE Reheader
  <2>1. toYsf' = PutHeader(toYsf, CapYsf) /\ UNCHANGED ysfEnding /\ toYsf.n + 1 <= MaxYsf
    BY <1>6 DEF Reheader
  <2>2. toYsf.n < CapYsf
    BY <1>1, <1>2
  <2>3. Extends(toYsf, toYsf', "HEADER") /\ toYsf'.n = toYsf.n + 1
    BY <1>1, <2>1, <2>2, PutHeaderExtends
  <2>4. toYsf'.n <= CapYsf /\ toYsf'.n <= MaxYsf + MaxPcm
    BY <1>1, <2>1, <2>3
  <2>5. ysfEnding' \in BOOLEAN
    BY <2>1 DEF YsfInv, YsfTypeOK
  <2> QED
    BY <1>4, <2>3, <2>4, <2>5
<1> QED
  BY <1>5, <1>6

\* The steps that leave lane, slot and reflector alone.
LEMMA AloneYsf ==
  ASSUME YsfInv,
         \/ YsfElWaits \/ YsfElCooldown \/ YsfTime \/ UNCHANGED ysfVars
  PROVE  YsfInv' /\ UNCHANGED down
<1>1. /\ UNCHANGED <<call, ysfEnding, toYsf, down>>
      /\ UNCHANGED rxLeft
  BY DEF YsfElWaits, YsfElCooldown, YsfTime, YsfQuietElapses,
         YsfCooldownElapses, YsfRxQuietElapses, ysfVars
<1>2. /\ pcm \in 0..MaxPcm /\ MaxPcm \in Nat /\ ysfAmbe \in 0..4
      /\ 0 \in 0..4 /\ 0 \in 0..MaxPcm
      /\ pcm < MaxPcm => pcm + 1 \in 0..MaxPcm
  BY ElAssumption DEF YsfInv, YsfTypeOK
<1>3. pcm' \in 0..MaxPcm /\ ysfAmbe' \in 0..4
  BY <1>2 DEF YsfElWaits, YsfElCooldown, YsfTime, YsfQuietElapses,
              YsfCooldownElapses, YsfRxQuietElapses, ysfVars
<1>4. quiet' \in BOOLEAN /\ cooling' \in BOOLEAN /\ rxQuiet' \in BOOLEAN
  BY DEF YsfElWaits, YsfElCooldown, YsfTime, YsfQuietElapses,
         YsfCooldownElapses, YsfRxQuietElapses, ysfVars, timers,
         YsfInv, YsfTypeOK
<1>5. YsfTypeOK'
  BY <1>1, <1>3, <1>4 DEF YsfInv, YsfTypeOK
<1> QED
  BY <1>1, <1>5, LaneAlone

\* A YSFD frame, or none for YSF_RX_HANG_MS, wipes the lane or leaves it.
LEMMA FromYsfYsf ==
  ASSUME YsfInv, FromYsf \/ YsfRxHang
  PROVE  YsfInv' /\ UNCHANGED down
<1>1. /\ UNCHANGED <<ysfAmbe, pcm, quiet, cooling, down>>
      /\ rxQuiet' \in BOOLEAN
  BY DEF FromYsf, YsfHeader, YsfVoice, YsfTerminator,
         YsfRxHang, TakeSlot, timers, YsfInv, YsfTypeOK
<1>2. rxLeft' \in 0..MaxRx
  <2>1. rxLeft \in 0..MaxRx /\ MaxRx \in Nat
    BY ElAssumption DEF YsfInv, YsfTypeOK
  <2>2. UNCHANGED rxLeft \/ (rxLeft > 0 /\ rxLeft' = rxLeft - 1)
    BY DEF FromYsf, YsfHeader, YsfVoice, YsfTerminator,
           YsfRxHang, Received
  <2> QED
    BY <2>1, <2>2
<1>3. EmptyLane \in Lanes
  BY EmptyLaneType
<1>4. \/ UNCHANGED <<call, ysfEnding, toYsf>>
      \/ /\ toYsf' = EmptyLane /\ call' \in {"idle", "peer"}
         /\ ysfEnding' \in BOOLEAN
  BY DEF FromYsf, YsfHeader, YsfVoice, YsfTerminator,
         YsfRxHang, TakeSlot, YsfInv, YsfTypeOK
<1>5. YsfTypeOK'
  BY <1>1, <1>2, <1>3, <1>4 DEF YsfInv, YsfTypeOK
<1>6. CASE UNCHANGED <<call, ysfEnding, toYsf>>
  BY <1>1, <1>5, <1>6, LaneAlone
<1>7. CASE toYsf' = EmptyLane /\ call' \in {"idle", "peer"}
  BY <1>1, <1>5, <1>7, Wiped
<1> QED
  BY <1>1, <1>4, <1>6, <1>7

\* Every step keeps the header where the reflector will hear it first.
LEMMA StepYsf ==
  ASSUME YsfInv, [YsfNext]_ysfVars
  PROVE  YsfInv' /\ (down \in {"none", "EOT"} /\ down' # down => down' = "HEADER")
<1>1. CASE \/ YsfElWaits \/ YsfElCooldown \/ YsfTime \/ UNCHANGED ysfVars
  BY <1>1, AloneYsf
<1>2. CASE FromYsf \/ YsfRxHang
  BY <1>2, FromYsfYsf
<1>3. CASE EmitYsf
  BY <1>3, EmitYsfFirst
<1>4. CASE ElHang \/ Reheader
  <2>1. UNCHANGED down
    BY <1>4 DEF ElHang, Reheader
  <2> QED
    BY <1>4, <2>1, PutsYsf
<1>5. ASSUME NEW new \in 0..1, NEW good \in 0..(MaxPcm + 1), NEW wedged \in BOOLEAN,
             YsfElVoice(new, good, wedged)
      PROVE  YsfInv' /\ (down \in {"none", "EOT"} /\ down' # down => down' = "HEADER")
  <2>1. UNCHANGED down
    BY <1>5 DEF YsfElVoice
  <2> QED
    BY <1>5, <2>1, ElVoiceYsf
<1> QED
  BY <1>1, <1>2, <1>3, <1>4, <1>5 DEF YsfNext, YsfFromEl, YsfTick

\* The state of the EchoLink-YSF bridge never leaves its types (YsfTypeOK):
\* the partial YSF frame never outgrows ysf_ambe_buf.
THEOREM YsfTypeCorrect == YsfSpec => []YsfTypeOK
<1>1. YsfInit => YsfInv
  BY InitYsf
<1>2. YsfInv /\ [YsfNext]_ysfVars => YsfInv'
  BY StepYsf
<1>3. YsfInv => YsfTypeOK
  BY DEF YsfInv
<1> QED
  BY <1>1, <1>2, <1>3, PTL DEF YsfSpec

\* What a reflector hears of an EchoLink call begins with a header (HeaderFirst),
\* whatever preempts calls and however far the emitter is behind when one ends.
THEOREM HeaderAlwaysFirst == YsfSpec => HeaderFirst
<1>1. YsfInit => YsfInv
  BY InitYsf
<1>2. YsfInv /\ [YsfNext]_ysfVars => YsfInv'
  BY StepYsf
<1>3. YsfInv /\ [YsfNext]_ysfVars
        => (down \in {"none", "EOT"} /\ down' # down => down' = "HEADER")
  BY StepYsf
<1> QED
  BY <1>1, <1>2, <1>3, PTL DEF YsfSpec, HeaderFirst

-----------------------------------------------------------------------------
(***************************************************************************)
(* The end of an EchoLink call on its way to the reflector.  Until it is   *)
(* queued the lane holds headers and whole YSF frames, so it is empty once *)
(* the emitter finds nothing more to send; then the EOT is due.            *)
(***************************************************************************)

Draining == ysfEnding /\ call = "el"

\* No EOT, and between headers (or the ends) frames of five voice units.
Whole(s) ==
  /\ \A i \in 1..Len(s) : s[i] # "EOT"
  /\ \A i \in 0..Len(s), k \in 1..(Len(s) + 1) :
       /\ i < k
       /\ i = 0 \/ s[i] = "HEADER"
       /\ k = Len(s) + 1 \/ s[k] = "HEADER"
       /\ \A j \in (i + 1)..(k - 1) : s[j] = "DATA"
       => (k - (i + 1)) % 5 = 0

DrainInv ==
  /\ call = "el" /\ ~ysfEnding => Whole(toYsf.buf)
  /\ Draining => Due(toYsf, 5) /\ \E i \in Nat : EotAt(toYsf, i)

\* A run of voice at the head goes on until it is a frame.
LEMMA RunGoesOn ==
  ASSUME NEW s \in Seq(Tags), Whole(s), NEW p \in 1..4, p <= Len(s),
         \A j \in 1..p : s[j] = "DATA"
  PROVE  p + 1 <= Len(s) /\ \A j \in 1..(p + 1) : s[j] = "DATA"
<1>1. Len(s) \in Nat /\ p + 1 \in 1..(Len(s) + 1) /\ 0 \in 0..Len(s)
  OBVIOUS
<1>2. \A j \in (0 + 1)..((p + 1) - 1) : s[j] = "DATA"
  OBVIOUS
<1>3. ((p + 1) - (0 + 1)) % 5 # 0
  BY Z3
<1>4. ~(p + 1 = Len(s) + 1 \/ s[p + 1] = "HEADER")
  BY <1>1, <1>2, <1>3 DEF Whole
<1>5. p + 1 \in 1..Len(s)
  BY <1>1, <1>4
<1>6. s[p + 1] \in Tags /\ s[p + 1] # "EOT"
  BY <1>5 DEF Whole
<1>7. s[p + 1] = "DATA"
  BY <1>4, <1>6 DEF Tags
<1> QED
  BY <1>1, <1>5, <1>7

\* So the voice at the head of a whole lane is a frame.
LEMMA HeadRun ==
  ASSUME NEW s \in Seq(Tags), Whole(s), s # <<>>, s[1] = "DATA"
  PROVE  5 <= Len(s) /\ \A j \in 1..5 : s[j] = "DATA"
<1>1. 1 <= Len(s) /\ \A j \in 1..1 : s[j] = "DATA"
  OBVIOUS
<1>2. 2 <= Len(s) /\ \A j \in 1..2 : s[j] = "DATA"
  <2>1. 1 \in 1..4 /\ 1 + 1 = 2
    OBVIOUS
  <2> QED
    BY <1>1, <2>1, RunGoesOn
<1>3. 3 <= Len(s) /\ \A j \in 1..3 : s[j] = "DATA"
  <2>1. 2 \in 1..4 /\ 2 + 1 = 3
    OBVIOUS
  <2> QED
    BY <1>2, <2>1, RunGoesOn
<1>4. 4 <= Len(s) /\ \A j \in 1..4 : s[j] = "DATA"
  <2>1. 3 \in 1..4 /\ 3 + 1 = 4
    OBVIOUS
  <2> QED
    BY <1>3, <2>1, RunGoesOn
<1> QED
  <2>1. 4 \in 1..4 /\ 4 + 1 = 5
    OBVIOUS
  <2> QED
    BY <1>4, <2>1, RunGoesOn

\* A header at the end of a whole lane leaves it whole.
LEMMA WholeHeader ==
  ASSUME NEW s \in Seq(Tags), NEW t \in Seq(Tags), Whole(s),
         Len(t) = Len(s) + 1, t[Len(s) + 1] = "HEADER",
         \A i \in 1..Len(s) : t[i] = s[i]
  PROVE  Whole(t)
<1>1. Len(s) \in Nat /\ Len(t) \in Nat
  OBVIOUS
<1>2. \A i \in 1..Len(t) : i \in 1..Len(s) \/ i = Len(s) + 1
  BY <1>1
<1>3. \A i \in 1..Len(t) : t[i] # "EOT"
  BY <1>2 DEF Whole
<1>4. ASSUME NEW i \in 0..Len(t), NEW k \in 1..(Len(t) + 1), i < k,
             i = 0 \/ t[i] = "HEADER", k = Len(t) + 1 \/ t[k] = "HEADER",
             \A j \in (i + 1)..(k - 1) : t[j] = "DATA"
      PROVE  (k - (i + 1)) % 5 = 0
  <2>1. CASE k = Len(t) + 1
    <3>1. i = Len(t)
      <4>1. ASSUME i # Len(t) PROVE Len(s) + 1 \in (i + 1)..(k - 1)
        BY <1>1, <2>1, <4>1
      <4> QED
        BY <1>4, <4>1
    <3>2. k - (i + 1) = 0
      BY <1>1, <2>1, <3>1
    <3> QED
      BY <3>2
  <2>2. CASE k # Len(t) + 1
    <3>1. k \in 1..(Len(s) + 1) /\ i \in 0..Len(s) /\ i \in Nat /\ k \in Nat
      BY <1>1, <1>4, <2>2
    <3>2. i = 0 \/ s[i] = "HEADER"
      <4>1. i # 0 => i \in 1..Len(s)
        BY <1>1, <3>1
      <4> QED
        BY <1>4, <4>1
    <3>3. k = Len(s) + 1 \/ s[k] = "HEADER"
      <4>1. k # Len(s) + 1 => k \in 1..Len(s)
        BY <1>1, <3>1
      <4> QED
        BY <1>4, <2>2, <4>1
    <3>4. \A j \in (i + 1)..(k - 1) : s[j] = "DATA"
      <4>1. \A j \in (i + 1)..(k - 1) : j \in 1..Len(s)
        BY <1>1, <3>1
      <4> QED
        BY <1>4, <4>1
    <3> QED
      BY <1>4, <3>1, <3>2, <3>3, <3>4 DEF Whole
  <2> QED
    BY <2>1, <2>2
<1> QED
  BY <1>3, <1>4 DEF Whole

\* Voice frames at the end of a whole lane leave it whole.
LEMMA WholeData ==
  ASSUME NEW s \in Seq(Tags), NEW t \in Seq(Tags), NEW m \in Nat, Whole(s),
         Len(t) = Len(s) + 5 * m,
         \A i \in 1..Len(s) : t[i] = s[i],
         \A i \in (Len(s) + 1)..(Len(s) + 5 * m) : t[i] = "DATA"
  PROVE  Whole(t)
<1> DEFINE n == 5 * m
<1>1. Len(s) \in Nat /\ Len(t) \in Nat /\ n \in Nat /\ Len(t) = Len(s) + n
  OBVIOUS
<1>2. \A z \in Nat : z % 5 = 0 => (z + n) % 5 = 0
  OBVIOUS
<1>3. \A i \in (Len(s) + 1)..(Len(s) + n) : t[i] = "DATA"
  OBVIOUS
<1> HIDE DEF n
<1>4. \A i \in 1..Len(t) : i \in 1..Len(s) \/ i \in (Len(s) + 1)..(Len(s) + n)
  BY <1>1
<1>5. \A i \in 1..Len(t) : t[i] # "EOT" /\ (t[i] = "HEADER" => i \in 1..Len(s))
  BY <1>3, <1>4 DEF Whole
<1>6. ASSUME NEW i \in 0..Len(t), NEW k \in 1..(Len(t) + 1), i < k,
             i = 0 \/ t[i] = "HEADER", k = Len(t) + 1 \/ t[k] = "HEADER",
             \A j \in (i + 1)..(k - 1) : t[j] = "DATA"
      PROVE  (k - (i + 1)) % 5 = 0
  <2>1. /\ i \in 0..Len(s) /\ i \in Nat /\ k \in Nat
        /\ i = 0 \/ s[i] = "HEADER"
    <3>1. i # 0 => i \in 1..Len(t)
      BY <1>1
    <3>2. i # 0 => i \in 1..Len(s)
      BY <1>5, <1>6, <3>1
    <3>3. i = 0 \/ s[i] = "HEADER"
      BY <1>6, <3>2
    <3> QED
      BY <1>1, <3>2, <3>3
  <2>2. CASE k = Len(t) + 1
    <3> DEFINE l == Len(s) + 1
    <3>1. l \in 1..(Len(s) + 1) /\ i < l
      BY <1>1, <2>1
    <3>2. \A j \in (i + 1)..(l - 1) : j \in (i + 1)..(k - 1) /\ j \in 1..Len(s)
      BY <1>1, <2>1, <2>2
    <3>3. \A j \in (i + 1)..(l - 1) : s[j] = "DATA"
      BY <1>6, <3>2
    <3>4. (l - (i + 1)) % 5 = 0
      BY <2>1, <3>1, <3>3 DEF Whole
    <3>5. l - (i + 1) \in Nat /\ k - (i + 1) = (l - (i + 1)) + n
      BY <1>1, <2>1, <2>2
    <3> QED
      BY <1>2, <3>4, <3>5
  <2>3. CASE k # Len(t) + 1
    <3>1. k \in 1..Len(t)
      BY <1>1, <2>3
    <3>2. k \in 1..Len(s) /\ s[k] = "HEADER"
      BY <1>5, <1>6, <2>3, <3>1
    <3>3. \A j \in (i + 1)..(k - 1) : j \in 1..Len(s)
      BY <1>1, <2>1, <3>2
    <3>4. k \in 1..(Len(s) + 1) /\ \A j \in (i + 1)..(k - 1) : s[j] = "DATA"
      BY <1>1, <1>6, <3>2, <3>3
    <3> QED
      BY <1>6, <2>1, <3>2, <3>4 DEF Whole
  <2> QED
    BY <2>2, <2>3
<1> QED
  BY <1>5, <1>6 DEF Whole

\* What is left of a whole lane when its header or its first frame is taken
\* is whole.
LEMMA WholeRest ==
  ASSUME NEW s \in Seq(Tags), NEW t \in Seq(Tags), Whole(s), NEW c \in {1, 5},
         Len(s) >= c, Len(t) = Len(s) - c,
         \A i \in 1..Len(t) : t[i] = s[i + c],
         c = 1 => s[1] = "HEADER",
         c = 5 => \A j \in 1..5 : s[j] = "DATA"
  PROVE  Whole(t)
<1>1. Len(s) \in Nat /\ Len(t) \in Nat /\ c \in Nat
  OBVIOUS
<1>2. \A i \in 1..Len(t) : i + c \in 1..Len(s)
  BY <1>1
<1>3. \A i \in 1..Len(t) : t[i] # "EOT"
  BY <1>2 DEF Whole
<1>4. ASSUME NEW i \in 0..Len(t), NEW k \in 1..(Len(t) + 1), i < k,
             i = 0 \/ t[i] = "HEADER", k = Len(t) + 1 \/ t[k] = "HEADER",
             \A j \in (i + 1)..(k - 1) : t[j] = "DATA"
      PROVE  (k - (i + 1)) % 5 = 0
  <2>1. k + c \in 1..(Len(s) + 1) /\ i \in Nat /\ k \in Nat
    BY <1>1
  <2>2. k + c = Len(s) + 1 \/ s[k + c] = "HEADER"
    <3>1. k # Len(t) + 1 => k \in 1..Len(t)
      BY <1>1
    <3>2. k = Len(t) + 1 => k + c = Len(s) + 1
      BY <1>1
    <3> QED
      BY <1>4, <3>1, <3>2
  <2>3. \A j \in (i + c + 1)..(k + c - 1) : s[j] = "DATA"
    <3>1. ASSUME NEW j \in (i + c + 1)..(k + c - 1) PROVE s[j] = "DATA"
      <4>1. /\ j - c \in (i + 1)..(k - 1) /\ j - c \in 1..Len(t)
            /\ (j - c) + c = j
        BY <1>1, <2>1
      <4>2. t[j - c] = "DATA" /\ t[j - c] = s[(j - c) + c]
        BY <1>4, <4>1
      <4> QED
        BY <4>1, <4>2
    <3> QED
      BY <3>1
  <2>4. CASE i # 0 \/ c = 1
    <3>1. i + c \in 0..Len(s) /\ i + c < k + c /\ i + c # 0
      BY <1>1, <1>4, <2>1
    <3>2. s[i + c] = "HEADER"
      <4>1. CASE i # 0
        <5>1. i \in 1..Len(t)
          BY <1>1, <4>1
        <5> QED
          BY <1>4, <4>1, <5>1
      <4>2. CASE i = 0 /\ c = 1
        <5>1. i + c = 1
          BY <4>2
        <5> QED
          BY <4>2, <5>1
      <4> QED
        BY <2>4, <4>1, <4>2
    <3>3. ((k + c) - ((i + c) + 1)) % 5 = 0
      <4> DEFINE a == i + c
                 b == k + c
      <4>1. \A j \in (a + 1)..(b - 1) : j \in (i + c + 1)..(k + c - 1)
        BY <1>1, <2>1
      <4>2. /\ a \in 0..Len(s) /\ b \in 1..(Len(s) + 1) /\ a < b /\ s[a] = "HEADER"
            /\ b = Len(s) + 1 \/ s[b] = "HEADER"
            /\ \A j \in (a + 1)..(b - 1) : s[j] = "DATA"
        BY <2>1, <2>2, <2>3, <3>1, <3>2, <4>1
      <4> HIDE DEF a, b
      <4>3. (b - (a + 1)) % 5 = 0
        BY <4>2 DEF Whole
      <4> QED
        BY <4>3 DEF a, b
    <3>4. (k + c) - ((i + c) + 1) = k - (i + 1)
      BY <1>1, <2>1
    <3> QED
      BY <3>3, <3>4
  <2>5. CASE i = 0 /\ c = 5
    <3>1. \A j \in (0 + 1)..(k + c - 1) : s[j] = "DATA"
      <4>1. \A j \in (0 + 1)..(k + c - 1) : j \in 1..5 \/ j \in (i + c + 1)..(k + c - 1)
        BY <2>1, <2>5
      <4> QED
        BY <2>3, <2>5, <4>1
    <3>2. 0 \in 0..Len(s) /\ 0 < k + c
      BY <1>1, <2>1
    <3>3. ((k + c) - (0 + 1)) % 5 = 0
      BY <2>1, <2>2, <3>1, <3>2 DEF Whole
    <3>4. k - (i + 1) \in Nat /\ (k + c) - (0 + 1) = (k - (i + 1)) + 5
      BY <1>4, <2>1, <2>5
    <3>5. \A z \in Nat : (z + 5) % 5 = 0 => z % 5 = 0
      OBVIOUS
    <3> QED
      BY <3>3, <3>4, <3>5
  <2> QED
    BY <2>4, <2>5
<1> QED
  BY <1>3, <1>4 DEF Whole

\* A whole lane from which nothing can be taken is empty.
LEMMA NothingPending ==
  ASSUME NEW l \in Lanes, l.n = Len(l.buf), Whole(l.buf),
         ~(l.n > 0 /\ l # GetRest(l, 5))
  PROVE  l.n = 0
<1> SUFFICES ASSUME l.n # 0 PROVE FALSE
  OBVIOUS
<1>1. l.buf \in Seq(Tags) /\ l.n \in Nat /\ l.buf # <<>> /\ 5 \in {3, 5}
  BY DEF Lanes
<1>2. l = GetRest(l, 5)
  BY <1>1
<1>3. GetTag(l, 5) # "NODATA"
  <2>1. CASE l.buf[1] = "DATA"
    <3>1. l.n >= 5
      BY <1>1, <2>1, HeadRun
    <3>2. GetTag(l, 5) = "DATA"
      BY <1>1, <2>1, <3>1, GetFrame
    <3> QED
      BY <3>2
  <2>2. CASE l.buf[1] # "DATA"
    <3>1. GetTag(l, 5) = l.buf[1]
      BY <1>1, <2>2, GetInStep
    <3>2. l.buf[1] \in Tags
      BY <1>1
    <3> QED
      BY <3>1, <3>2 DEF Tags
  <2> QED
    BY <2>1, <2>2
<1> QED
  BY <1>1, <1>2, <1>3, GetTakes

\* EchoLink audio leaves the lane whole.
LEMMA ElVoiceWhole ==
  ASSUME YsfInv, DrainInv, NEW new \in 0..1, NEW good \in 0..(MaxPcm + 1),
         NEW wedged \in BOOLEAN, YsfElVoice(new, good, wedged), call' = "el"
  PROVE  Whole(toYsf'.buf)
<1> DEFINE opens == call = "idle" /\ good > 0
           total == (IF opens THEN 0 ELSE ysfAmbe) + good
           m == FullFrames(total)
           l == IF opens THEN Announced ELSE toYsf
<1>1. /\ toYsf \in Lanes /\ toYsf.n \in Nat /\ toYsf.n = Len(toYsf.buf)
      /\ MaxPcm \in Nat /\ MaxYsf \in Nat /\ CapYsf \in Nat /\ CapYsf >= 5
      /\ MaxYsf + MaxPcm + 6 <= CapYsf /\ ysfAmbe \in 0..4
  BY YsfLane, ElYsfAssumption DEF YsfInv, YsfTypeOK
<1>2. /\ toYsf.n + 5 <= MaxYsf /\ call # "peer" /\ ~ysfEnding
      /\ call' = IF opens THEN "el" ELSE call
      /\ toYsf' = PutData(l, 5 * m, CapYsf)
  BY DEF YsfElVoice
<1>3. total \in Nat /\ total <= MaxPcm + 5
  BY <1>1
<1>4. m \in Nat /\ 5 * m <= total
  <2> HIDE DEF total
  <2> QED
    BY <1>3, Remainder DEF FullFrames
<1>5. l \in Lanes /\ l.n = Len(l.buf) /\ l.n + 5 <= MaxYsf + 1 /\ l.n \in Nat
      /\ Whole(l.buf)
  <2>1. CASE opens
    <3>1. l = Announced
      BY <2>1
    <3>2. /\ Announced \in Lanes /\ Announced.n = 1
          /\ Announced.n = Len(Announced.buf) /\ Announced.buf[1] = "HEADER"
      BY <1>1, AnnouncedLane
    <3> HIDE DEF l, opens, total, m
    <3>3. l \in Lanes /\ l.n = 1 /\ Len(l.buf) = 1 /\ l.buf[1] = "HEADER"
      BY <3>1, <3>2, Zenon
    <3>4. 1 + 5 <= MaxYsf + 1
      BY <1>1, <1>2
    <3>5. Whole(l.buf)
      BY <3>3 DEF Whole
    <3> QED
      BY <3>3, <3>4, <3>5
  <2>2. CASE ~opens
    <3>1. l = toYsf /\ call = "el"
      BY <1>2, <2>2
    <3>2. Whole(toYsf.buf)
      BY <1>2, <3>1 DEF DrainInv
    <3>3. toYsf.n + 5 <= MaxYsf + 1
      BY <1>1, <1>2
    <3> HIDE DEF l
    <3> QED
      BY <1>1, <3>1, <3>2, <3>3, Zenon
  <2> QED
    BY <2>1, <2>2
<1> HIDE DEF l, m, total, opens
<1>6. 5 * m \in Nat /\ Len(l.buf) + 5 * m <= CapYsf
  <2> DEFINE z == 5 * m
  <2>1. z \in Nat /\ z <= total
    BY <1>4
  <2> HIDE DEF z
  <2>2. z <= MaxPcm + 5 /\ l.n <= MaxYsf - 4
    BY <1>1, <1>3, <1>5, <2>1
  <2>3. l.n + z <= CapYsf
    BY <1>1, <1>5, <2>1, <2>2
  <2> QED
    BY <1>5, <2>1, <2>3 DEF z
<1>7. /\ toYsf' \in Lanes /\ Len(toYsf'.buf) = Len(l.buf) + 5 * m
      /\ \A i \in 1..Len(l.buf) : toYsf'.buf[i] = l.buf[i]
      /\ \A i \in (Len(l.buf) + 1)..(Len(l.buf) + 5 * m) : toYsf'.buf[i] = "DATA"
  <2> DEFINE r == PutData(l, 5 * m, CapYsf)
  <2>1. /\ r \in Lanes /\ Len(r.buf) = Len(l.buf) + 5 * m
        /\ \A i \in 1..Len(l.buf) : r.buf[i] = l.buf[i]
        /\ \A i \in (Len(l.buf) + 1)..(Len(l.buf) + 5 * m) : r.buf[i] = "DATA"
    <3> DEFINE z == 5 * m
    <3>1. z \in Nat /\ Len(l.buf) + z <= CapYsf /\ l \in Lanes /\ CapYsf \in Nat
      BY <1>1, <1>5, <1>6
    <3>2. r = PutData(l, z, CapYsf)
      OBVIOUS
    <3> HIDE DEF z, r
    <3>3. /\ r \in Lanes /\ Len(r.buf) = Len(l.buf) + z
          /\ \A i \in 1..Len(l.buf) : r.buf[i] = l.buf[i]
          /\ \A i \in (Len(l.buf) + 1)..(Len(l.buf) + z) : r.buf[i] = "DATA"
      BY <3>1, <3>2, PutDataAppends
    <3> QED
      BY <3>3 DEF z
  <2>2. toYsf' = r
    BY <1>2
  <2> HIDE DEF r
  <2> QED
    BY <2>1, <2>2, Zenon
<1>8. l.buf \in Seq(Tags) /\ toYsf'.buf \in Seq(Tags)
  BY <1>5, <1>7 DEF Lanes
<1> QED
  BY <1>4, <1>5, <1>7, <1>8, WholeData

\* A header of another talker leaves the lane whole.
LEMMA ReheaderWhole ==
  ASSUME YsfInv, DrainInv, Reheader
  PROVE  Whole(toYsf'.buf)
<1>1. /\ toYsf \in Lanes /\ toYsf.n \in Nat /\ toYsf.n = Len(toYsf.buf)
      /\ CapYsf \in Nat /\ MaxYsf \in Nat /\ MaxPcm \in Nat
      /\ MaxYsf + MaxPcm + 6 <= CapYsf
  BY YsfLane
<1>2. toYsf' = PutHeader(toYsf, CapYsf) /\ toYsf.n + 1 <= MaxYsf /\ Whole(toYsf.buf)
  BY DEF Reheader, DrainInv
<1>3. toYsf.n < CapYsf
  BY <1>1, <1>2
<1>4. Extends(toYsf, toYsf', "HEADER") /\ toYsf'.n = toYsf.n + 1
  BY <1>1, <1>2, <1>3, PutHeaderExtends
<1>5. /\ toYsf.buf \in Seq(Tags) /\ toYsf'.buf \in Seq(Tags)
      /\ Len(toYsf'.buf) = Len(toYsf.buf) + 1
      /\ toYsf'.buf[Len(toYsf.buf) + 1] = "HEADER"
      /\ \A i \in 1..Len(toYsf.buf) : toYsf'.buf[i] = toYsf.buf[i]
  BY <1>1, <1>4 DEF Extends, Lanes
<1> QED
  BY <1>2, <1>5, WholeHeader

\* What the emitter leaves of a whole lane is whole.
LEMMA EmitWhole ==
  ASSUME NEW l \in Lanes, l.n = Len(l.buf), Whole(l.buf), GetTag(l, 5) # "NODATA"
  PROVE  Whole(GetRest(l, 5).buf)
<1> DEFINE r == GetRest(l, 5)
<1>1. /\ l.buf \in Seq(Tags) /\ l.n \in Nat /\ 5 \in {3, 5}
      /\ r \in Lanes /\ r.buf \in Seq(Tags) /\ l.buf # <<>>
  <2>1. r \in Lanes /\ l.buf # <<>>
    BY GetRestType, GetInStep
  <2> HIDE DEF r
  <2> QED
    BY <2>1 DEF Lanes
<1>2. CASE l.buf[1] = "DATA"
  <2>1. 5 <= Len(l.buf) /\ \A j \in 1..5 : l.buf[j] = "DATA"
    BY <1>1, <1>2, HeadRun
  <2>2. /\ r.n = l.n - 5 /\ Len(r.buf) = l.n - 5
        /\ \A i \in 1..(l.n - 5) : r.buf[i] = l.buf[i + 5]
    BY <1>1, <1>2, <2>1, GetFrame
  <2> HIDE DEF r
  <2>3. /\ Len(l.buf) >= 5 /\ Len(r.buf) = Len(l.buf) - 5
        /\ \A i \in 1..Len(r.buf) : r.buf[i] = l.buf[i + 5]
    BY <1>1, <2>1, <2>2
  <2>4. Whole(r.buf)
    <3>1. PICK c \in {1, 5} : c = 5
      OBVIOUS
    <3>2. /\ Len(l.buf) >= c /\ Len(r.buf) = Len(l.buf) - c
          /\ \A i \in 1..Len(r.buf) : r.buf[i] = l.buf[i + c]
          /\ c = 1 => l.buf[1] = "HEADER"
          /\ c = 5 => \A j \in 1..5 : l.buf[j] = "DATA"
      <4>1. c # 1
        BY <3>1
      <4> QED
        BY <2>1, <2>3, <3>1, <4>1, Zenon
    <3> QED
      BY <1>1, <3>2, WholeRest
  <2> QED
    BY <2>4 DEF r
<1>3. CASE l.buf[1] # "DATA"
  <2>1. HeadIsTag(l) /\ Len(l.buf) >= 1 /\ 1 \in 1..Len(l.buf)
    BY <1>1, <1>3 DEF HeadIsTag
  <2>2. r.buf = Dropped(l.buf, 1)
    BY <2>1 DEF GetRest
  <2> HIDE DEF r
  <2>3. /\ Len(r.buf) = Len(l.buf) - 1
        /\ \A i \in 1..Len(r.buf) : r.buf[i] = l.buf[i + 1]
    BY <1>1, <2>1, <2>2, DroppedLen
  <2>4. l.buf[1] = "HEADER"
    BY <1>1, <1>3, <2>1 DEF Whole, Tags
  <2>5. Whole(r.buf)
    <3>1. PICK c \in {1, 5} : c = 1
      OBVIOUS
    <3>2. /\ Len(l.buf) >= c /\ Len(r.buf) = Len(l.buf) - c
          /\ \A i \in 1..Len(r.buf) : r.buf[i] = l.buf[i + c]
          /\ c = 1 => l.buf[1] = "HEADER"
          /\ c = 5 => \A j \in 1..5 : l.buf[j] = "DATA"
      BY <2>1, <2>3, <2>4, <3>1
    <3> QED
      BY <1>1, <3>2, WholeRest
  <2> QED
    BY <2>5 DEF r
<1> QED
  BY <1>2, <1>3

\* While the end of a call drains, the emitter brings it nearer and nothing
\* else touches the lane, unless a YSF call takes the slot.
DrainStep ==
  \/ ysfEnding' = FALSE
  \/ call' = "peer"
  \/ /\ ysfEnding' /\ call' = "el"
     /\ IF EmitYsf THEN toYsf'.n < toYsf.n ELSE UNCHANGED toYsf

\* Every step keeps the end of the call due, and drains it so.
LEMMA StepDrain ==
  ASSUME Steady, YsfInv, DrainInv, YsfNext
  PROVE  DrainInv' /\ (Draining => DrainStep)
<1>1. /\ toYsf \in Lanes /\ toYsf.n \in Nat /\ toYsf.n = Len(toYsf.buf)
      /\ CapYsf \in Nat /\ MaxYsf \in Nat /\ MaxPcm \in Nat
      /\ MaxYsf + MaxPcm + 6 <= CapYsf /\ 5 \in {3, 5}
      /\ ysfEnding \in BOOLEAN
  BY YsfLane DEF YsfInv, YsfTypeOK
<1>2. ASSUME UNCHANGED <<call, ysfEnding, toYsf>>, ~EmitYsf
      PROVE  DrainInv' /\ (Draining => DrainStep)
  <2>1. DrainInv'
    BY <1>2 DEF DrainInv, Draining, Whole, Due, EotAt
  <2>2. Draining => DrainStep
    BY <1>2 DEF Draining, DrainStep
  <2> QED
    BY <2>1, <2>2
<1>3. ASSUME call' # "el", call' = "peer" \/ call # "el"
      PROVE  DrainInv' /\ (Draining => DrainStep)
  BY <1>3 DEF DrainInv, Draining, DrainStep
<1>4. CASE EmitYsf
  <2>1. CASE GetTag(toYsf, 5) = "EOT"
    <3>1. call' = "idle" /\ ysfEnding' = FALSE
      BY <1>4, <2>1 DEF EmitYsf, CallOver
    <3> QED
      BY <3>1 DEF DrainInv, Draining, DrainStep
  <2>2. CASE GetTag(toYsf, 5) # "EOT"
    <3>1. /\ GetTag(toYsf, 5) \in {"HEADER", "DATA"} /\ toYsf' = GetRest(toYsf, 5)
          /\ UNCHANGED <<call, ysfEnding>> /\ call = "el"
      BY <1>4, <2>2 DEF EmitYsf
    <3>2. CASE ~ysfEnding
      <4>1. Whole(GetRest(toYsf, 5).buf)
        <5>1. Whole(toYsf.buf)
          BY <3>1, <3>2 DEF DrainInv
        <5> QED
          BY <1>1, <3>1, <5>1, EmitWhole
      <4>2. Whole(toYsf'.buf) /\ ysfEnding' = FALSE
        BY <1>1, <3>1, <3>2, <4>1
      <4> QED
        BY <3>2, <4>2 DEF DrainInv, Draining, Whole
    <3>3. CASE ysfEnding
      <4>1. Due(toYsf, 5)
        BY <3>1, <3>3 DEF DrainInv, Draining
      <4>2. PICK i \in Nat : EotAt(toYsf, i)
        BY <3>1, <3>3 DEF DrainInv, Draining
      <4>3. Due(GetRest(toYsf, 5), 5)
        BY <1>1, <2>2, <4>1, GetDue
      <4>4. EotAt(GetRest(toYsf, 5), i - 5) /\ i > 5
        <5>1. i % 5 = 1 /\ \A j \in 1..(i - 1) : toYsf.buf[j] = "DATA"
          BY <4>1, <4>2 DEF Due
        <5> QED
          BY <1>1, <2>2, <4>2, <5>1, EotNearer
      <4>5. GetRest(toYsf, 5).n < toYsf.n
        BY <1>1, <3>1, GetTakes
      <4>6. Due(toYsf', 5) /\ EotAt(toYsf', i - 5) /\ i - 5 \in Nat /\ toYsf'.n < toYsf.n
        BY <3>1, <4>3, <4>4, <4>5
      <4>7. ysfEnding' /\ call' = "el"
        BY <3>1, <3>3
      <4>8. DrainInv'
        BY <4>6, <4>7 DEF DrainInv, Draining, Due, EotAt
      <4>9. DrainStep
        BY <1>4, <4>6, <4>7 DEF DrainStep
      <4> QED
        BY <4>8, <4>9
    <3> QED
      BY <3>2, <3>3
  <2> QED
    BY <2>1, <2>2
<1>5. CASE ElHang
  <2>1. /\ call = "el" /\ ~ysfEnding /\ ~Pending /\ UNCHANGED call
        /\ ysfEnding' = TRUE /\ toYsf' = PutEot(toYsf, 5, CapYsf)
    BY <1>5 DEF ElHang
  <2>2. toYsf.n = 0
    BY <1>1, <2>1, NothingPending DEF DrainInv, Pending
  <2>3. toYsf.n + (5 + 1) <= CapYsf /\ \A i \in 1..Len(toYsf.buf) : toYsf.buf[i] = "DATA"
    BY <1>1, <2>2
  <2>4. EotPut(toYsf, 5, PutEot(toYsf, 5, CapYsf))
    BY <1>1, <2>3, PutEotShape
  <2>5. EotPut(toYsf, 5, toYsf')
    BY <2>1, <2>4, Zenon
  <2>6. Due(toYsf', 5)
    BY <1>1, <2>3, <2>5, EotPutDue
  <2>7. Len(toYsf'.buf) \in Nat /\ EotAt(toYsf', Len(toYsf'.buf))
    <3>1. /\ toYsf' \in Lanes /\ toYsf'.buf[Len(toYsf'.buf)] = "EOT"
          /\ toYsf'.n % 5 = 1 /\ toYsf'.n = Len(toYsf'.buf)
      BY <2>5 DEF EotPut
    <3>2. Len(toYsf'.buf) \in Nat
      BY <3>1 DEF Lanes
    <3>3. Len(toYsf'.buf) # 0
      <4>1. 0 % 5 # 1
        OBVIOUS
      <4> QED
        BY <3>1, <4>1
    <3> QED
      BY <3>1, <3>2, <3>3 DEF EotAt
  <2>8. DrainInv'
    BY <2>1, <2>6, <2>7 DEF DrainInv, Draining, Due, EotAt
  <2> QED
    BY <2>1, <2>8 DEF Draining
<1>6. ASSUME ~ysfEnding, ysfEnding' = FALSE, call' = "el" => Whole(toYsf'.buf)
      PROVE  DrainInv' /\ (Draining => DrainStep)
  BY <1>6 DEF DrainInv, Draining, Whole
<1>7. CASE Reheader
  <2>1. ~ysfEnding /\ ysfEnding' = FALSE
    BY <1>1, <1>7 DEF Reheader
  <2> QED
    BY <1>6, <1>7, <2>1, ReheaderWhole
<1>8. ASSUME NEW new \in 0..1, NEW good \in 0..(MaxPcm + 1), NEW wedged \in BOOLEAN,
             YsfElVoice(new, good, wedged)
      PROVE  DrainInv' /\ (Draining => DrainStep)
  <2>1. ~ysfEnding /\ ysfEnding' = FALSE
    BY <1>1, <1>8 DEF YsfElVoice
  <2> QED
    BY <1>6, <1>8, <2>1, ElVoiceWhole
<1>9. CASE ~EmitYsf /\ (YsfElWaits \/ YsfElCooldown \/ YsfTime)
  BY <1>2, <1>9
  DEF YsfElWaits, YsfElCooldown, YsfTime, YsfQuietElapses, YsfCooldownElapses,
      YsfRxQuietElapses
<1>10. CASE ~EmitYsf /\ (FromYsf \/ YsfRxHang)
  <2>1. \/ UNCHANGED <<call, ysfEnding, toYsf>>
        \/ call' = "peer"
        \/ call = "peer" /\ call' = "idle"
    BY <1>10 DEF FromYsf, YsfHeader, YsfVoice, YsfTerminator, YsfRxHang, TakeSlot
  <2> QED
    BY <1>2, <1>3, <1>10, <2>1
<1> QED
  BY <1>4, <1>5, <1>7, <1>8, <1>9, <1>10 DEF YsfNext, YsfFromEl, YsfTick

\* The end of an EchoLink call never gets stuck on its way to the reflector
\* while it has the slot, whatever the talker, the vocoder and the timers did
\* before: bridge_el_emit_ysf_from_conv always has a frame or the EOT to send,
\* each one it sends leaves less, and nothing is queued behind.  The emitter
\* is taken to have sent what was queued by EL_HANG_MS after the last speech.
\* This is the safety half of DrainEnds.
THEOREM DrainNeverStuck ==
  ASSUME Steady
  PROVE  YsfSpec => /\ [](Draining => Pending /\ GetTag(toYsf, 5) \in {"DATA", "EOT"})
                    /\ [][Draining => DrainStep]_ysfVars
<1>1. YsfInit => YsfInv /\ DrainInv
  BY InitYsf DEF YsfInit, DrainInv, Draining
<1>2. YsfInv /\ DrainInv /\ [YsfNext]_ysfVars
        => YsfInv' /\ DrainInv' /\ [Draining => DrainStep]_ysfVars
  <2> SUFFICES ASSUME YsfInv, DrainInv, [YsfNext]_ysfVars
               PROVE  YsfInv' /\ DrainInv' /\ [Draining => DrainStep]_ysfVars
    OBVIOUS
  <2>1. CASE YsfNext
    BY <2>1, StepYsf, StepDrain
  <2>2. CASE UNCHANGED ysfVars
    <3>1. DrainInv'
      BY <2>2 DEF ysfVars, DrainInv, Draining, Whole, Due, EotAt
    <3> QED
      BY <2>2, <3>1, StepYsf
  <2> QED
    BY <2>1, <2>2
<1>3. YsfInv /\ DrainInv
        => (Draining => Pending /\ GetTag(toYsf, 5) \in {"DATA", "EOT"})
  <2> SUFFICES ASSUME YsfInv, DrainInv, Draining
               PROVE  Pending /\ GetTag(toYsf, 5) \in {"DATA", "EOT"}
    OBVIOUS
  <2>1. toYsf \in Lanes /\ toYsf.n = Len(toYsf.buf) /\ 5 \in {3, 5}
    BY YsfLane
  <2>2. PICK i \in Nat : EotAt(toYsf, i)
    BY DEF DrainInv
  <2>3. i % 5 = 1 /\ \A j \in 1..(i - 1) : toYsf.buf[j] = "DATA"
    BY <2>2 DEF DrainInv, Due
  <2>4. GetTag(toYsf, 5) \in {"DATA", "EOT"}
    BY <2>1, <2>2, <2>3, EotNearer
  <2>5. toYsf.n > 0 /\ toYsf # GetRest(toYsf, 5)
    BY <2>1, <2>4, GetTakes
  <2> QED
    BY <2>4, <2>5 DEF Pending
<1> QED
  BY <1>1, <1>2, <1>3, PTL DEF YsfSpec

\* Once a YSF call has taken the slot from an EchoLink call, ysf_ending is
\* never cleared: no step of the program does it, no EchoLink call gets the
\* slot again and the reflector hears nothing more, whatever arrives.  The
\* run that refutes YsfEndingEnds shows one such behaviour; here it is every
\* continuation of it.
THEOREM LostSlotIsForever ==
  YsfSpec => [][ysfEnding /\ call # "el"
                  => ysfEnding' /\ call' # "el" /\ UNCHANGED down]_ysfVars
<1>1. ASSUME YsfNext, ysfEnding, call # "el"
      PROVE  ysfEnding' /\ call' # "el" /\ UNCHANGED down
  <2>1. CASE YsfFromEl
    BY <1>1, <2>1 DEF YsfFromEl, YsfElWaits, YsfElCooldown, Reheader, YsfElVoice
  <2>2. CASE FromYsf
    BY <1>1, <2>2 DEF FromYsf, YsfHeader, YsfVoice, YsfTerminator, TakeSlot
  <2>3. CASE YsfTick
    BY <1>1, <2>3 DEF YsfTick, EmitYsf, ElHang, YsfRxHang
  <2>4. CASE YsfTime
    BY <1>1, <2>4 DEF YsfTime, YsfQuietElapses, YsfCooldownElapses, YsfRxQuietElapses
  <2> QED
    BY <1>1, <2>1, <2>2, <2>3, <2>4 DEF YsfNext
<1>2. [YsfNext]_ysfVars => [ysfEnding /\ call # "el"
                              => ysfEnding' /\ call' # "el" /\ UNCHANGED down]_ysfVars
  BY <1>1
<1> QED
  BY <1>2, PTL DEF YsfSpec
=============================================================================
