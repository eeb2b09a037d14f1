---------------------------- MODULE BridgeProofs ----------------------------
(***************************************************************************)
(* Proofs about Bridge, for every set of stream ids, every configuration   *)
(* and every size of the rings and queues: type correctness, the clean     *)
(* idle state and the identity the clearing talkgroup is keyed up under,   *)
(* with both networks talking; then the order of the frames on the uplink  *)
(* and towards the reflector, each for traffic in its own direction; and,  *)
(* again for both networks, that a connect PTT and the end of a call are   *)
(* never stuck.                                                            *)
(***************************************************************************)
EXTENDS Bridge, ModeConvProofs

\* The follow-on stream of a connect PTT, whose headers are still to be sent,
\* is one to the configured talkgroup.
PttAgrees == ptt.active /\ ptt.phase = 0 => ptt.tg = "tg"

IInv ==
  /\ TypeOK
  /\ IdleIsClean
  /\ PttAgrees
  /\ ClearedByBridge

\* Caps are large enough for the puts of the lanes.
LEMMA Caps == /\ CapDmr \in Nat /\ CapDmr >= 5
              /\ CapYsf \in Nat /\ CapYsf >= 5
BY BridgeAssumption

\* The empty lane is a lane.
LEMMA EmptyLaneType == EmptyLane \in Lanes
BY DEF EmptyLane, Lanes, Tags

\* ... with nothing in it.
LEMMA EmptyLaneFields == EmptyLane.n = 0 /\ EmptyLane.buf = <<>>
BY DEF EmptyLane

\* Fresh ids are ids.
LEMMA FreshType == Fresh \subseteq Streams
BY DEF Fresh, Streams

\* No PTT, and a stream of one, are PTT states.
LEMMA NoPttType == /\ NoPtt \in PttStates
                   /\ ~NoPtt.active
BY DEF NoPtt, PttStates

\* The connect PTT a fresh stream starts is a state of the PTT record.
LEMMA PttStreamType ==
  ASSUME NEW tg \in {"tg", "4000"}, NEW clearing \in BOOLEAN
  PROVE  /\ PttStream(tg, clearing) \in PttStates
         /\ PttStream(tg, clearing).tg = tg
BY DEF PttStream, PttStates

\* Sending the headers of a stream leaves a PTT state.
LEMMA PttHeaded ==
  ASSUME NEW p \in PttStates
  PROVE  /\ [p EXCEPT !.phase = 1] \in PttStates
         /\ [p EXCEPT !.phase = 1].phase # 0
BY DEF PttStates

\* Counting a frame of a PTT that is sending voice leaves it one
\* (bridge_emit_connect_ptt).
LEMMA PttFramed ==
  ASSUME NEW p \in PttStates, NEW k \in 0..5, p.phase # 0
  PROVE  /\ [p EXCEPT !.frames = k] \in PttStates
         /\ [p EXCEPT !.frames = k].phase # 0
BY DEF PttStates

-----------------------------------------------------------------------------
(* Frames *)

\* bridge_send_dmrd builds a frame.
LEMMA DmrdType ==
  ASSUME TypeOK, NEW kind \in {"VHEAD", "VOICE", "VTERM"}, NEW n \in 0..5,
         NEW known \in BOOLEAN
  PROVE  Dmrd(kind, n, known) \in Frames
<1>1. stream \in Streams
  BY DEF TypeOK
<1>2. TxTg \in {"tg", "4000"}
  BY DEF TypeOK, PttStates, TxTg
<1>3. RfId(known) \in {"bridge", "talker"}
  BY DEF RfId
<1> QED
  BY <1>1, <1>2, <1>3 DEF Dmrd, Frames

\* Three headers, under the identity and to the talkgroup of the moment.
LEMMA Vhead3Type ==
  ASSUME TypeOK
  PROVE  /\ Vhead3 \in Seq(Frames)
         /\ \A i \in 1..Len(Vhead3) : Vhead3[i].tg = TxTg
<1>1. Dmrd("VHEAD", 0, talker) \in Frames
  BY DmrdType DEF TypeOK
<1>2. Dmrd("VHEAD", 0, talker).tg = TxTg
  BY DEF Dmrd
<1> DEFINE d == Dmrd("VHEAD", 0, talker)
<1>3. d \in Frames /\ d.tg = TxTg
  BY <1>1, <1>2
<1>4. Vhead3 = [i \in 1..3 |-> d]
  BY DEF Vhead3
<1> HIDE DEF d
<1> QED
  BY <1>3, <1>4

\* The end of a stream is frames, none of them a header.
LEMMA ClosingType ==
  ASSUME TypeOK, NEW sent \in 0..5, NEW known \in BOOLEAN
  PROVE  /\ Closing(sent, known) \in Seq(Frames)
         /\ \A i \in 1..Len(Closing(sent, known)) :
              Closing(sent, known)[i].kind # "VHEAD"
<1> DEFINE k == (6 - sent) % 6
           F == {f \in Frames : f.kind # "VHEAD"}
           pad == [i \in 1..k |-> Dmrd("VOICE", sent + i - 1, known)]
           last == <<Dmrd("VTERM", 0, known)>>
<1>1. k \in 0..5 /\ \A i \in 1..k : sent + i - 1 \in 0..5
  BY Z3
<1>2. \A i \in 1..k : Dmrd("VOICE", sent + i - 1, known) \in F
  BY <1>1, DmrdType DEF Dmrd
<1>3. Dmrd("VTERM", 0, known) \in F
  BY DmrdType DEF Dmrd
<1>4. pad \in Seq(F)
  <2>1. k \in Nat
    BY <1>1
  <2> HIDE DEF k, F
  <2> QED
    BY <1>2, <2>1
<1>5. last \in Seq(F)
  BY <1>3
<1>6. Closing(sent, known) = pad \o last
  BY DEF Closing
<1> HIDE DEF pad, last, F
<1>7. Closing(sent, known) \in Seq(F)
  BY <1>4, <1>5, <1>6, ConcatProperties
<1>8. \A s \in Seq(F) : s \in Seq(Frames) /\ \A i \in 1..Len(s) : s[i].kind # "VHEAD"
  BY DEF F
<1> QED
  BY <1>7, <1>8

-----------------------------------------------------------------------------
(* The inductive invariant *)

\* A step that sends nothing keeps what was said of the frames.
LEMMA Silent ==
  ASSUME IInv, UNCHANGED up
  PROVE  up' \in Seq(Frames) /\ ClearedByBridge'
BY DEF IInv, TypeOK, ClearedByBridge

\* The frames of a stream's end keep it too.
LEMMA Ended ==
  ASSUME IInv, NEW sent \in 0..5, NEW known \in BOOLEAN,
         up' = Closing(sent, known)
  PROVE  up' \in Seq(Frames) /\ ClearedByBridge'
BY ClosingType DEF IInv, ClearedByBridge

\* bridge_init establishes the invariant.
LEMMA InitIInv == Init => IInv
<1> SUFFICES ASSUME Init PROVE IInv
  OBVIOUS
<1>1. TypeOK
  <2>1. stream \in Streams /\ txFrames \in 0..5 /\ up \in Seq(Frames)
    BY DEF Init, Streams
  <2> QED
    BY <2>1, EmptyLaneType, NoPttType, Zenon DEF Init, TypeOK
<1>2. IdleIsClean
  BY EmptyLaneFields, Zenon DEF Init, IdleIsClean
<1>3. PttAgrees /\ ClearedByBridge
  BY NoPttType DEF Init, PttAgrees, ClearedByBridge
<1> QED
  BY <1>1, <1>2, <1>3 DEF IInv

\* The end of a call leaves the bridge clean.
LEMMA ResetClean ==
  ASSUME ResetCall
  PROVE  /\ IdleIsClean'
         /\ call' \in BOOLEAN /\ talker' \in BOOLEAN /\ txFrames' \in 0..5
         /\ gated' \in BOOLEAN /\ toDmr' \in Lanes /\ toYsf' \in Lanes
<1>1. IdleIsClean'
  BY EmptyLaneFields, Zenon DEF ResetCall, IdleIsClean
<1>2. txFrames' \in 0..5
  BY DEF ResetCall
<1> QED
  BY <1>1, <1>2, EmptyLaneType, Zenon DEF ResetCall

\* Connect PTT steps.
LEMMA PttStep ==
  ASSUME IInv,
         \/ \E s \in Own : PttStart(s) \/ PttFinish(s)
         \/ PttLinkDown \/ PttHeader \/ PttVoice
  PROVE  IInv'
<1> USE DEF IInv
<1>1. ASSUME NEW s \in Own, PttStart(s) PROVE IInv'
  <2>1. CASE call
    BY <1>1, <2>1, Silent DEF PttStart, TypeOK, IdleIsClean, PttAgrees, conv
  <2>2. CASE ~call
    <3> DEFINE d == [kind |-> "VHEAD", n |-> 0, stream |-> s,
                     tg |-> IF Clear THEN "4000" ELSE "tg",
                     src |-> RfId(talker)]
    <3>1. ~talker
      BY <2>2 DEF IdleIsClean
    <3>2. d \in Frames /\ d.src = "bridge"
      BY <3>1, <1>1 DEF Frames, Streams, RfId
    <3>3. up' = [i \in 1..3 |-> d]
      BY <1>1, <2>2 DEF PttStart
    <3> HIDE DEF d
    <3>4. up' \in Seq(Frames) /\ ClearedByBridge'
      BY <3>2, <3>3 DEF ClearedByBridge
    <3>5. ptt' \in PttStates /\ PttAgrees'
      <4> DEFINE tg == IF Clear THEN "4000" ELSE "tg"
      <4>1. tg \in {"tg", "4000"} /\ Clear \in BOOLEAN
        BY BridgeAssumption
      <4>2. ptt' = [PttStream(tg, Clear) EXCEPT !.phase = 1]
        BY <1>1, <2>2 DEF PttStart
      <4> HIDE DEF tg
      <4> QED
        BY <4>1, <4>2, PttStreamType, PttHeaded DEF PttAgrees
    <3>6. stream' \in Streams
      BY <1>1, <2>2 DEF PttStart, Streams
    <3>7. TypeOK'
      BY <1>1, <3>4, <3>5, <3>6 DEF PttStart, TypeOK, conv
    <3>8. IdleIsClean'
      BY <1>1 DEF PttStart, IdleIsClean, conv
    <3> QED
      BY <3>4, <3>5, <3>7, <3>8
  <2> QED
    BY <2>1, <2>2
<1>2. ASSUME NEW s \in Own, PttFinish(s) PROVE IInv'
  <2>1. ptt.frames \in 0..5 /\ talker \in BOOLEAN
    BY DEF TypeOK, PttStates
  <2>2. up' \in Seq(Frames) /\ ClearedByBridge'
    BY <1>2, <2>1, Ended DEF PttFinish
  <2>3. ptt' \in PttStates /\ PttAgrees'
    <3>1. ptt' = PttStream("tg", FALSE) \/ ptt' = NoPtt
      BY <1>2 DEF PttFinish
    <3> QED
      BY <3>1, PttStreamType, NoPttType DEF PttAgrees
  <2>4. stream' \in Streams
    BY <1>2 DEF PttFinish, Streams, TypeOK
  <2>5. TypeOK'
    BY <1>2, <2>2, <2>3, <2>4 DEF PttFinish, TypeOK, conv, links
  <2>6. IdleIsClean'
    BY <1>2 DEF PttFinish, IdleIsClean, conv
  <2> QED
    BY <2>2, <2>3, <2>5, <2>6
<1>3. CASE PttLinkDown
  <2>1. up' \in Seq(Frames) /\ ClearedByBridge'
    BY <1>3, Silent DEF PttLinkDown
  <2>2. ptt' \in PttStates /\ PttAgrees'
    BY <1>3, NoPttType DEF PttLinkDown, PttAgrees
  <2> QED
    BY <1>3, <2>1, <2>2 DEF PttLinkDown, TypeOK, IdleIsClean, conv
<1>4. CASE PttHeader
  <2>1. ptt.tg = "tg" /\ TxTg = "tg"
    BY <1>4 DEF PttHeader, PttAgrees, TxTg
  <2>2. up' \in Seq(Frames) /\ ClearedByBridge'
    BY <1>4, <2>1, Vhead3Type DEF PttHeader, ClearedByBridge
  <2>3. ptt' \in PttStates /\ PttAgrees'
    BY <1>4, PttHeaded DEF PttHeader, PttAgrees, TypeOK
  <2> QED
    BY <1>4, <2>2, <2>3 DEF PttHeader, TypeOK, IdleIsClean, conv, links
<1>5. CASE PttVoice
  <2>1. ptt.frames \in 0..5 /\ talker \in BOOLEAN
    BY DEF TypeOK, PttStates
  <2>2. Dmrd("VOICE", ptt.frames, talker) \in Frames
    BY <2>1, DmrdType
  <2>3. Dmrd("VOICE", ptt.frames, talker).kind = "VOICE"
    BY DEF Dmrd
  <2>4. up' \in Seq(Frames) /\ ClearedByBridge'
    BY <1>5, <2>2, <2>3 DEF PttVoice, ClearedByBridge
  <2>5. (ptt.frames + 1) % 6 \in 0..5
    BY <2>1
  <2>6. ptt' \in PttStates /\ PttAgrees'
    <3>1. ptt \in PttStates /\ ptt.phase # 0
      BY <1>5 DEF PttVoice, TypeOK
    <3>2. ptt' = [ptt EXCEPT !.frames = (ptt.frames + 1) % 6]
      BY <1>5 DEF PttVoice
    <3> QED
      BY <2>5, <3>1, <3>2, PttFramed DEF PttAgrees
  <2> QED
    BY <1>5, <2>4, <2>6 DEF PttVoice, TypeOK, IdleIsClean, conv, links
<1> QED
  BY <1>1, <1>2, <1>3, <1>4, <1>5

\* The paced emissions: what is queued belongs to an active call.
LEMMA EmitStep ==
  ASSUME IInv, EmitDmr \/ EmitYsf
  PROVE  IInv'
<1> USE DEF IInv
<1>1. CASE EmitDmr
  <2>1. /\ call /\ TxTg = "tg"
        /\ UNCHANGED <<links, stream, ptt, down>> /\ PttAgrees'
    BY <1>1 DEF EmitDmr, IdleIsClean, TxTg, PttAgrees
  <2>2. GetRest(toDmr, 3) \in Lanes
    BY GetRestType DEF TypeOK
  <2>3. txFrames \in 0..5 /\ talker \in BOOLEAN
    BY DEF TypeOK
  <2>4. CASE /\ up' = Vhead3
             /\ toDmr' = GetRest(toDmr, 3)
             /\ UNCHANGED <<call, talker, txFrames, gated, toYsf>>
    <3>1. up' \in Seq(Frames) /\ ClearedByBridge'
      BY <2>1, <2>4, Vhead3Type DEF ClearedByBridge
    <3> QED
      BY <2>1, <2>2, <2>4, <3>1 DEF TypeOK, IdleIsClean, links
  <2>5. CASE /\ up' = <<Dmrd("VOICE", txFrames, talker)>>
             /\ txFrames' = (txFrames + 1) % 6
             /\ toDmr' = GetRest(toDmr, 3)
             /\ UNCHANGED <<call, talker, gated, toYsf>>
    <3>1. Dmrd("VOICE", txFrames, talker) \in Frames
      BY <2>3, DmrdType
    <3>2. Dmrd("VOICE", txFrames, talker).kind = "VOICE"
      BY DEF Dmrd
    <3>3. up' \in Seq(Frames) /\ ClearedByBridge'
      BY <2>5, <3>1, <3>2 DEF ClearedByBridge
    <3>4. txFrames' \in 0..5
      BY <2>3, <2>5
    <3> QED
      BY <2>1, <2>2, <2>5, <3>3, <3>4 DEF TypeOK, IdleIsClean, links
  <2>6. CASE up' = Closing(txFrames, talker) /\ ResetCall
    <3>1. up' \in Seq(Frames) /\ ClearedByBridge'
      BY <2>3, <2>6, Ended
    <3> QED
      BY <2>1, <2>6, <3>1, ResetClean DEF TypeOK, links
  <2>7. CASE /\ toDmr' = GetRest(toDmr, 3)
             /\ UNCHANGED <<up, call, talker, txFrames, gated, toYsf>>
    BY <2>1, <2>2, <2>7, Silent DEF TypeOK, IdleIsClean, links
  <2> QED
    BY <1>1, <2>4, <2>5, <2>6, <2>7 DEF EmitDmr
<1>2. CASE EmitYsf
  <2>1. call /\ UNCHANGED <<links, stream, ptt, up>> /\ PttAgrees'
    BY <1>2 DEF EmitYsf, IdleIsClean, PttAgrees
  <2>2. GetRest(toYsf, 5) \in Lanes
    BY GetRestType DEF TypeOK
  <2>3. up' \in Seq(Frames) /\ ClearedByBridge'
    BY <2>1, Silent
  <2>4. CASE /\ down' \in {"HEADER", "DATA"}
             /\ toYsf' = GetRest(toYsf, 5)
             /\ UNCHANGED <<call, talker, txFrames, gated, toDmr>>
    BY <2>1, <2>2, <2>3, <2>4 DEF TypeOK, IdleIsClean, links
  <2>5. CASE down' = "EOT" /\ ResetCall
    BY <2>1, <2>3, <2>5, ResetClean DEF TypeOK, links
  <2>6. CASE /\ toYsf' = GetRest(toYsf, 5)
             /\ UNCHANGED <<down, call, talker, txFrames, gated, toDmr>>
    BY <2>1, <2>2, <2>3, <2>6 DEF TypeOK, IdleIsClean, links
  <2> QED
    BY <1>2, <2>4, <2>5, <2>6 DEF EmitYsf
<1> QED
  BY <1>1, <1>2

\* A DMRD from the master: a call is active afterwards, unless it was a
\* terminator outside one.
LEMMA DmrStep ==
  ASSUME IInv, FromDmr
  PROVE  IInv'
<1> USE DEF IInv
<1>1. toYsf \in Lanes /\ EmptyLane \in Lanes /\ CapYsf \in Nat /\ CapYsf >= 5
  BY Caps, EmptyLaneType DEF TypeOK
<1>2. ASSUME NEW s \in Remote, BeginDmrToYsf(s)
      PROVE  /\ call' = TRUE /\ stream' \in Streams /\ txFrames' \in 0..5
             /\ toDmr' \in Lanes
  BY <1>1, <1>2, FreshType DEF BeginDmrToYsf, Streams
<1>3. ASSUME NEW s \in Remote, DmrHeader(s) PROVE IInv'
  <2>1. /\ call' = TRUE /\ stream' \in Streams /\ txFrames' \in 0..5
        /\ toDmr' \in Lanes
    BY <1>2, <1>3 DEF DmrHeader, Opens, TypeOK
  <2>2. toYsf' \in Lanes
    BY <1>1, <1>3, PutHeaderType DEF DmrHeader
  <2>3. /\ gated' = TRUE /\ UNCHANGED <<links, talker, ptt, up>>
        /\ down' \in {down, "dropped"}
    BY <1>3 DEF DmrHeader
  <2> QED
    BY <2>1, <2>2, <2>3, Silent DEF TypeOK, IdleIsClean, PttAgrees, links
<1>4. CASE DmrTerminator
  <2>1. toYsf' \in Lanes
    BY <1>1, <1>4, PutEotType DEF DmrTerminator
  <2>2. /\ gated' = FALSE
        /\ UNCHANGED <<links, call, stream, talker, txFrames, toDmr, ptt, up, down>>
        /\ ~call => UNCHANGED toYsf
    BY <1>4 DEF DmrTerminator
  <2>3. IdleIsClean'
    BY <2>2 DEF IdleIsClean
  <2> QED
    BY <2>1, <2>2, <2>3, Silent DEF TypeOK, PttAgrees, links
<1>5. ASSUME NEW s \in Remote, NEW second \in BOOLEAN, DmrVoice(s, second)
      PROVE  IInv'
  <2>1. /\ call' = TRUE /\ stream' \in Streams /\ txFrames' \in 0..5
        /\ toDmr' \in Lanes
    BY <1>2, <1>5 DEF DmrVoice, TypeOK
  <2>2. toYsf' \in Lanes
    <3>1. PutHeader(EmptyLane, CapYsf) \in Lanes
      BY <1>1, PutHeaderType
    <3>2. LateEntry \in Lanes /\ PutDmrVoice(toYsf, CapYsf) \in Lanes
      BY <1>1, <3>1, PutDataType DEF LateEntry, PutDmrVoice
    <3> QED
      BY <1>5, <3>2 DEF DmrVoice
  <2>3. gated' = second /\ UNCHANGED <<links, talker, ptt, up, down>>
    BY <1>5 DEF DmrVoice
  <2> QED
    BY <2>1, <2>2, <2>3, Silent DEF TypeOK, IdleIsClean, PttAgrees, links
<1> QED
  BY <1>3, <1>4, <1>5 DEF FromDmr

\* A YSFD from the reflector: a call is active afterwards.
LEMMA YsfStep ==
  ASSUME IInv, FromYsf
  PROVE  IInv'
<1> USE DEF IInv
<1>1. toDmr \in Lanes /\ EmptyLane \in Lanes /\ CapDmr \in Nat /\ CapDmr >= 5
  BY Caps, EmptyLaneType DEF TypeOK
<1>2. ASSUME NEW s \in Own, NEW known \in BOOLEAN,
             \/ BeginYsfToDmr(s, known)
             \/ call /\ UNCHANGED <<call, stream, txFrames, toYsf, ptt, up>>
      PROVE  /\ call' = TRUE /\ stream' \in Streams /\ txFrames' \in 0..5
             /\ toYsf' \in Lanes /\ ptt' \in PttStates /\ PttAgrees'
             /\ up' \in Seq(Frames) /\ ClearedByBridge'
  <2>1. CASE BeginYsfToDmr(s, known)
    <3>1. ptt' = NoPtt /\ ptt' \in PttStates /\ PttAgrees'
      BY <2>1, NoPttType DEF BeginYsfToDmr, AbortConnectPtt, PttAgrees
    <3>2. up' = Closing(ptt.frames, known) \/ up' = up
      BY <2>1 DEF BeginYsfToDmr, AbortConnectPtt
    <3>3. ptt.frames \in 0..5
      BY DEF TypeOK, PttStates
    <3>4. up' \in Seq(Frames) /\ ClearedByBridge'
      BY <3>2, <3>3, Ended, Silent
    <3> QED
      BY <1>1, <2>1, <3>1, <3>4 DEF BeginYsfToDmr, Streams
  <2>2. CASE call /\ UNCHANGED <<call, stream, txFrames, toYsf, ptt, up>>
    BY <2>2, Silent DEF TypeOK, PttAgrees
  <2> QED
    BY <1>2, <2>1, <2>2
<1>3. ASSUME NEW s \in Own, NEW known \in BOOLEAN, YsfHeader(s, known)
      PROVE  IInv'
  <2>1. \/ BeginYsfToDmr(s, known)
        \/ call /\ UNCHANGED <<call, stream, txFrames, toYsf, ptt, up>>
    BY <1>3 DEF YsfHeader
  <2>2. toDmr' \in Lanes
    BY <1>1, <1>3, PutHeaderType DEF YsfHeader
  <2>3. talker' = known /\ UNCHANGED <<links, gated, down>>
    BY <1>3 DEF YsfHeader
  <2> QED
    BY <1>2, <2>1, <2>2, <2>3 DEF TypeOK, IdleIsClean, links
<1>4. ASSUME NEW s \in Own, YsfVoice(s)
      PROVE  IInv'
  <2>1. \/ BeginYsfToDmr(s, talker)
        \/ call /\ UNCHANGED <<call, stream, txFrames, toYsf, ptt, up>>
    BY <1>4 DEF YsfVoice
  <2>2. toDmr' \in Lanes
    BY <1>1, <1>4, PutDataType DEF YsfVoice, PutYsfVoice
  <2>3. talker \in BOOLEAN /\ UNCHANGED <<links, talker, gated, down>>
    BY <1>4 DEF YsfVoice, TypeOK
  <2> QED
    BY <1>2, <2>1, <2>2, <2>3 DEF TypeOK, IdleIsClean, links
<1>5. CASE YsfTerminator
  <2>1. toDmr' \in Lanes
    BY <1>1, <1>5, PutEotType DEF YsfTerminator
  <2>2. /\ call
        /\ UNCHANGED <<links, call, stream, talker, txFrames, gated, toYsf, ptt,
                       up, down>>
    BY <1>5 DEF YsfTerminator
  <2> QED
    BY <2>1, <2>2, Silent DEF TypeOK, IdleIsClean, PttAgrees, links
<1> QED
  BY <1>3, <1>4, <1>5 DEF FromYsf, Resolved

\* Every step of the bridge keeps the invariant.
LEMMA StepIInv == IInv /\ [Next]_vars => IInv'
<1> SUFFICES ASSUME IInv, [Next]_vars
             PROVE  IInv'
  OBVIOUS
<1>1. CASE DmrLink
  BY <1>1, Silent DEF DmrLink, IInv, TypeOK, IdleIsClean, PttAgrees, conv
<1>2. CASE YsfLink
  BY <1>2, Silent DEF YsfLink, IInv, TypeOK, IdleIsClean, PttAgrees, conv
<1>3. CASE UNCHANGED vars
  BY <1>3, Silent DEF vars, IInv, TypeOK, IdleIsClean, PttAgrees, conv, links
<1>4. CASE BridgeTick
  BY <1>4, PttStep, EmitStep DEF BridgeTick
<1> QED
  BY <1>1, <1>2, <1>3, <1>4, DmrStep, YsfStep DEF Next

-----------------------------------------------------------------------------

\* Every reachable state of the bridge is well typed.
THEOREM TypeCorrect == Spec => []TypeOK
<1>1. IInv => TypeOK
  BY DEF IInv
<1> QED
  BY <1>1, InitIInv, StepIInv, PTL DEF Spec

\* Between calls nothing of the last one is left (bridge_reset_call), however
\* DMR calls, YSF calls, connect PTTs, link losses and overflows interleave.
THEOREM AlwaysCleanWhenIdle == Spec => []IdleIsClean
<1>1. IInv => IdleIsClean
  BY DEF IInv
<1> QED
  BY <1>1, InitIInv, StepIInv, PTL DEF Spec

\* TG 4000 is only ever keyed up under the bridge's own id.
THEOREM AlwaysClearedByBridge == Spec => []ClearedByBridge
<1>1. IInv => ClearedByBridge
  BY DEF IInv
<1> QED
  BY <1>1, InitIInv, StepIInv, PTL DEF Spec
-----------------------------------------------------------------------------
(***************************************************************************)
(* The uplink, in a bridge nobody calls from the DMR side (a DMRD takes    *)
(* dmr_stream_id over in the middle of a connect PTT) and whose lane       *)
(* towards DMR does not overflow.  A stream is on the air, with the place  *)
(* in the superframe its next voice frame takes, or not a frame of it has  *)
(* been sent: then its call's lane does not start with an EOT.             *)
(***************************************************************************)

Last == up[Len(up)]

Unused == up # <<>> => Last.stream # stream

OnAir(tg, k) ==
  /\ up # <<>>
  /\ Last.stream = stream
  /\ Last.tg = tg
  /\ Last.kind # "VTERM"
  /\ Last.kind = "VOICE" => k = (Last.n + 1) % 6

\* The counter of a lane says how many units are in the ring.
InStep(l) == l.n = Len(l.buf) /\ l.n <= MaxQueue

PttOnAir ==
  ptt.active => /\ ~call
                /\ ptt.phase = 0 => Unused
                /\ ptt.phase = 1 => OnAir(ptt.tg, ptt.frames)

CallOnAir ==
  call => \/ /\ Unused
             /\ txFrames = 0
             /\ toDmr.buf # <<>> /\ toDmr.buf[1] # "EOT"
          \/ OnAir("tg", txFrames)

UplinkInv ==
  /\ InStep(toDmr)
  /\ PttOnAir
  /\ CallOnAir

\* The frames of s may follow those sent so far.
Continues(s) ==
  /\ up # <<>> => Follows(Last, s[1])
  /\ \A i \in 1..(Len(s) - 1) : Follows(s[i], s[i + 1])

\* What bridge_send_dmrd puts into a frame.
LEMMA DmrdFields ==
  ASSUME NEW kind, NEW n, NEW known
  PROVE  LET d == Dmrd(kind, n, known) IN
         /\ d.kind = kind /\ d.n = n /\ d.stream = stream /\ d.tg = TxTg
BY DEF Dmrd

\* The last frame sent is a frame.
LEMMA LastType ==
  ASSUME up \in Seq(Frames), up # <<>>
  PROVE  /\ Last \in Frames /\ Last.n \in 0..5
         /\ \A s : s \in Fresh => s # Last.stream
<1>1. Len(up) \in 1..Len(up) /\ Last \in Frames
  BY DEF Last
<1>2. \A s : s \in Fresh => s # Last.stream
  BY <1>1 DEF Fresh, Last
<1>3. Last.n \in 0..5
  BY <1>1 DEF Frames
<1> QED
  BY <1>1, <1>2, <1>3

\* A fresh id is on no frame sent so far.
LEMMA FreshUnused ==
  ASSUME up \in Seq(Frames), NEW s \in Fresh
  PROVE  s # stream /\ (up # <<>> => Last.stream # s)
<1>1. s # stream
  BY DEF Fresh
<1> QED
  BY <1>1, LastType

\* Three headers of one stream.
LEMMA HeadersContinue ==
  ASSUME up \in Seq(Frames), NEW d, NEW s, d.kind = "VHEAD", s = [i \in 1..3 |-> d],
         up # <<>> => \/ Last.stream # d.stream
                      \/ Last.kind # "VTERM" /\ Last.tg = d.tg
  PROVE  Continues(s) /\ s # <<>> /\ s[Len(s)] = d
<1>1. Len(s) = 3 /\ s[1] = d /\ s[2] = d /\ s[3] = d /\ s # <<>>
  OBVIOUS
<1>2. Follows(d, d)
  BY DEF Follows
<1>3. up # <<>> => Follows(Last, d)
  BY DEF Follows
<1>4. \A i \in 1..2 : s[i] = d /\ s[i + 1] = d
  BY <1>1
<1> QED
  BY <1>1, <1>2, <1>3, <1>4 DEF Continues

\* One voice frame, in its place.
LEMMA VoiceContinues ==
  ASSUME up \in Seq(Frames), NEW d, d.kind = "VOICE",
         up # <<>> =>
           \/ Last.stream # d.stream /\ d.n = 0
           \/ /\ Last.kind # "VTERM" /\ Last.tg = d.tg /\ Last.stream = d.stream
              /\ Last.kind = "VOICE" => d.n = (Last.n + 1) % 6
  PROVE  Continues(<<d>>) /\ <<d>> # <<>> /\ <<d>>[Len(<<d>>)] = d
<1>1. up # <<>> => Follows(Last, d)
  BY DEF Follows
<1>2. Len(<<d>>) = 1 /\ <<d>>[1] = d
  OBVIOUS
<1> QED
  BY <1>1, <1>2 DEF Continues

\* The end of a stream, frame by frame: silence up to place 5, the terminator.
LEMMA ClosingShape ==
  ASSUME NEW sent \in 0..5, NEW known
  PROVE  LET c == Closing(sent, known)
             k == (6 - sent) % 6
         IN  /\ Len(c) = k + 1
             /\ \A i \in 1..k : c[i] = Dmrd("VOICE", sent + i - 1, known)
             /\ c[k + 1] = Dmrd("VTERM", 0, known)
<1> DEFINE k == (6 - sent) % 6
           pad == [i \in 1..k |-> Dmrd("VOICE", sent + i - 1, known)]
           last == <<Dmrd("VTERM", 0, known)>>
           S == {Dmrd("VOICE", sent + i - 1, known) : i \in 1..k}
                  \cup {Dmrd("VTERM", 0, known)}
<1>1. k \in Nat
  BY Z3
<1>2. Closing(sent, known) = pad \o last
  BY DEF Closing
<1> HIDE DEF k
<1>3. pad \in Seq(S) /\ Len(pad) = k
  <2>1. \A i \in 1..k : Dmrd("VOICE", sent + i - 1, known) \in S
    OBVIOUS
  <2> HIDE DEF S
  <2> QED
    BY <1>1, <2>1
<1>4. last \in Seq(S) /\ Len(last) = 1 /\ last[1] = Dmrd("VTERM", 0, known)
  OBVIOUS
<1>5. \A i \in 1..k : pad[i] = Dmrd("VOICE", sent + i - 1, known)
  OBVIOUS
<1> HIDE DEF pad, last, S
<1>6. /\ Len(pad \o last) = k + 1
      /\ \A i \in 1..(k + 1) :
           (pad \o last)[i] = IF i <= k THEN pad[i] ELSE last[i - k]
  <2>1. /\ Len(pad \o last) = Len(pad) + Len(last)
        /\ \A i \in 1..(Len(pad) + Len(last)) :
             (pad \o last)[i] = IF i <= Len(pad) THEN pad[i] ELSE last[i - Len(pad)]
    BY <1>3, <1>4, ConcatProperties, Zenon
  <2> QED
    BY <1>3, <1>4, <2>1, Zenon
<1>7. \A i \in 1..k : (pad \o last)[i] = pad[i]
  BY <1>1, <1>6
<1>8. (pad \o last)[k + 1] = last[1]
  BY <1>1, <1>6
<1> QED
  BY <1>2, <1>4, <1>5, <1>6, <1>7, <1>8 DEF k

\* The end of the stream that is on the air.
LEMMA ClosingContinues ==
  ASSUME up \in Seq(Frames), NEW sent \in 0..5, NEW known, OnAir(TxTg, sent)
  PROVE  LET c == Closing(sent, known) IN
         Continues(c) /\ c # <<>> /\ c[Len(c)].stream = stream
<1> DEFINE c == Closing(sent, known)
           k == (6 - sent) % 6
<1>1. /\ Len(c) = k + 1
      /\ \A i \in 1..k : c[i] = Dmrd("VOICE", sent + i - 1, known)
      /\ c[k + 1] = Dmrd("VTERM", 0, known)
  BY ClosingShape
<1>2. k \in 0..5 /\ (k = 0 <=> sent = 0) /\ (k > 0 => sent + k = 6)
  BY Z3
<1> HIDE DEF c, k
<1>3. \A i \in 1..k : /\ c[i].kind = "VOICE" /\ c[i].n = sent + i - 1
                      /\ c[i].stream = stream /\ c[i].tg = TxTg
  BY <1>1, DmrdFields
<1>4. c[k + 1].kind = "VTERM" /\ c[k + 1].stream = stream /\ c[k + 1].tg = TxTg
  BY <1>1, DmrdFields
<1>5. Last \in Frames /\ Last.n \in 0..5
  BY LastType DEF OnAir
<1>6. Follows(Last, c[1])
  <2>1. CASE k = 0
    <3>1. sent = 0 /\ c[1] = c[k + 1]
      BY <1>2, <2>1
    <3>2. Last.kind = "VOICE" => Last.n = 5
      BY <1>5, <3>1 DEF OnAir
    <3> QED
      BY <1>4, <3>1, <3>2 DEF Follows, OnAir
  <2>2. CASE k > 0
    <3>1. 1 \in 1..k /\ sent + 1 - 1 = sent
      BY <1>2, <2>2
    <3>2. c[1].kind = "VOICE" /\ c[1].n = sent /\ c[1].stream = stream /\ c[1].tg = TxTg
      BY <1>3, <3>1
    <3> QED
      BY <3>2 DEF Follows, OnAir
  <2> QED
    BY <1>2, <2>1, <2>2
<1>7. \A i \in 1..(Len(c) - 1) : Follows(c[i], c[i + 1])
  <2> SUFFICES ASSUME NEW i \in 1..k
               PROVE  Follows(c[i], c[i + 1])
    BY <1>1, <1>2
  <2>1. CASE i = k
    <3>1. sent + i - 1 = 5
      BY <1>2, <2>1
    <3> QED
      BY <1>3, <1>4, <2>1, <3>1 DEF Follows
  <2>2. CASE i # k
    <3>1. i + 1 \in 1..k /\ sent + (i + 1) - 1 = ((sent + i - 1) + 1) % 6
      BY <1>2, <2>2
    <3> QED
      BY <1>3, <3>1 DEF Follows
  <2> QED
    BY <2>1, <2>2
<1>8. c # <<>> /\ c[Len(c)].stream = stream
  BY <1>1, <1>2, <1>4
<1> QED
  BY <1>6, <1>7, <1>8 DEF Continues, c
\* bridge_init: nothing is on the air.
LEMMA InitUplink == Init => UplinkInv
<1> SUFFICES ASSUME Init PROVE UplinkInv
  OBVIOUS
<1>1. InStep(toDmr)
  BY EmptyLaneFields, BridgeAssumption DEF Init, InStep
<1>2. PttOnAir /\ CallOnAir
  BY NoPttType DEF Init, PttOnAir, CallOnAir
<1> QED
  BY <1>1, <1>2 DEF UplinkInv

\* Putting anything but an EOT in front does not bring an EOT to the head.
LEMMA HeadNotEot ==
  ASSUME NEW l \in Lanes, NEW r, NEW u, u # "EOT", Extends(l, r, u)
  PROVE  /\ r.buf # <<>>
         /\ l.buf = <<>> \/ l.buf[1] # "EOT" => r.buf[1] # "EOT"
<1>1. l.buf \in Seq(Tags) /\ r.buf \in Seq(Tags)
  BY DEF Extends, Lanes
<1>2. r.buf # <<>>
  BY <1>1 DEF Extends
<1>3. CASE l.buf = <<>>
  BY <1>2, <1>3 DEF Extends
<1>4. CASE l.buf # <<>>
  <2>1. 1 \in 1..Len(l.buf)
    BY <1>1, <1>4
  <2> QED
    BY <1>2, <2>1, <1>4 DEF Extends
<1> QED
  BY <1>3, <1>4

\* What a call's first put makes of the empty lane, and a later one of a lane.
LEMMA LanePuts ==
  ASSUME NEW l \in Lanes, InStep(l), NEW k \in Nat, NEW r, NEW u,
         Extends(l, r, u), r.n <= l.n + k, l.n + k <= MaxQueue, u # "EOT"
  PROVE  /\ InStep(r) /\ r.buf # <<>>
         /\ l.buf = <<>> \/ l.buf[1] # "EOT" => r.buf[1] # "EOT"
<1>1. r.n \in Nat /\ l.n \in Nat /\ MaxQueue \in Nat
  BY BridgeAssumption DEF Lanes, Extends
<1> QED
  BY <1>1, HeadNotEot DEF InStep, Extends

\* Connect PTT steps continue the uplink.
LEMMA PttUplink ==
  ASSUME IInv, UplinkInv,
         \/ \E s \in Own : PttStart(s) \/ PttFinish(s)
         \/ PttLinkDown \/ PttHeader \/ PttVoice
  PROVE  UplinkInv' /\ (up' = up \/ Continues(up'))
<1>1. up \in Seq(Frames) /\ ptt \in PttStates /\ ptt.frames \in 0..5
  BY DEF IInv, TypeOK, PttStates
<1>2. UNCHANGED <<call, txFrames, toDmr>>
  BY DEF PttStart, PttFinish, PttLinkDown, PttHeader, PttVoice, conv
<1>3. InStep(toDmr)'
  BY <1>2 DEF UplinkInv, InStep
<1>4. ASSUME NEW s \in Own, PttStart(s)
      PROVE  UplinkInv' /\ (up' = up \/ Continues(up'))
  <2>1. CASE call
    <3>1. UNCHANGED <<stream, ptt, up>>
      BY <1>4, <2>1 DEF PttStart
    <3> QED
      BY <1>2, <1>3, <3>1
      DEF UplinkInv, PttOnAir, CallOnAir, Unused, OnAir, Last
  <2>2. CASE ~call
    <3> DEFINE tg == IF Clear THEN "4000" ELSE "tg"
               d == [kind |-> "VHEAD", n |-> 0, stream |-> s, tg |-> tg,
                     src |-> RfId(talker)]
    <3>1. /\ s \in Fresh /\ stream' = s /\ up' = [i \in 1..3 |-> d]
          /\ ptt' = [PttStream(tg, Clear) EXCEPT !.phase = 1]
      BY <1>4, <2>2 DEF PttStart
    <3>2. d.kind = "VHEAD" /\ d.stream = s /\ d.tg = tg
      OBVIOUS
    <3> HIDE DEF d
    <3>3. up # <<>> => Last.stream # d.stream
      BY <1>1, <3>1, <3>2, FreshUnused
    <3>4. Continues(up') /\ up' # <<>> /\ up'[Len(up')] = d
      BY <1>1, <3>1, <3>2, <3>3, HeadersContinue
    <3>5. ptt'.phase = 1 /\ ptt'.tg = tg
      BY <3>1 DEF PttStream
    <3>6. PttOnAir'
      BY <1>2, <2>2, <3>1, <3>2, <3>4, <3>5 DEF PttOnAir, OnAir, Last
    <3>7. CallOnAir'
      BY <1>2, <2>2 DEF CallOnAir
    <3> QED
      BY <1>3, <3>4, <3>6, <3>7 DEF UplinkInv
  <2> QED
    BY <2>1, <2>2
<1>5. ASSUME NEW s \in Own, PttFinish(s)
      PROVE  UplinkInv' /\ (up' = up \/ Continues(up'))
  <2>1. /\ ptt.active /\ ptt.phase = 1 /\ s \in Fresh
        /\ up' = Closing(ptt.frames, talker)
        /\ \/ ptt' = PttStream("tg", FALSE) /\ stream' = s
           \/ ptt' = NoPtt
    BY <1>5 DEF PttFinish
  <2>2. ~call /\ OnAir(TxTg, ptt.frames)
    BY <2>1 DEF UplinkInv, PttOnAir, TxTg
  <2>3. Continues(up') /\ up' # <<>> /\ up'[Len(up')].stream = stream
    BY <1>1, <2>1, <2>2, ClosingContinues
  <2>4. s # stream
    BY <1>1, <2>1, FreshUnused
  <2>5. PttOnAir'
    <3>1. CASE ptt' = PttStream("tg", FALSE) /\ stream' = s
      BY <1>2, <2>2, <2>3, <2>4, <3>1 DEF PttOnAir, PttStream, Unused, Last
    <3>2. CASE ptt' = NoPtt
      BY <3>2, NoPttType DEF PttOnAir
    <3> QED
      BY <2>1, <3>1, <3>2
  <2>6. CallOnAir'
    BY <1>2, <2>2 DEF CallOnAir
  <2> QED
    BY <1>3, <2>3, <2>5, <2>6 DEF UplinkInv
<1>6. CASE PttLinkDown
  <2>1. ptt' = NoPtt /\ UNCHANGED <<stream, up>>
    BY <1>6 DEF PttLinkDown
  <2>2. PttOnAir'
    BY <2>1, NoPttType DEF PttOnAir
  <2>3. CallOnAir'
    BY <1>2, <2>1 DEF UplinkInv, CallOnAir, Unused, OnAir, Last
  <2> QED
    BY <1>3, <2>1, <2>2, <2>3 DEF UplinkInv
<1>7. CASE PttHeader
  <2> DEFINE d == Dmrd("VHEAD", 0, talker)
  <2>1. /\ ptt.active /\ ptt.phase = 0 /\ UNCHANGED stream
        /\ ptt' = [ptt EXCEPT !.phase = 1] /\ up' = [i \in 1..3 |-> d]
    BY <1>7 DEF PttHeader, Vhead3
  <2>2. ~call /\ Unused /\ TxTg = ptt.tg
    BY <2>1 DEF UplinkInv, PttOnAir, TxTg
  <2>3. d.kind = "VHEAD" /\ d.stream = stream /\ d.tg = ptt.tg
    BY <2>2, DmrdFields
  <2> HIDE DEF d
  <2>4. Continues(up') /\ up' # <<>> /\ up'[Len(up')] = d
    BY <1>1, <2>1, <2>2, <2>3, HeadersContinue DEF Unused
  <2>5. ptt'.phase = 1 /\ ptt'.tg = ptt.tg
    BY <1>1, <2>1 DEF PttStates
  <2>6. PttOnAir' /\ CallOnAir'
    BY <1>2, <2>1, <2>2, <2>3, <2>4, <2>5
    DEF PttOnAir, CallOnAir, OnAir, Last
  <2> QED
    BY <1>3, <2>4, <2>6 DEF UplinkInv
<1>8. CASE PttVoice
  <2> DEFINE d == Dmrd("VOICE", ptt.frames, talker)
  <2>1. /\ ptt.active /\ ptt.phase = 1 /\ UNCHANGED stream
        /\ ptt' = [ptt EXCEPT !.frames = (ptt.frames + 1) % 6] /\ up' = <<d>>
    BY <1>8 DEF PttVoice
  <2>2. ~call /\ OnAir(ptt.tg, ptt.frames) /\ TxTg = ptt.tg
    BY <2>1 DEF UplinkInv, PttOnAir, TxTg
  <2>3. d.kind = "VOICE" /\ d.stream = stream /\ d.tg = ptt.tg /\ d.n = ptt.frames
    BY <2>2, DmrdFields
  <2> HIDE DEF d
  <2>4. Continues(up') /\ up' # <<>> /\ up'[Len(up')] = d
    BY <1>1, <2>1, <2>2, <2>3, VoiceContinues DEF OnAir
  <2>5. /\ ptt'.phase = 1 /\ ptt'.tg = ptt.tg
        /\ ptt'.frames = (ptt.frames + 1) % 6
    BY <1>1, <2>1 DEF PttStates
  <2>6. PttOnAir' /\ CallOnAir'
    BY <1>2, <2>1, <2>2, <2>3, <2>4, <2>5
    DEF PttOnAir, CallOnAir, OnAir, Last
  <2> QED
    BY <1>3, <2>4, <2>6 DEF UplinkInv
<1> QED
  BY <1>4, <1>5, <1>6, <1>7, <1>8

\* The paced emissions do: what EmitDmr takes from the lane comes next in the
\* stream that is on the air, or opens it.
LEMMA EmitUplink ==
  ASSUME IInv, UplinkInv, EmitDmr \/ EmitYsf
  PROVE  UplinkInv' /\ (up' = up \/ Continues(up'))
<1>1. up \in Seq(Frames) /\ toDmr \in Lanes /\ txFrames \in 0..5
  BY DEF IInv, TypeOK
<1>2. UNCHANGED <<stream, ptt>>
  BY DEF EmitDmr, EmitYsf
<1>3. ASSUME ResetCall PROVE InStep(toDmr)' /\ CallOnAir'
  BY <1>3, EmptyLaneFields, BridgeAssumption DEF ResetCall, InStep, CallOnAir
<1>4. CASE EmitDmr
  <2> DEFINE tag == GetTag(toDmr, 3)
             rest == GetRest(toDmr, 3)
  <2>1. ~ptt.active /\ toDmr.n > 0 /\ toDmr # rest
    BY <1>4 DEF EmitDmr
  <2>2. call /\ TxTg = "tg" /\ PttOnAir'
    BY <1>2, <2>1 DEF IInv, IdleIsClean, TxTg, PttOnAir
  <2>3. toDmr.n = Len(toDmr.buf) /\ toDmr.n <= MaxQueue /\ MaxQueue \in Nat
    BY BridgeAssumption DEF UplinkInv, InStep
  <2>4. /\ rest.n = Len(rest.buf) /\ rest.n <= toDmr.n
        /\ tag # "NODATA" /\ toDmr.buf # <<>>
        /\ toDmr.buf[1] # "DATA" => tag = toDmr.buf[1]
        /\ toDmr.buf[1] = "DATA" => tag \in {"DATA", "NODATA"}
    BY <1>1, <2>1, <2>3, GetInStep
  <2>5. rest \in Lanes
    BY <1>1, GetRestType
  <2>6. InStep(rest)
    BY <1>1, <2>3, <2>4, <2>5 DEF InStep, Lanes
  <2>7. CASE /\ tag = "HEADER" /\ up' = Vhead3 /\ toDmr' = rest
             /\ UNCHANGED <<call, txFrames>>
    <3> DEFINE d == Dmrd("VHEAD", 0, talker)
    <3>1. up' = [i \in 1..3 |-> d]
      BY <2>7 DEF Vhead3
    <3>2. d.kind = "VHEAD" /\ d.stream = stream /\ d.tg = "tg"
      BY <2>2, DmrdFields
    <3> HIDE DEF d
    <3>3. up # <<>> => \/ Last.stream # d.stream
                       \/ Last.kind # "VTERM" /\ Last.tg = d.tg
      BY <2>2, <3>2 DEF UplinkInv, CallOnAir, Unused, OnAir
    <3>4. Continues(up') /\ up' # <<>> /\ up'[Len(up')] = d
      BY <1>1, <3>1, <3>2, <3>3, HeadersContinue
    <3>5. CallOnAir'
      BY <1>2, <3>2, <3>4 DEF CallOnAir, OnAir, Last
    <3> QED
      BY <2>2, <2>6, <2>7, <3>4, <3>5 DEF UplinkInv, InStep
  <2>8. CASE /\ tag = "DATA" /\ up' = <<Dmrd("VOICE", txFrames, talker)>>
             /\ txFrames' = (txFrames + 1) % 6 /\ toDmr' = rest
             /\ UNCHANGED call
    <3> DEFINE d == Dmrd("VOICE", txFrames, talker)
    <3>1. up' = <<d>>
      BY <2>8
    <3>2. d.kind = "VOICE" /\ d.stream = stream /\ d.tg = "tg" /\ d.n = txFrames
      BY <2>2, DmrdFields
    <3> HIDE DEF d
    <3>3. up # <<>> =>
            \/ Last.stream # d.stream /\ d.n = 0
            \/ /\ Last.kind # "VTERM" /\ Last.tg = d.tg /\ Last.stream = d.stream
               /\ Last.kind = "VOICE" => d.n = (Last.n + 1) % 6
      BY <2>2, <3>2 DEF UplinkInv, CallOnAir, Unused, OnAir
    <3>4. Continues(up') /\ up' # <<>> /\ up'[Len(up')] = d
      BY <1>1, <3>1, <3>2, <3>3, VoiceContinues
    <3>5. CallOnAir'
      BY <1>2, <2>8, <3>2, <3>4 DEF CallOnAir, OnAir, Last
    <3> QED
      BY <2>2, <2>6, <2>8, <3>4, <3>5 DEF UplinkInv, InStep
  <2>9. CASE tag = "EOT" /\ up' = Closing(txFrames, talker) /\ ResetCall
    <3>1. toDmr.buf[1] = "EOT"
      BY <2>4, <2>9
    <3>2. OnAir(TxTg, txFrames)
      BY <2>2, <3>1 DEF UplinkInv, CallOnAir
    <3>3. Continues(up')
      BY <1>1, <2>9, <3>2, ClosingContinues
    <3> QED
      BY <1>3, <2>2, <2>9, <3>3 DEF UplinkInv
  <2> QED
    BY <1>4, <2>4, <2>7, <2>8, <2>9 DEF EmitDmr
<1>5. CASE EmitYsf
  <2>1. UNCHANGED up
    BY <1>5 DEF EmitYsf
  <2>2. ResetCall \/ UNCHANGED <<call, txFrames, toDmr>>
    BY <1>5 DEF EmitYsf
  <2>3. CASE ResetCall
    <3>1. PttOnAir'
      BY <1>2, <2>1, <2>3
      DEF ResetCall, UplinkInv, PttOnAir, Unused, OnAir, Last
    <3> QED
      BY <1>3, <2>1, <2>3, <3>1 DEF UplinkInv
  <2>4. CASE UNCHANGED <<call, txFrames, toDmr>>
    BY <1>2, <2>1, <2>4
    DEF UplinkInv, InStep, PttOnAir, CallOnAir, Unused, OnAir, Last
  <2> QED
    BY <2>2, <2>3, <2>4
<1> QED
  BY <1>4, <1>5

\* A YSFD does: a call begins with an id of its own, after the connect PTT it
\* interrupts, and with a lane that has a frame to send before any EOT.
LEMMA YsfUplink ==
  ASSUME IInv, UplinkInv, FromYsf, MaxQueue <= CapDmr
  PROVE  UplinkInv' /\ (up' = up \/ Continues(up'))
<1>1. /\ up \in Seq(Frames) /\ toDmr \in Lanes /\ toDmr.n \in Nat
      /\ ptt \in PttStates /\ ptt.frames \in 0..5 /\ ptt.phase \in 0..1
      /\ talker \in BOOLEAN /\ CapDmr \in Nat /\ MaxQueue \in Nat
  BY BridgeAssumption DEF IInv, TypeOK, PttStates, Lanes
<1>2. /\ InStep(toDmr) /\ toDmr.n = Len(toDmr.buf)
      /\ InStep(EmptyLane) /\ EmptyLane \in Lanes
      /\ EmptyLane.n = 0 /\ Len(EmptyLane.buf) = 0 /\ EmptyLane.buf = <<>>
  BY <1>1, EmptyLaneType, EmptyLaneFields DEF UplinkInv, InStep
<1>3. ASSUME NEW s \in Own, NEW known, ~call, BeginYsfToDmr(s, known),
             InStep(toDmr)', toDmr'.buf # <<>>, toDmr'.buf[1] # "EOT"
      PROVE  UplinkInv' /\ (up' = up \/ Continues(up'))
  <2>1. /\ s \in Fresh /\ stream' = s /\ txFrames' = 0 /\ ptt' = NoPtt
        /\ up' = IF ptt.active /\ ptt.phase > 0 THEN Closing(ptt.frames, known)
                                               ELSE up
    BY <1>3 DEF BeginYsfToDmr, AbortConnectPtt
  <2>2. s # stream /\ (up # <<>> => Last.stream # s)
    BY <1>1, <2>1, FreshUnused
  <2>3. /\ up' = up \/ Continues(up')
        /\ Unused'
    <3>1. CASE ptt.active /\ ptt.phase > 0
      <4>1. OnAir(TxTg, ptt.frames)
        BY <1>1, <3>1 DEF UplinkInv, PttOnAir, TxTg
      <4>2. up' = Closing(ptt.frames, known)
        BY <2>1, <3>1
      <4>3. Continues(up') /\ up'[Len(up')].stream = stream
        BY <1>1, <4>1, <4>2, ClosingContinues
      <4> QED
        BY <2>1, <2>2, <4>3 DEF Unused, Last
    <3>2. CASE ~(ptt.active /\ ptt.phase > 0)
      BY <2>1, <2>2, <3>2 DEF Unused, Last
    <3> QED
      BY <3>1, <3>2
  <2>4. PttOnAir' /\ CallOnAir'
    BY <1>3, <2>1, <2>3, NoPttType DEF PttOnAir, CallOnAir
  <2> QED
    BY <1>3, <2>3, <2>4 DEF UplinkInv
<1>4. ASSUME call, UNCHANGED <<call, stream, txFrames, ptt, up>>,
             InStep(toDmr)', toDmr'.buf # <<>>,
             toDmr.buf = <<>> \/ toDmr.buf[1] # "EOT" => toDmr'.buf[1] # "EOT"
      PROVE  UplinkInv' /\ (up' = up \/ Continues(up'))
  <2>1. PttOnAir' /\ CallOnAir'
    BY <1>4 DEF UplinkInv, PttOnAir, CallOnAir, Unused, OnAir, Last
  <2> QED
    BY <1>4, <2>1 DEF UplinkInv
<1>5. ASSUME NEW s \in Own, NEW known \in BOOLEAN, YsfHeader(s, known)
      PROVE  UplinkInv' /\ (up' = up \/ Continues(up'))
  <2>1. toDmr.n + 1 <= MaxQueue
    BY <1>5 DEF YsfHeader, Room
  <2>2. CASE call
    <3>1. /\ toDmr' = PutHeader(toDmr, CapDmr)
          /\ UNCHANGED <<call, stream, txFrames, ptt, up>>
      BY <1>5, <2>2 DEF YsfHeader
    <3>2. Extends(toDmr, toDmr', "HEADER") /\ toDmr'.n <= toDmr.n + 1
      BY <1>1, <1>2, <2>1, <3>1, PutHeaderExtends
    <3>3. /\ InStep(toDmr') /\ toDmr'.buf # <<>>
          /\ toDmr.buf = <<>> \/ toDmr.buf[1] # "EOT" => toDmr'.buf[1] # "EOT"
      BY <1>1, <1>2, <2>1, <3>2, LanePuts
    <3> QED
      BY <1>4, <2>2, <3>1, <3>3 DEF InStep
  <2>3. CASE ~call
    <3>1. toDmr' = PutHeader(EmptyLane, CapDmr) /\ BeginYsfToDmr(s, known)
      BY <1>5, <2>3 DEF YsfHeader
    <3>2. Extends(EmptyLane, toDmr', "HEADER") /\ toDmr'.n <= EmptyLane.n + 1
      BY <1>1, <1>2, <2>1, <3>1, PutHeaderExtends
    <3>3. InStep(toDmr') /\ toDmr'.buf # <<>> /\ toDmr'.buf[1] # "EOT"
      BY <1>1, <1>2, <2>1, <3>2, LanePuts
    <3> QED
      BY <1>3, <2>3, <3>1, <3>3 DEF InStep
  <2> QED
    BY <2>2, <2>3
<1>6. ASSUME NEW s \in Own, YsfVoice(s)
      PROVE  UplinkInv' /\ (up' = up \/ Continues(up'))
  <2>1. toDmr.n + 5 <= MaxQueue
    BY <1>6 DEF YsfVoice, Room
  <2>2. CASE call
    <3>1. /\ toDmr' = PutData(toDmr, 5, CapDmr)
          /\ UNCHANGED <<call, stream, txFrames, ptt, up>>
      BY <1>6, <2>2 DEF YsfVoice, PutYsfVoice
    <3>2. Extends(toDmr, toDmr', "DATA") /\ toDmr'.n <= toDmr.n + 5
      BY <1>1, <1>2, <2>1, <3>1, PutDataExtends
    <3>3. /\ InStep(toDmr') /\ toDmr'.buf # <<>>
          /\ toDmr.buf = <<>> \/ toDmr.buf[1] # "EOT" => toDmr'.buf[1] # "EOT"
      BY <1>1, <1>2, <2>1, <3>2, LanePuts
    <3> QED
      BY <1>4, <2>2, <3>1, <3>3 DEF InStep
  <2>3. CASE ~call
    <3>1. toDmr' = PutData(EmptyLane, 5, CapDmr) /\ BeginYsfToDmr(s, talker)
      BY <1>6, <2>3 DEF YsfVoice, PutYsfVoice
    <3>2. Extends(EmptyLane, toDmr', "DATA") /\ toDmr'.n <= EmptyLane.n + 5
      BY <1>1, <1>2, <2>1, <3>1, PutDataExtends
    <3>3. InStep(toDmr') /\ toDmr'.buf # <<>> /\ toDmr'.buf[1] # "EOT"
      BY <1>1, <1>2, <2>1, <3>2, LanePuts
    <3> QED
      BY <1>3, <2>3, <3>1, <3>3 DEF InStep
  <2> QED
    BY <2>2, <2>3
<1>7. CASE YsfTerminator
  <2>1. /\ toDmr.n + 4 <= MaxQueue /\ call
        /\ toDmr' = PutEot(toDmr, 3, CapDmr)
        /\ UNCHANGED <<call, stream, txFrames, ptt, up>>
    BY <1>7 DEF YsfTerminator, Room
  <2>2. Extends(toDmr, toDmr', "DATA") /\ toDmr'.n <= toDmr.n + 4
    <3>1. toDmr.n + 3 + 1 <= CapDmr /\ toDmr.n + 3 + 1 = toDmr.n + 4
      BY <1>1, <2>1
    <3> QED
      BY <1>1, <1>2, <2>1, <3>1, PutEotExtends
  <2>3. /\ InStep(toDmr') /\ toDmr'.buf # <<>>
        /\ toDmr.buf = <<>> \/ toDmr.buf[1] # "EOT" => toDmr'.buf[1] # "EOT"
    BY <1>1, <1>2, <2>1, <2>2, LanePuts
  <2> QED
    BY <1>4, <2>1, <2>3 DEF InStep
<1> QED
  BY <1>5, <1>6, <1>7 DEF FromYsf, Resolved

\* Every step of a bridge without DMR talkers continues the uplink.
LEMMA StepUplink ==
  ASSUME "dmr" \notin Sources, MaxQueue <= CapDmr
  PROVE  IInv /\ UplinkInv /\ [Next]_vars
           => UplinkInv' /\ (up' # up => Continues(up'))
<1> SUFFICES ASSUME IInv, UplinkInv, [Next]_vars
             PROVE  UplinkInv' /\ (up' = up \/ Continues(up'))
  OBVIOUS
<1>1. CASE DmrLink \/ YsfLink \/ UNCHANGED vars
  <2>1. UNCHANGED <<call, stream, txFrames, toDmr, ptt, up>>
    BY <1>1 DEF DmrLink, YsfLink, vars, conv
  <2> QED
    BY <2>1 DEF UplinkInv, InStep, PttOnAir, CallOnAir, Unused, OnAir, Last
<1>2. CASE BridgeTick
  BY <1>2, PttUplink, EmitUplink DEF BridgeTick
<1>3. ~FromDmr
  BY DEF FromDmr
<1> QED
  BY <1>1, <1>2, <1>3, YsfUplink DEF Next

\* The DMRD frames of a bridge nobody calls from the DMR side form well-formed
\* streams, for any stream ids, either setting of clear_dynamic_tg, any flaps
\* of both links and terminators at any time, as long as the ring holds what
\* the talkers send ahead (bridge_emit_dmr_from_conv, bridge_emit_connect_ptt,
\* bridge_abort_connect_ptt).
THEOREM UplinkAlwaysWellFormed ==
  ASSUME "dmr" \notin Sources, MaxQueue <= CapDmr
  PROVE  Spec => UplinkWellFormed
<1>1. IInv /\ UplinkInv /\ [Next]_vars
        => (up' # up =>
              /\ up # <<>> => Follows(up[Len(up)], up'[1])
              /\ \A i \in 1..(Len(up') - 1) : Follows(up'[i], up'[i + 1]))
  BY StepUplink DEF Continues, Last
<1>2. IInv /\ UplinkInv /\ [Next]_vars => UplinkInv'
  BY StepUplink
<1> QED
  BY <1>1, <1>2, InitIInv, StepIInv, InitUplink, PTL DEF Spec, UplinkWellFormed
-----------------------------------------------------------------------------
(***************************************************************************)
(* The YSF side.  While the last frame sent is a terminator, the call that *)
(* is active, if one is, has a header at the head of the lane: the lane is *)
(* emptied with the call, and a call opens with one.  A call whose header  *)
(* is dropped opens without, but says so in down.                          *)
(***************************************************************************)

DownInv ==
  /\ InStep(toYsf)
  /\ down = "EOT" /\ call => toYsf.buf # <<>> /\ toYsf.buf[1] = "HEADER"

\* A DMRD keeps the head of the lane, or begins a call with a header.
LEMMA DmrDown ==
  ASSUME IInv, DownInv, FromDmr, MaxQueue <= CapYsf
  PROVE  DownInv' /\ down' \in {down, "dropped"}
<1>1. /\ toYsf \in Lanes /\ toYsf.n \in Nat /\ CapYsf \in Nat /\ MaxQueue \in Nat
  BY BridgeAssumption DEF IInv, TypeOK, Lanes
<1>2. /\ InStep(toYsf) /\ toYsf.n = Len(toYsf.buf)
      /\ InStep(EmptyLane) /\ EmptyLane \in Lanes
      /\ EmptyLane.n = 0 /\ Len(EmptyLane.buf) = 0 /\ EmptyLane.buf = <<>>
  BY <1>1, EmptyLaneType, EmptyLaneFields DEF DownInv, InStep
<1>3. down' \in {down, "dropped"}
  BY DEF FromDmr, DmrHeader, DmrVoice, DmrTerminator
<1> SUFFICES DownInv'
  BY <1>3
<1>4. ASSUME NEW k \in Nat, NEW u, Extends(EmptyLane, toYsf', u), u = "HEADER",
             toYsf'.n <= EmptyLane.n + k, EmptyLane.n + k <= MaxQueue
      PROVE  DownInv'
  <2>1. InStep(toYsf')
    BY <1>2, <1>4, LanePuts
  <2>2. toYsf'.buf # <<>> /\ toYsf'.buf[1] = "HEADER"
    BY <1>2, <1>4, HeadKept
  <2> QED
    BY <2>1, <2>2 DEF DownInv, InStep
<1>5. ASSUME NEW k \in Nat, NEW u, Extends(toYsf, toYsf', u), u # "EOT", call,
             toYsf'.n <= toYsf.n + k, toYsf.n + k <= MaxQueue
      PROVE  DownInv'
  <2>1. InStep(toYsf')
    BY <1>1, <1>2, <1>5, LanePuts
  <2>2. /\ toYsf'.buf # <<>>
        /\ toYsf.buf # <<>> => toYsf'.buf[1] = toYsf.buf[1]
    BY <1>1, <1>5, HeadKept
  <2> QED
    BY <1>3, <1>5, <2>1, <2>2 DEF DownInv, InStep
<1>6. ASSUME UNCHANGED <<toYsf, call>> PROVE DownInv'
  BY <1>3, <1>6 DEF DownInv, InStep
<1>7. ASSUME NEW s \in Remote, DmrHeader(s) PROVE DownInv'
  <2>1. toYsf.n + 1 <= MaxQueue
    BY <1>7 DEF DmrHeader, Room
  <2>2. CASE Opens(s) /\ ~gated
    <3>1. toYsf' = PutHeader(EmptyLane, CapYsf)
      BY <1>7, <2>2 DEF DmrHeader
    <3>3. Extends(EmptyLane, toYsf', "HEADER") /\ toYsf'.n <= EmptyLane.n + 1
      BY <1>1, <1>2, <2>1, <3>1, PutHeaderExtends
    <3>4. EmptyLane.n + 1 <= MaxQueue /\ 1 \in Nat
      BY <1>1, <1>2, <2>1
    <3> QED
      BY <1>4, <3>3, <3>4, Zenon
  <2>5. CASE Opens(s) /\ gated
    <3>1. toYsf' = EmptyLane /\ down' = "dropped"
      BY <1>7, <2>5 DEF DmrHeader
    <3>2. InStep(toYsf)'
      BY <1>2, <3>1 DEF InStep
    <3> QED
      BY <3>1, <3>2 DEF DownInv
  <2>3. CASE ~Opens(s) /\ gated
    BY <1>6, <1>7, <2>3 DEF DmrHeader, Opens
  <2>4. CASE ~Opens(s) /\ ~gated
    <3>1. toYsf' = PutHeader(toYsf, CapYsf) /\ call
      BY <1>7, <2>4 DEF DmrHeader, Opens
    <3>2. Extends(toYsf, toYsf', "HEADER") /\ toYsf'.n <= toYsf.n + 1
      BY <1>1, <1>2, <2>1, <3>1, PutHeaderExtends
    <3> QED
      BY <1>5, <2>1, <3>1, <3>2
  <2> QED
    BY <2>2, <2>3, <2>4, <2>5
<1>8. ASSUME NEW s \in Remote, NEW second \in BOOLEAN, DmrVoice(s, second)
      PROVE  DownInv'
  <2>1. toYsf.n + 4 <= MaxQueue
    BY <1>8 DEF DmrVoice, Room
  <2>2. CASE call
    <3>1. toYsf' = PutData(toYsf, 3, CapYsf)
      BY <1>8, <2>2 DEF DmrVoice, PutDmrVoice
    <3>2. Extends(toYsf, toYsf', "DATA") /\ toYsf'.n <= toYsf.n + 3
      <4>1. toYsf.n + 3 <= CapYsf
        BY <1>1, <2>1
      <4>2. toYsf \in Lanes /\ toYsf.n = Len(toYsf.buf) /\ CapYsf \in Nat
        BY <1>1, <1>2
      <4>3. /\ Extends(toYsf, PutData(toYsf, 3, CapYsf), "DATA")
            /\ PutData(toYsf, 3, CapYsf).n = toYsf.n + 3
        BY <4>1, <4>2, PutDataExtends
      <4>4. Extends(toYsf, toYsf', "DATA") /\ toYsf'.n = toYsf.n + 3
        BY <3>1, <4>3, Zenon
      <4> QED
        BY <1>1, <4>4
    <3> QED
      BY <1>1, <1>5, <2>1, <2>2, <3>2
  <2>3. CASE ~call
    <3> DEFINE h == PutHeader(EmptyLane, CapYsf)
    <3>1. toYsf' = PutData(h, 3, CapYsf)
      BY <1>8, <2>3 DEF DmrVoice, LateEntry, PutDmrVoice
    <3>2. Extends(EmptyLane, h, "HEADER") /\ h.n = 1
      BY <1>1, <1>2, <2>1, PutHeaderExtends
    <3> HIDE DEF h
    <3>3. h \in Lanes /\ h.n = Len(h.buf) /\ h.buf # <<>> /\ h.buf[1] = "HEADER"
      <4>1. h \in Lanes /\ h.n = Len(h.buf)
        BY <3>2 DEF Extends
      <4>2. /\ h.buf # <<>>
            /\ h.buf[1] = IF EmptyLane.buf = <<>> THEN "HEADER" ELSE EmptyLane.buf[1]
        BY <1>2, <3>2, HeadKept
      <4> QED
        BY <1>2, <4>1, <4>2
    <3>4. Extends(h, toYsf', "DATA") /\ toYsf'.n = h.n + 3
      BY <1>1, <2>1, <3>1, <3>2, <3>3, PutDataExtends
    <3>5. InStep(h)
      <4>1. 1 <= MaxQueue
        BY <1>1, <2>1
      <4> QED
        BY <3>2, <3>3, <4>1 DEF InStep
    <3>6. InStep(toYsf')
      BY <1>1, <2>1, <3>2, <3>3, <3>4, <3>5, LanePuts
    <3>7. toYsf'.buf # <<>> /\ toYsf'.buf[1] = "HEADER"
      BY <3>3, <3>4, HeadKept
    <3> QED
      BY <3>6, <3>7 DEF DownInv, InStep
  <2> QED
    BY <2>2, <2>3
<1>9. CASE DmrTerminator
  <2>1. toYsf.n + 6 <= MaxQueue /\ UNCHANGED call
    BY <1>9 DEF DmrTerminator, Room
  <2>2. CASE call
    <3>1. toYsf' = PutEot(toYsf, 5, CapYsf)
      BY <1>9, <2>2 DEF DmrTerminator
    <3>2. toYsf.n + 5 + 1 <= CapYsf /\ toYsf.n + 5 + 1 = toYsf.n + 6
      BY <1>1, <2>1
    <3>3. Extends(toYsf, toYsf', "DATA") /\ toYsf'.n <= toYsf.n + 6
      BY <1>1, <1>2, <3>1, <3>2, PutEotExtends
    <3> QED
      BY <1>5, <2>1, <2>2, <3>3
  <2>3. CASE ~call
    BY <1>6, <1>9, <2>1, <2>3 DEF DmrTerminator
  <2> QED
    BY <2>2, <2>3
<1> QED
  BY <1>7, <1>8, <1>9 DEF FromDmr

\* bridge_emit_ysf_from_conv sends the head of the lane.
LEMMA EmitYsfDown ==
  ASSUME IInv, DownInv, EmitYsf
  PROVE  DownInv' /\ (down = "EOT" => down' = "HEADER")
<1> DEFINE tag == GetTag(toYsf, 5)
           rest == GetRest(toYsf, 5)
<1>1. /\ toYsf \in Lanes /\ toYsf.n = Len(toYsf.buf) /\ toYsf.n <= MaxQueue
      /\ toYsf.n \in Nat /\ MaxQueue \in Nat /\ rest \in Lanes
  BY BridgeAssumption, GetRestType DEF IInv, TypeOK, DownInv, InStep, Lanes
<1>2. toYsf.n > 0 /\ toYsf # rest
  BY DEF EmitYsf
<1>3. call
  BY <1>2 DEF IInv, IdleIsClean
<1>4. /\ rest.n = Len(rest.buf) /\ rest.n <= toYsf.n
      /\ tag # "NODATA" /\ toYsf.buf # <<>>
      /\ toYsf.buf[1] # "DATA" => tag = toYsf.buf[1]
  BY <1>1, <1>2, GetInStep
<1>5. InStep(rest)
  BY <1>1, <1>4 DEF InStep, Lanes
<1>6. down = "EOT" => tag = "HEADER"
  BY <1>3, <1>4 DEF DownInv
<1>7. CASE /\ tag \in {"HEADER", "DATA"} /\ down' = tag /\ toYsf' = rest
           /\ UNCHANGED call
  BY <1>5, <1>6, <1>7 DEF DownInv, InStep
<1>8. CASE tag = "EOT" /\ down' = tag /\ ResetCall
  <2>1. ~call' /\ toYsf' = EmptyLane
    BY <1>8 DEF ResetCall
  <2>2. InStep(toYsf)'
    BY <1>1, <2>1, EmptyLaneFields DEF InStep
  <2> QED
    BY <1>6, <1>8, <2>1, <2>2 DEF DownInv
<1> QED
  BY <1>4, <1>7, <1>8 DEF EmitYsf

\* Every step keeps the head of the lane a header while the last frame sent is
\* a terminator, and sends nothing else then.
LEMMA StepDown ==
  ASSUME "ysf" \notin Sources, MaxQueue <= CapYsf, IInv, DownInv, [Next]_vars
  PROVE  DownInv' /\ (down = "EOT" /\ down' # down => down' \in {"HEADER", "dropped"})
<1>1. CASE UNCHANGED <<call, toYsf, down>>
  BY <1>1 DEF DownInv, InStep
<1>2. CASE DmrLink \/ YsfLink \/ UNCHANGED vars
  BY <1>1, <1>2 DEF DmrLink, YsfLink, vars, conv
<1>3. CASE FromDmr
  BY <1>3, DmrDown
<1>4. ~FromYsf
  BY DEF FromYsf
<1>5. CASE \/ \E s \in Own : PttStart(s) \/ PttFinish(s)
           \/ PttLinkDown \/ PttHeader \/ PttVoice
  BY <1>1, <1>5
  DEF PttStart, PttFinish, PttLinkDown, PttHeader, PttVoice, conv
<1>6. CASE EmitDmr
  <2>1. UNCHANGED down
    BY <1>6 DEF EmitDmr
  <2>2. CASE ResetCall
    <3>1. ~call' /\ toYsf' = EmptyLane /\ MaxQueue \in Nat
      BY <2>2, BridgeAssumption DEF ResetCall
    <3>2. InStep(toYsf)'
      BY <3>1, EmptyLaneFields DEF InStep
    <3> QED
      BY <2>1, <3>1, <3>2 DEF DownInv
  <2>3. CASE UNCHANGED <<call, toYsf>>
    BY <1>1, <2>1, <2>3
  <2> QED
    BY <1>6, <2>2, <2>3 DEF EmitDmr
<1>7. CASE EmitYsf
  BY <1>7, EmitYsfDown
<1> QED
  BY <1>2, <1>3, <1>4, <1>5, <1>6, <1>7 DEF Next, BridgeTick

\* After a YSF terminator the next frame is a header, in a bridge nobody calls
\* from the YSF side, unless the header of that very call was dropped: for any
\* number of DMR streams that follow or interrupt each other, late entries,
\* repeated or lost headers and terminators, connect PTTs and flaps
\* (bridge_on_dmrd, bridge_reset_call).
THEOREM HeaderAlwaysAfterTerminator ==
  ASSUME "ysf" \notin Sources, MaxQueue <= CapYsf
  PROVE  Spec => TerminatorThenHeader
<1>1. Init => DownInv
  BY EmptyLaneFields, BridgeAssumption DEF Init, DownInv, InStep
<1>2. IInv /\ DownInv /\ [Next]_vars
      => DownInv' /\ (down = "EOT" /\ down' # down => down' \in {"HEADER", "dropped"})
  BY StepDown
<1> QED
  BY <1>1, <1>2, InitIInv, StepIInv, PTL DEF Spec, TerminatorThenHeader
-----------------------------------------------------------------------------
(***************************************************************************)
(* A connect PTT on its way.  It has at most four stages left, and one     *)
(* always ends it: the paced emission while the link is up, the poll once  *)
(* the link is down.                                                       *)
(***************************************************************************)

\* The frames of one step are of one stream.
SameStream(s) == \A i, j \in 1..Len(s) : s[i].stream = s[j].stream

PttInv == (ptt.active => wasUp) /\ SameStream(up)

\* new_stream_id finds an id that is not in use.
LEMMA FreshLeft ==
  ASSUME up \in Seq(Frames), SameStream(up)
  PROVE  Fresh # {}
<1>1. PICK s \in Own, t \in Own, u \in Own : s # t /\ t # u /\ s # u
  BY BridgeAssumption
<1>2. PICK x : \A i \in 1..Len(up) : up[i].stream = x
  <2>1. CASE Len(up) = 0
    BY <2>1
  <2>2. CASE Len(up) # 0
    <3>1. 1 \in 1..Len(up)
      BY <2>2
    <3> QED
      BY <3>1 DEF SameStream
  <2> QED
    BY <2>1, <2>2
<1>3. \A z \in Own : z # stream /\ z # x => z \in Fresh
  BY <1>2 DEF Fresh
<1> QED
  BY <1>1, <1>3

\* The frames bridge_send_dmrd sends in one step are of one stream.
LEMMA SentTogether ==
  ASSUME NEW sent \in 0..5, NEW known
  PROVE  /\ SameStream(Vhead3)
         /\ SameStream(<<Dmrd("VOICE", sent, known)>>)
         /\ SameStream(Closing(sent, known))
<1>1. SameStream(Vhead3)
  <2>1. \A i \in 1..3 : Vhead3[i] = Dmrd("VHEAD", 0, talker)
    BY DEF Vhead3
  <2>2. Len(Vhead3) = 3
    BY DEF Vhead3
  <2> QED
    BY <2>1, <2>2 DEF SameStream
<1>2. SameStream(<<Dmrd("VOICE", sent, known)>>)
  <2> DEFINE d == Dmrd("VOICE", sent, known)
  <2> HIDE DEF d
  <2>1. Len(<<d>>) = 1 /\ <<d>>[1] = d
    OBVIOUS
  <2>2. SameStream(<<d>>)
    BY <2>1 DEF SameStream
  <2> QED
    BY <2>2 DEF d
<1>3. SameStream(Closing(sent, known))
  <2> DEFINE c == Closing(sent, known)
             k == (6 - sent) % 6
  <2>1. /\ Len(c) = k + 1
        /\ \A i \in 1..k : c[i] = Dmrd("VOICE", sent + i - 1, known)
        /\ c[k + 1] = Dmrd("VTERM", 0, known)
    BY ClosingShape
  <2>2. k \in Nat
    BY Z3
  <2> HIDE DEF c, k
  <2>3. \A i \in 1..k : c[i].stream = stream
    BY <2>1, DmrdFields
  <2>4. c[k + 1].stream = stream
    BY <2>1, DmrdFields
  <2>5. \A i \in 1..(k + 1) : i \in 1..k \/ i = k + 1
    BY <2>2
  <2>6. \A i \in 1..Len(c) : c[i].stream = stream
    BY <2>1, <2>3, <2>4, <2>5
  <2> QED
    BY <2>6 DEF SameStream, c
<1> QED
  BY <1>1, <1>2, <1>3

\* Every step keeps a connect PTT behind a link whose edge has been seen.
LEMMA StepPtt == IInv /\ PttInv /\ [Next]_vars => PttInv'
<1> SUFFICES ASSUME IInv, PttInv, [Next]_vars PROVE PttInv'
  OBVIOUS
<1>1. /\ ptt.frames \in 0..5 /\ txFrames \in 0..5
      /\ ptt.active \in BOOLEAN
  BY DEF IInv, TypeOK, PttStates
<1>2. ~NoPtt.active
  BY DEF NoPtt
<1>3. CASE UNCHANGED <<wasUp, ptt, up>>
  BY <1>3 DEF PttInv, SameStream
<1>4. CASE FromDmr \/ DmrLink \/ YsfLink \/ EmitYsf \/ UNCHANGED vars
  BY <1>3, <1>4
  DEF FromDmr, DmrHeader, DmrVoice, DmrTerminator, DmrLink, YsfLink, EmitYsf,
      vars, links
<1>5. ASSUME NEW s \in Own, PttStart(s) PROVE PttInv'
  <2>1. CASE call
    BY <1>5, <2>1 DEF PttStart, PttInv, SameStream
  <2>2. CASE ~call
    <3> DEFINE d == [kind |-> "VHEAD", n |-> 0, stream |-> s,
                     tg |-> IF Clear THEN "4000" ELSE "tg",
                     src |-> RfId(talker)]
    <3>1. up' = [i \in 1..3 |-> d] /\ wasUp' = TRUE
      BY <1>5, <2>2 DEF PttStart
    <3> HIDE DEF d
    <3>2. SameStream(up')
      <4>1. Len(up') = 3 /\ \A i \in 1..3 : up'[i] = d
        BY <3>1
      <4> QED
        BY <4>1 DEF SameStream
    <3> QED
      BY <3>1, <3>2 DEF PttInv, SameStream
  <2> QED
    BY <2>1, <2>2
<1>6. ASSUME NEW s \in Own, PttFinish(s) PROVE PttInv'
  <2>1. SameStream(up')
    BY <1>1, <1>6, SentTogether DEF PttFinish
  <2>2. wasUp' = TRUE
    <3>1. wasUp /\ wasUp' = wasUp
      BY <1>6 DEF PttFinish, Polled, links
    <3> QED
      BY <3>1 DEF IInv, TypeOK
  <2> QED
    BY <2>1, <2>2 DEF PttInv, SameStream
<1>7. CASE PttLinkDown
  BY <1>2, <1>7 DEF PttLinkDown, PttInv, SameStream
<1>8. CASE PttHeader \/ PttVoice
  <2>1. SameStream(up')
    BY <1>1, <1>8, SentTogether DEF PttHeader, PttVoice
  <2>2. wasUp'
    BY <1>8 DEF PttHeader, PttVoice, Polled, links
  <2> QED
    BY <2>1, <2>2 DEF PttInv, SameStream
<1>9. CASE EmitDmr
  <2>1. SameStream(up')
    BY <1>1, <1>9, SentTogether DEF EmitDmr, PttInv
  <2>2. UNCHANGED <<wasUp, ptt>>
    BY <1>9 DEF EmitDmr, links
  <2> QED
    BY <2>1, <2>2 DEF PttInv, SameStream
<1>10. CASE FromYsf
  <2>1. ASSUME NEW s \in Own, NEW known, BeginYsfToDmr(s, known), UNCHANGED wasUp
        PROVE  PttInv'
    <3>1. ptt' = NoPtt /\ (up' = up \/ up' = Closing(ptt.frames, known))
      BY <2>1 DEF BeginYsfToDmr, AbortConnectPtt
    <3>2. SameStream(up')
      BY <1>1, <3>1, SentTogether DEF PttInv
    <3> QED
      BY <1>2, <3>1, <3>2 DEF PttInv, SameStream
  <2>2. \/ UNCHANGED <<wasUp, ptt, up>>
        \/ \E s \in Own, known \in BOOLEAN : BeginYsfToDmr(s, known) /\ UNCHANGED wasUp
    BY <1>10 DEF FromYsf, Resolved, YsfHeader, YsfVoice, YsfTerminator, links, IInv, TypeOK
  <2> QED
    BY <1>3, <2>1, <2>2
<1> QED
  BY <1>4, <1>5, <1>6, <1>7, <1>8, <1>9, <1>10 DEF Next, BridgeTick

\* The stages a connect PTT still has before it: headers and voice of the
\* clearing stream, headers and voice of the stream to the talkgroup.
Stages(p) ==
  IF p.active THEN 2 * (IF p.clearing THEN 1 ELSE 0) + (2 - p.phase) ELSE 0

\* What ends a stage.
EndsStage == PttHeader \/ PttLinkDown \/ \E s \in Own : PttFinish(s)

\* The stages of a connect PTT, one after the other.
LEMMA StageValues ==
  /\ Stages(NoPtt) = 0
  /\ Stages(PttStream("tg", FALSE)) = 2
  /\ \A p \in PttStates :
       /\ Stages(p) \in Nat
       /\ p.active => Stages(p) >= 1
       /\ p.active /\ p.clearing /\ p.phase = 1 => Stages(p) = 3
       /\ p.active /\ p.phase = 0 =>
            Stages([p EXCEPT !.phase = 1]) = Stages(p) - 1
       /\ \A k \in 0..5 : Stages([p EXCEPT !.frames = k]) = Stages(p)
<1>1. Stages(NoPtt) = 0
  BY DEF Stages, NoPtt
<1>2. Stages(PttStream("tg", FALSE)) = 2
  BY DEF Stages, PttStream
<1> SUFFICES ASSUME NEW p \in PttStates
             PROVE  /\ Stages(p) \in Nat
                    /\ p.active => Stages(p) >= 1
                    /\ p.active /\ p.clearing /\ p.phase = 1 => Stages(p) = 3
                    /\ p.active /\ p.phase = 0 =>
                         Stages([p EXCEPT !.phase = 1]) = Stages(p) - 1
                    /\ \A k \in 0..5 : Stages([p EXCEPT !.frames = k]) = Stages(p)
  BY <1>1, <1>2
<1>3. p.phase \in {0, 1} /\ p.active \in BOOLEAN /\ p.clearing \in BOOLEAN
  BY DEF PttStates
<1>4. /\ Stages(p) \in Nat
      /\ p.active => Stages(p) >= 1
      /\ p.active /\ p.clearing /\ p.phase = 1 => Stages(p) = 3
  BY <1>3 DEF Stages
<1>5. ASSUME p.active, p.phase = 0
      PROVE  Stages([p EXCEPT !.phase = 1]) = Stages(p) - 1
  <2> DEFINE r == [p EXCEPT !.phase = 1]
  <2>1. r.active = p.active /\ r.clearing = p.clearing /\ r.phase = 1
    BY DEF PttStates
  <2> HIDE DEF r
  <2>2. Stages(r) = Stages(p) - 1
    BY <1>3, <1>5, <2>1 DEF Stages
  <2> QED
    BY <2>2 DEF r
<1>6. ASSUME NEW k \in 0..5 PROVE Stages([p EXCEPT !.frames = k]) = Stages(p)
  <2> DEFINE r == [p EXCEPT !.frames = k]
  <2>1. r.active = p.active /\ r.clearing = p.clearing /\ r.phase = p.phase
    BY DEF PttStates
  <2> HIDE DEF r
  <2>2. Stages(r) = Stages(p)
    BY <1>3, <2>1 DEF Stages
  <2> QED
    BY <2>2 DEF r
<1> QED
  BY <1>4, <1>5, <1>6

\* No step takes a connect PTT back, and the ones that end a stage do end it.
LEMMA StageStep ==
  ASSUME IInv, PttInv, Next, ptt.active
  PROVE  /\ Stages(ptt') <= Stages(ptt)
         /\ EndsStage => Stages(ptt') < Stages(ptt)
<1>1. /\ ptt \in PttStates /\ Stages(ptt) \in Nat /\ Stages(ptt) >= 1
      /\ ptt.frames \in 0..5
  BY StageValues DEF IInv, TypeOK, PttStates
<1>2. ASSUME ptt' = NoPtt PROVE Stages(ptt') < Stages(ptt)
  BY <1>1, <1>2, StageValues
<1>3. ASSUME NEW s \in Own, PttFinish(s) PROVE Stages(ptt') < Stages(ptt)
  <2>1. CASE ptt.clearing
    <3>1. ptt' = PttStream("tg", FALSE) /\ ptt.phase = 1
      BY <1>3, <2>1 DEF PttFinish
    <3>2. Stages(ptt) = 3
      BY <1>1, <2>1, <3>1, StageValues
    <3>3. Stages(ptt') = 2
      BY <3>1, StageValues, Zenon
    <3> QED
      BY <3>2, <3>3
  <2>2. CASE ~ptt.clearing
    BY <1>2, <1>3, <2>2 DEF PttFinish
  <2> QED
    BY <2>1, <2>2
<1>4. ASSUME PttHeader PROVE Stages(ptt') < Stages(ptt)
  <2>1. ptt' = [ptt EXCEPT !.phase = 1] /\ ptt.phase = 0
    BY <1>4 DEF PttHeader
  <2>2. Stages(ptt') = Stages(ptt) - 1
    BY <1>1, <2>1, StageValues
  <2> QED
    BY <1>1, <2>2
<1>5. ASSUME PttLinkDown PROVE Stages(ptt') < Stages(ptt)
  BY <1>2, <1>5 DEF PttLinkDown
<1>6. EndsStage => Stages(ptt') < Stages(ptt)
  BY <1>3, <1>4, <1>5 DEF EndsStage
<1>7. \/ EndsStage \/ ptt' = NoPtt \/ UNCHANGED ptt \/ PttVoice
  <2>1. ASSUME NEW s \in Own, PttStart(s) PROVE FALSE
    BY <2>1 DEF PttStart, PttInv
  <2>2. CASE FromDmr
    BY <2>2 DEF FromDmr, DmrHeader, DmrVoice, DmrTerminator
  <2>3. CASE FromYsf
    BY <2>3 DEF FromYsf, YsfHeader, YsfVoice, YsfTerminator, BeginYsfToDmr,
                AbortConnectPtt
  <2>4. CASE EmitDmr \/ EmitYsf \/ DmrLink \/ YsfLink
    BY <2>4 DEF EmitDmr, EmitYsf, DmrLink, YsfLink
  <2> QED
    BY <2>1, <2>2, <2>3, <2>4 DEF Next, BridgeTick, EndsStage
<1>8. CASE PttVoice
  <2>1. ptt' = [ptt EXCEPT !.frames = (ptt.frames + 1) % 6]
    BY <1>8 DEF PttVoice
  <2>2. (ptt.frames + 1) % 6 \in 0..5
    BY <1>1
  <2>3. Stages(ptt') = Stages(ptt)
    BY <1>1, <2>1, <2>2, StageValues
  <2> QED
    BY <1>1, <1>6, <2>3
<1>9. CASE UNCHANGED ptt
  BY <1>1, <1>6, <1>9
<1>10. CASE EndsStage \/ ptt' = NoPtt
  <2>1. Stages(ptt') < Stages(ptt)
    BY <1>2, <1>6, <1>10
  <2>2. Stages(ptt') \in Nat
    BY StepIInv, StageValues DEF IInv, TypeOK
  <2> QED
    BY <1>1, <2>1, <2>2
<1> QED
  BY <1>7, <1>8, <1>9, <1>10

\* A connect PTT is never stuck.  In every state that has one, a step that
\* ends its stage is due: bridge_poll_connect_ptt drops it while the link is
\* down, bridge_emit_connect_ptt sends the headers of the follow-on stream or
\* finishes the one on the air, for which new_stream_id always finds an id.
\* No step adds a stage, whatever calls come in, and those do away with one.
\* This is the safety half of PttEnds, whose fairness makes them happen.
THEOREM PttNeverStuck ==
  Spec => /\ [](ptt.active =>
                  \/ ~dmrUp
                  \/ Polled /\ ptt.phase = 0
                  \/ Polled /\ ptt.phase = 1 /\ Fresh # {})
          /\ [][ptt.active => /\ Stages(ptt') <= Stages(ptt)
                              /\ EndsStage => Stages(ptt') < Stages(ptt)]_vars
<1>1. Init => PttInv
  BY DEF Init, PttInv, SameStream, NoPtt
<1>2. IInv /\ PttInv => (ptt.active => \/ ~dmrUp
                                       \/ Polled /\ ptt.phase = 0
                                       \/ Polled /\ ptt.phase = 1 /\ Fresh # {})
  <2> SUFFICES ASSUME IInv, PttInv, ptt.active, dmrUp
               PROVE  \/ Polled /\ ptt.phase = 0
                      \/ Polled /\ ptt.phase = 1 /\ Fresh # {}
    OBVIOUS
  <2>1. Fresh # {}
    BY FreshLeft DEF IInv, TypeOK, PttInv
  <2>2. ptt.phase \in {0, 1}
    BY DEF IInv, TypeOK, PttStates
  <2> QED
    BY <2>1, <2>2 DEF PttInv, Polled
<1>3. IInv /\ PttInv /\ [Next]_vars =>
        [ptt.active => /\ Stages(ptt') <= Stages(ptt)
                       /\ EndsStage => Stages(ptt') < Stages(ptt)]_vars
  BY StageStep
<1> QED
  BY <1>1, <1>2, <1>3, InitIInv, StepIInv, StepPtt, PTL DEF Spec
-----------------------------------------------------------------------------
(***************************************************************************)
(* The end of a call on its way through a lane, in either direction.       *)
(***************************************************************************)

EotInv == Due(toDmr, 3) /\ Due(toYsf, 5)

\* What one step may do to an EOT in the lane towards DMR: the end of the call
\* or a DMR call that begins wipes it, the paced emission brings it a frame
\* nearer, nothing else moves it.
UplinkEotMoves(i) ==
  \/ toDmr' = EmptyLane /\ (~call' \/ FromDmr)
  \/ EmitDmr /\ i > 3 /\ EotAt(toDmr', i - 3)
  \/ ~EmitDmr /\ EotAt(toDmr', i)

\* The same towards YSF, where a header of another stream wipes it.
DownlinkEotMoves(i) ==
  \/ toYsf' = EmptyLane /\ ~call'
  \/ \E s \in Remote : DmrHeader(s) /\ s # stream
  \/ EmitYsf /\ i > 5 /\ EotAt(toYsf', i - 5)
  \/ ~EmitYsf /\ EotAt(toYsf', i)

\* The paced emission of a lane: the frame before the EOT, or the EOT.
LEMMA EmitMoves ==
  ASSUME NEW l \in Lanes, NEW g \in {3, 5}, Due(l, g), NEW i \in Nat, EotAt(l, i)
  PROVE  /\ i = 1 => GetTag(l, g) = "EOT"
         /\ i # 1 => GetTag(l, g) = "DATA" /\ i > g /\ EotAt(GetRest(l, g), i - g)
         /\ l.n > 0 /\ l # GetRest(l, g)
<1>1. l.n = Len(l.buf) /\ i % g = 1 /\ \A j \in 1..(i - 1) : l.buf[j] = "DATA"
  BY DEF Due
<1>2. \/ i = 1 /\ GetTag(l, g) = "EOT"
      \/ i > g /\ GetTag(l, g) = "DATA" /\ EotAt(GetRest(l, g), i - g)
  BY <1>1, EotNearer
<1>3. l.n > 0 /\ l # GetRest(l, g)
  BY <1>1, <1>2, GetTakes
<1>4. i > g => i # 1
  OBVIOUS
<1> QED
  BY <1>2, <1>3, <1>4

\* Every step keeps an EOT towards DMR due, and moves it so.
LEMMA UplinkEot ==
  ASSUME Steady, MaxQueue <= CapDmr, IInv, EotInv, Next
  PROVE  /\ Due(toDmr', 3)
         /\ \A i \in Nat : EotAt(toDmr, i) => UplinkEotMoves(i)
<1>1. /\ toDmr \in Lanes /\ toDmr.n \in Nat /\ toDmr.n = Len(toDmr.buf)
      /\ Due(toDmr, 3) /\ CapDmr \in Nat /\ CapDmr >= 5 /\ MaxQueue \in Nat
      /\ 3 \in {3, 5}
  BY Caps, BridgeAssumption DEF IInv, TypeOK, Lanes, EotInv, Due
<1>2. ASSUME UNCHANGED toDmr, ~EmitDmr
      PROVE  Due(toDmr', 3) /\ \A i \in Nat : EotAt(toDmr, i) => UplinkEotMoves(i)
  BY <1>1, <1>2 DEF UplinkEotMoves
<1>3. ASSUME toDmr' = EmptyLane, ~call' \/ FromDmr
      PROVE  Due(toDmr', 3) /\ \A i \in Nat : EotAt(toDmr, i) => UplinkEotMoves(i)
  BY <1>3, EmptyDue DEF UplinkEotMoves
<1>4. ASSUME Grown(toDmr, toDmr'), ~EmitDmr
      PROVE  Due(toDmr', 3) /\ \A i \in Nat : EotAt(toDmr, i) => UplinkEotMoves(i)
  BY <1>1, <1>4, GrownDue DEF UplinkEotMoves
<1>5. ~call => toDmr = EmptyLane
  <2>1. ASSUME ~call PROVE toDmr.n = 0 /\ toDmr.buf = <<>>
    BY <2>1 DEF IInv, IdleIsClean
  <2> QED
    BY <1>1, <2>1 DEF Lanes, EmptyLane
<1>6. CASE EmitDmr
  <2>1. CASE GetTag(toDmr, 3) = "EOT"
    <3>1. ResetCall
      BY <1>6, <2>1 DEF EmitDmr
    <3> QED
      BY <1>3, <3>1 DEF ResetCall
  <2>2. CASE GetTag(toDmr, 3) # "EOT"
    <3>1. toDmr' = GetRest(toDmr, 3)
      BY <1>6, <2>2 DEF EmitDmr
    <3>2. Due(toDmr', 3)
      BY <1>1, <2>2, <3>1, GetDue
    <3>3. ASSUME NEW i \in Nat, EotAt(toDmr, i) PROVE UplinkEotMoves(i)
      <4>1. i > 3 /\ EotAt(GetRest(toDmr, 3), i - 3)
        BY <1>1, <2>2, <3>3, EmitMoves
      <4> QED
        BY <1>6, <3>1, <4>1 DEF UplinkEotMoves
    <3> QED
      BY <3>2, <3>3
  <2> QED
    BY <2>1, <2>2
<1>7. CASE ~EmitDmr /\ EmitYsf
  <2>1. ResetCall \/ UNCHANGED toDmr
    BY <1>7 DEF EmitYsf
  <2> QED
    BY <1>2, <1>3, <1>7, <2>1 DEF ResetCall
<1>8. CASE ~EmitDmr /\ FromDmr
  <2>1. toDmr' = EmptyLane \/ UNCHANGED toDmr
    BY <1>8 DEF FromDmr, DmrHeader, DmrVoice, DmrTerminator, BeginDmrToYsf
  <2> QED
    BY <1>2, <1>3, <1>8, <2>1
<1>9. CASE ~EmitDmr /\ FromYsf
  <2>1. ASSUME NEW s \in Own, NEW known, YsfHeader(s, known) PROVE Grown(toDmr, toDmr')
    <3>1. toDmr.n < CapDmr /\ toDmr' = PutHeader(toDmr, CapDmr)
      BY <1>1, <1>5, <2>1 DEF YsfHeader, Room
    <3> QED
      BY <1>1, <3>1, HeaderGrows
  <2>2. ASSUME NEW s \in Own, YsfVoice(s) PROVE Grown(toDmr, toDmr')
    <3>1. toDmr.n + 5 <= CapDmr /\ toDmr' = PutData(toDmr, 5, CapDmr)
      BY <1>1, <1>5, <2>2 DEF YsfVoice, Room, PutYsfVoice
    <3> QED
      BY <1>1, <3>1, DataGrows
  <2>3. CASE YsfTerminator
    <3>1. /\ toDmr.n + (3 + 1) <= CapDmr /\ toDmr' = PutEot(toDmr, 3, CapDmr)
          /\ \A i \in 1..Len(toDmr.buf) : toDmr.buf[i] = "DATA"
      BY <1>1, <2>3 DEF YsfTerminator, Room
    <3>2. EotPut(toDmr, 3, toDmr')
      BY <1>1, <3>1, PutEotShape
    <3>3. Due(toDmr', 3)
      BY <1>1, <3>1, <3>2, EotPutDue
    <3>4. \A i \in Nat : ~EotAt(toDmr, i)
      BY <3>1 DEF EotAt
    <3> QED
      BY <3>3, <3>4
  <2> QED
    BY <1>4, <1>9, <2>1, <2>2, <2>3 DEF FromYsf
<1>10. CASE ~EmitDmr /\ (DmrLink \/ YsfLink \/ PttLinkDown \/ PttHeader \/ PttVoice
                          \/ \E s \in Own : PttStart(s) \/ PttFinish(s))
  BY <1>2, <1>10
  DEF DmrLink, YsfLink, PttLinkDown, PttHeader, PttVoice, PttStart, PttFinish, conv
<1> QED
  BY <1>6, <1>7, <1>8, <1>9, <1>10 DEF Next, BridgeTick

\* Every step keeps an EOT towards YSF due, and moves it so.
LEMMA DownlinkEot ==
  ASSUME Steady, MaxQueue <= CapYsf, IInv, EotInv, Next
  PROVE  /\ Due(toYsf', 5)
         /\ \A i \in Nat : EotAt(toYsf, i) => DownlinkEotMoves(i)
<1>1. /\ toYsf \in Lanes /\ toYsf.n \in Nat /\ toYsf.n = Len(toYsf.buf)
      /\ Due(toYsf, 5) /\ CapYsf \in Nat /\ CapYsf >= 5 /\ MaxQueue \in Nat
      /\ 5 \in {3, 5}
  BY Caps, BridgeAssumption DEF IInv, TypeOK, Lanes, EotInv, Due
<1>2. ASSUME UNCHANGED toYsf, ~EmitYsf
      PROVE  Due(toYsf', 5) /\ \A i \in Nat : EotAt(toYsf, i) => DownlinkEotMoves(i)
  BY <1>1, <1>2 DEF DownlinkEotMoves
<1>3. ASSUME ResetCall
      PROVE  Due(toYsf', 5) /\ \A i \in Nat : EotAt(toYsf, i) => DownlinkEotMoves(i)
  BY <1>3, EmptyDue DEF ResetCall, DownlinkEotMoves
<1>4. ASSUME Grown(toYsf, toYsf'), ~EmitYsf
      PROVE  Due(toYsf', 5) /\ \A i \in Nat : EotAt(toYsf, i) => DownlinkEotMoves(i)
  BY <1>1, <1>4, GrownDue DEF DownlinkEotMoves
<1>5. /\ ~call => toYsf = EmptyLane
      /\ EmptyLane \in Lanes /\ EmptyLane.n = 0 /\ EmptyLane.n = Len(EmptyLane.buf)
      /\ Due(EmptyLane, 5) /\ \A i \in Nat : ~EotAt(EmptyLane, i)
  <2>1. ASSUME ~call PROVE toYsf.n = 0 /\ toYsf.buf = <<>>
    BY <2>1 DEF IInv, IdleIsClean
  <2>2. ~call => toYsf = EmptyLane
    BY <1>1, <2>1 DEF Lanes, EmptyLane
  <2> QED
    BY <2>2, EmptyDue, EmptyLaneFields DEF EotAt
<1>6. CASE EmitYsf
  <2>1. CASE GetTag(toYsf, 5) = "EOT"
    <3>1. ResetCall
      BY <1>6, <2>1 DEF EmitYsf
    <3> QED
      BY <1>3, <3>1
  <2>2. CASE GetTag(toYsf, 5) # "EOT"
    <3>1. toYsf' = GetRest(toYsf, 5)
      BY <1>6, <2>2 DEF EmitYsf
    <3>2. Due(toYsf', 5)
      BY <1>1, <2>2, <3>1, GetDue
    <3>3. ASSUME NEW i \in Nat, EotAt(toYsf, i) PROVE DownlinkEotMoves(i)
      <4>1. i > 5 /\ EotAt(GetRest(toYsf, 5), i - 5)
        BY <1>1, <2>2, <3>3, EmitMoves
      <4> QED
        BY <1>6, <3>1, <4>1 DEF DownlinkEotMoves
    <3> QED
      BY <3>2, <3>3
  <2> QED
    BY <2>1, <2>2
<1>7. CASE ~EmitYsf /\ EmitDmr
  <2>1. ResetCall \/ UNCHANGED toYsf
    BY <1>7 DEF EmitDmr
  <2> QED
    BY <1>2, <1>3, <1>7, <2>1
<1>8. CASE ~EmitYsf /\ FromYsf
  <2>1. UNCHANGED toYsf \/ (~call /\ toYsf' = EmptyLane)
    BY <1>8 DEF FromYsf, YsfHeader, YsfVoice, YsfTerminator, BeginYsfToDmr
  <2> QED
    BY <1>2, <1>5, <1>8, <2>1
<1>9. CASE ~EmitYsf /\ FromDmr
  <2>1. ASSUME NEW s \in Remote, DmrHeader(s)
        PROVE  Due(toYsf', 5) /\ \A i \in Nat : EotAt(toYsf, i) => DownlinkEotMoves(i)
    <3>1. toYsf.n + 1 <= MaxQueue
      BY <2>1 DEF DmrHeader, Room
    <3>2. CASE Opens(s)
      <4>1. toYsf' \in {EmptyLane, PutHeader(EmptyLane, CapYsf)}
        BY <2>1, <3>2 DEF DmrHeader
      <4>2. Grown(EmptyLane, PutHeader(EmptyLane, CapYsf))
        BY <1>1, <1>5, HeaderGrows
      <4>3. Due(toYsf', 5)
        BY <1>5, <4>1, <4>2, GrownDue
      <4>4. ASSUME NEW i \in Nat, EotAt(toYsf, i) PROVE s # stream
        BY <1>5, <3>2, <4>4 DEF Opens
      <4> QED
        BY <2>1, <4>3, <4>4 DEF DownlinkEotMoves
    <3>3. CASE ~Opens(s)
      <4>1. toYsf' = toYsf \/ toYsf' = PutHeader(toYsf, CapYsf)
        BY <2>1, <3>3 DEF DmrHeader
      <4>2. Grown(toYsf, PutHeader(toYsf, CapYsf))
        BY <1>1, <3>1, HeaderGrows
      <4> QED
        BY <1>2, <1>4, <1>9, <4>1, <4>2
    <3> QED
      BY <3>2, <3>3
  <2>2. ASSUME NEW s \in Remote, NEW second \in BOOLEAN, DmrVoice(s, second)
        PROVE  Due(toYsf', 5) /\ \A i \in Nat : EotAt(toYsf, i) => DownlinkEotMoves(i)
    <3>1. CASE call
      <4>1. toYsf.n + 3 <= CapYsf /\ toYsf' = PutData(toYsf, 3, CapYsf)
        BY <1>1, <2>2, <3>1 DEF DmrVoice, Room, PutDmrVoice
      <4>2. Grown(toYsf, toYsf')
        BY <1>1, <4>1, DataGrows
      <4> QED
        BY <1>4, <1>9, <4>2
    <3>2. CASE ~call
      <4> DEFINE h == PutHeader(EmptyLane, CapYsf)
      <4>1. Extends(EmptyLane, h, "HEADER") /\ h.n = 1
        BY <1>1, <1>5, PutHeaderExtends
      <4>2. Grown(EmptyLane, h) /\ Due(h, 5)
        BY <1>1, <1>5, HeaderGrows, GrownDue
      <4>3. toYsf' = PutData(h, 3, CapYsf)
        BY <2>2, <3>2 DEF DmrVoice, LateEntry, PutDmrVoice
      <4> HIDE DEF h
      <4>4. h \in Lanes /\ h.n = Len(h.buf) /\ h.n + 3 <= CapYsf
        BY <1>1, <4>1 DEF Extends
      <4>5. Due(toYsf', 5)
        BY <1>1, <4>2, <4>3, <4>4, DataGrows, GrownDue
      <4> QED
        BY <1>5, <3>2, <4>5
    <3> QED
      BY <3>1, <3>2
  <2>3. CASE DmrTerminator
    <3>1. CASE ~call
      BY <1>2, <1>9, <2>3, <3>1 DEF DmrTerminator
    <3>2. CASE call
      <4>1. /\ toYsf.n + (5 + 1) <= CapYsf /\ toYsf' = PutEot(toYsf, 5, CapYsf)
            /\ \A i \in 1..Len(toYsf.buf) : toYsf.buf[i] = "DATA"
        BY <1>1, <2>3, <3>2 DEF DmrTerminator, Room
      <4>2. EotPut(toYsf, 5, toYsf')
        BY <1>1, <4>1, PutEotShape
      <4>3. Due(toYsf', 5)
        BY <1>1, <4>1, <4>2, EotPutDue
      <4>4. \A i \in Nat : ~EotAt(toYsf, i)
        BY <4>1 DEF EotAt
      <4> QED
        BY <4>3, <4>4
    <3> QED
      BY <3>1, <3>2
  <2> QED
    BY <1>9, <2>1, <2>2, <2>3 DEF FromDmr
<1>10. CASE ~EmitYsf /\ (DmrLink \/ YsfLink \/ PttLinkDown \/ PttHeader \/ PttVoice
                          \/ \E s \in Own : PttStart(s) \/ PttFinish(s))
  BY <1>2, <1>10
  DEF DmrLink, YsfLink, PttLinkDown, PttHeader, PttVoice, PttStart, PttFinish, conv
<1> QED
  BY <1>6, <1>7, <1>8, <1>9, <1>10 DEF Next, BridgeTick

\* An EOT that waits belongs to an active call, and the paced emission of its
\* lane has something to take: the frame before it, or the EOT itself.
EotReady(l, g) ==
  \A i \in Nat : EotAt(l, i) =>
    /\ call /\ l.n > 0 /\ l # GetRest(l, g)
    /\ GetTag(l, g) = IF i = 1 THEN "EOT" ELSE "DATA"

\* The end of a call never gets stuck in the converter, with talkers on both
\* sides that start, stop and cut in at any time, link flaps and connect PTTs.
\* As long as an EOT finds its call's header gone and the rings hold what is
\* sent ahead, bridge_emit_dmr_from_conv and bridge_emit_ysf_from_conv never
\* come up empty before a queued EOT, each of their frames brings it nearer,
\* and only the end of the call or a call that takes over removes it.  This
\* is the safety half of CallEnds.
THEOREM CallEndNeverStuck ==
  ASSUME Steady, MaxQueue <= CapDmr, MaxQueue <= CapYsf
  PROVE  Spec => /\ []EotReady(toDmr, 3)
                 /\ []EotReady(toYsf, 5)
                 /\ [][\A i \in Nat :
                         /\ EotAt(toDmr, i) => UplinkEotMoves(i)
                         /\ EotAt(toYsf, i) => DownlinkEotMoves(i)]_vars
<1>1. Init => EotInv
  BY EmptyDue DEF Init, EotInv
<1>2. IInv /\ EotInv /\ [Next]_vars
        => /\ EotInv'
           /\ [\A i \in Nat : /\ EotAt(toDmr, i) => UplinkEotMoves(i)
                              /\ EotAt(toYsf, i) => DownlinkEotMoves(i)]_vars
  <2> SUFFICES ASSUME IInv, EotInv, [Next]_vars
               PROVE  /\ Due(toDmr', 3) /\ Due(toYsf', 5)
                      /\ [\A i \in Nat : /\ EotAt(toDmr, i) => UplinkEotMoves(i)
                                         /\ EotAt(toYsf, i) => DownlinkEotMoves(i)]_vars
    BY DEF EotInv, Due, EotAt
  <2>1. CASE Next
    BY <2>1, UplinkEot, DownlinkEot
  <2>2. CASE UNCHANGED vars
    <3>1. toDmr' = toDmr /\ toYsf' = toYsf
      BY <2>2 DEF vars, conv
    <3> QED
      BY <2>2, <3>1 DEF EotInv
  <2> QED
    BY <2>1, <2>2
<1>3. IInv /\ EotInv => EotReady(toDmr, 3) /\ EotReady(toYsf, 5)
  <2> SUFFICES ASSUME IInv, EotInv PROVE EotReady(toDmr, 3) /\ EotReady(toYsf, 5)
    OBVIOUS
  <2>1. toDmr \in Lanes /\ toYsf \in Lanes
    BY DEF IInv, TypeOK
  <2>2. ASSUME ~call, NEW i \in Nat PROVE ~EotAt(toDmr, i) /\ ~EotAt(toYsf, i)
    BY <2>2 DEF IInv, IdleIsClean, EotAt
  <2>3. EotReady(toDmr, 3)
    BY <2>1, <2>2, EmitMoves DEF EotInv, EotReady
  <2>4. EotReady(toYsf, 5)
    BY <2>1, <2>2, EmitMoves DEF EotInv, EotReady
  <2> QED
    BY <2>3, <2>4
<1> QED
  BY <1>1, <1>2, <1>3, InitIInv, StepIInv, PTL DEF Spec
=============================================================================
