------------------------- MODULE VocoderRemoteProofs -------------------------
(***************************************************************************)
(* Proofs about module VocoderRemote, for any network capacity and any     *)
(* number of faults.                                                       *)
(***************************************************************************)
EXTENDS VocoderRemote, SequenceTheorems, TLAPS

Msg(T) == [type : T, cur : BOOLEAN]

AllCur(q) == \A i \in DOMAIN q : q[i].cur

\* A request that was sent while nothing was outstanding is all that is on its
\* way, in either direction, for as long as its operation waits.
Own == alone /\ op # "none" => AllCur(toEmu) /\ AllCur(toClient)

Inv == TypeOK /\ Own

-----------------------------------------------------------------------------
(* Messages as sequences *)

\* A new request makes everything in flight a late message.
LEMMA OlderType ==
  ASSUME NEW T, NEW q \in Seq(Msg(T))
  PROVE  /\ Older(q) \in Seq(Msg(T))
         /\ q = <<>> => Older(q) = <<>>
<1>1. /\ Len(q) \in Nat
      /\ DOMAIN q = 1..Len(q)
      /\ \A i \in 1..Len(q) : q[i] \in Msg(T)
  BY LenProperties, ElementOfSeq
<1>2. \A i \in 1..Len(q) : [q[i] EXCEPT !.cur = FALSE] \in Msg(T)
  BY <1>1 DEF Msg
<1>3. Older(q) \in [1..Len(q) -> Msg(T)]
  BY <1>1, <1>2 DEF Older
<1>4. Older(q) \in Seq(Msg(T))
  BY <1>1, <1>3, SeqDef
<1>5. ASSUME q = <<>> PROVE Older(q) = <<>>
  <2>1. Len(Older(q)) = 0
    BY <1>1, <1>3, <1>4, <1>5, LenProperties, EmptySeq
  <2> QED
    BY <1>4, <2>1, EmptySeq
<1> QED
  BY <1>4, <1>5

\* A message put at the end of a queue.
LEMMA AppendType ==
  ASSUME NEW T, NEW q \in Seq(Msg(T)), NEW m \in Msg(T)
  PROVE  /\ Append(q, m) \in Seq(Msg(T))
         /\ AllCur(q) /\ m.cur => AllCur(Append(q, m))
<1>1. /\ Append(q, m) \in Seq(Msg(T))
      /\ DOMAIN Append(q, m) = 1..(Len(q) + 1)
      /\ \A i \in 1..Len(q) : Append(q, m)[i] = q[i]
      /\ Append(q, m)[Len(q) + 1] = m
      /\ DOMAIN q = 1..Len(q)
      /\ Len(q) \in Nat
  BY AppendProperties, LenProperties
<1>2. \A i \in 1..(Len(q) + 1) : i \in 1..Len(q) \/ i = Len(q) + 1
  BY <1>1
<1> QED
  BY <1>1, <1>2 DEF AllCur

\* A message taken off its head.
LEMMA TailType ==
  ASSUME NEW T, NEW q \in Seq(Msg(T)), q # <<>>
  PROVE  /\ Tail(q) \in Seq(Msg(T))
         /\ Head(q) \in Msg(T)
         /\ AllCur(q) => AllCur(Tail(q)) /\ Head(q).cur
<1>1. /\ Len(q) \in Nat \ {0}
      /\ DOMAIN q = 1..Len(q)
      /\ Head(q) = q[1]
      /\ q[1] \in Msg(T)
      /\ Tail(q) \in Seq(Msg(T))
      /\ DOMAIN Tail(q) = 1..(Len(q) - 1)
      /\ \A i \in 1..(Len(q) - 1) : Tail(q)[i] = q[i + 1]
  BY HeadTailProperties, LenProperties, EmptySeq, ElementOfSeq
<1>2. \A i \in 1..(Len(q) - 1) : i + 1 \in 1..Len(q)
  BY <1>1
<1>3. 1 \in 1..Len(q)
  BY <1>1
<1> QED
  BY <1>1, <1>2, <1>3 DEF AllCur

(* What the first half of voc_exchange_once leaves behind. *)
LEMMA SendType ==
  ASSUME TypeOK, NEW req \in Requests, NEW at, Send(req, at)
  PROVE  /\ toEmu' \in Seq(Msg(Requests))
         /\ toClient' = <<>>
         /\ toClient' \in Seq(Msg(Answers))
         /\ alone' \in BOOLEAN
         /\ alone' => AllCur(toEmu')
         /\ AllCur(toClient')
         /\ pc' = at
<1>1. toEmu \in Seq(Msg(Requests)) /\ MaxNet \in Nat \ {0}
  BY VocoderAssumption DEF TypeOK, Msg
<1>2. [type |-> req, cur |-> TRUE] \in Msg(Requests)
  BY DEF Msg
<1>3. /\ Older(toEmu) \in Seq(Msg(Requests))
      /\ toEmu = <<>> => Older(toEmu) = <<>>
  BY <1>1, OlderType
<1>4. Append(Older(toEmu), [type |-> req, cur |-> TRUE]) \in Seq(Msg(Requests))
  BY <1>2, <1>3, AppendType
<1>5. AllCur(<<>>)
  BY DEF AllCur
<1>6. ASSUME toEmu = <<>>
      PROVE  AllCur(toEmu')
  <2>1. Len(toEmu) < MaxNet
    BY <1>1, <1>6, EmptySeq
  <2>2. toEmu' = Append(Older(toEmu), [type |-> req, cur |-> TRUE])
    BY <2>1 DEF Send
  <2>3. AllCur(Older(toEmu))
    BY <1>3, <1>5, <1>6
  <2> QED
    BY <1>2, <1>3, <2>2, <2>3, AppendType
<1>7. <<>> \in Seq(Msg(Answers))
  BY EmptySeq
<1> QED
  BY <1>3, <1>4, <1>5, <1>6, <1>7 DEF Send

-----------------------------------------------------------------------------
\* Before the probe.
LEMMA Initially == Init => Inv
<1> SUFFICES ASSUME Init PROVE Inv
  OBVIOUS
<1>1. /\ toEmu \in Seq([type : Requests, cur : BOOLEAN])
      /\ toClient \in Seq([type : Answers, cur : BOOLEAN])
  BY EmptySeq DEF Init
<1>2. TypeOK
  <2>1. (pc \in {"new", "closed", "idle"}) = (op = "none")
    BY DEF Init
  <2>2. fails \in 0..3 /\ try \in 1..2 /\ faults \in 0..MaxFaults
    BY VocoderAssumption DEF Init
  <2> QED
    BY <1>1, <2>1, <2>2 DEF Init, TypeOK, Pcs
<1>3. Own
  BY DEF Init, Own
<1> QED
  BY <1>2, <1>3 DEF Inv

(* A step that sends: what it does to the rest of the client's state. *)
LEMMA Sends ==
  ASSUME Inv, NEW req \in Requests,
         NEW at \in Pcs \ {"new", "closed", "idle"}, Send(req, at),
         ready' \in BOOLEAN, fails' \in 0..3, op' \in {"open", "enc", "dec"},
         try' \in 1..2, UNCHANGED <<rate, faults>>
  PROVE  Inv'
<1>1. TypeOK'
  <2>1. pc' = at /\ op' # "none"
    BY SendType DEF Inv
  <2>2. (pc' \in {"new", "closed", "idle"}) = (op' = "none")
    BY <2>1
  <2>3. pc' \in Pcs /\ op' \in {"none", "open", "enc", "dec"}
    BY <2>1
  <2> QED
    BY <2>2, <2>3, SendType DEF Inv, TypeOK, Msg
<1>2. Own'
  BY SendType DEF Inv, Own
<1> QED
  BY <1>1, <1>2 DEF Inv

(* A step that ends the operation: nothing is being waited for. *)
LEMMA Ends ==
  ASSUME Inv, toClient' \in Seq(Msg(Answers)), toEmu' = toEmu, alone' = alone,
         pc' \in {"idle", "closed"}, op' = "none",
         ready' \in BOOLEAN, fails' \in 0..3, try' \in 1..2,
         UNCHANGED <<rate, faults>>
  PROVE  Inv'
  BY DEF Inv, TypeOK, Own, Msg, Pcs

\* An answer taken out of the socket.
LEMMA ReceiveType ==
  ASSUME TypeOK, Receive
  PROVE  toClient' \in Seq(Msg(Answers))
<1>1. toClient \in Seq(Msg(Answers))
  BY DEF TypeOK, Msg
<1> QED
  BY <1>1, TailType DEF Receive

\* Steps of the client.
LEMMA ClientStep ==
  ASSUME Inv, Client \/ Close
  PROVE  Inv'
<1>1. /\ TypeOK /\ Own
      /\ toClient \in Seq(Msg(Answers))
      /\ ready \in BOOLEAN /\ fails \in 0..3 /\ try \in 1..2
      /\ op \in {"none", "open", "enc", "dec"} /\ pc \in Pcs
      /\ (pc \in {"new", "closed", "idle"}) = (op = "none")
  BY DEF Inv, TypeOK, Msg
<1>2. \A o : Request(o) \in Requests
  BY DEF Request, Requests
<1>3. CASE Open
  BY <1>1, <1>3, Sends DEF Open, Requests, Pcs
<1>4. CASE OpenAnswer
  <2>1. CASE pc = "prodid"
    BY <1>1, <1>4, <2>1, Sends DEF OpenAnswer, Requests, Pcs
  <2>2. CASE pc # "prodid"
    BY <1>1, <1>4, <2>2, Ends, ReceiveType DEF OpenAnswer, Return
  <2> QED
    BY <2>1, <2>2
<1>5. CASE OpenTimeout
  BY <1>1, <1>5, Ends DEF OpenTimeout
<1>6. ASSUME NEW o \in {"enc", "dec"}, Start(o) PROVE Inv'
  BY <1>1, <1>2, <1>6, Sends DEF Start, Pcs
<1>7. CASE Encode \/ Decode
  BY <1>6, <1>7 DEF Encode, Decode
<1>8. CASE EncodeAnswer
  <2>1. CASE Head(toClient).type = "AMBE72" /\ try = 1
    BY <1>1, <1>8, <2>1, Sends DEF EncodeAnswer, Requests, Pcs
  <2>2. CASE ~(Head(toClient).type = "AMBE72" /\ try = 1)
    BY <1>1, <1>8, <2>2, Ends, ReceiveType DEF EncodeAnswer, Return
  <2> QED
    BY <2>1, <2>2
<1>9. CASE DecodeAnswer
  BY <1>1, <1>9, Ends, ReceiveType DEF DecodeAnswer, Return
<1>10. CASE Timeout
  <2>1. fails' \in 0..3
    BY <1>1, <1>10 DEF Timeout
  <2>2. CASE Send("RATET", "recover") /\ UNCHANGED <<op, try>>
    BY <1>1, <1>10, <2>1, <2>2, Sends DEF Timeout, Requests, Pcs
  <2>3. CASE Fail
    BY <1>1, <1>10, <2>1, <2>3, Ends DEF Timeout, Fail, Return
  <2> QED
    BY <1>10, <2>2, <2>3 DEF Timeout
<1>11. CASE RateAnswer
  BY <1>1, <1>2, <1>11, Sends DEF RateAnswer, Pcs
<1>12. CASE RateTimeout
  BY <1>1, <1>12, Ends DEF RateTimeout, Fail, Return
<1>13. CASE Close
  BY <1>1, <1>13, Ends DEF Close
<1> QED
  BY <1>3, <1>4, <1>5, <1>7, <1>8, <1>9, <1>10, <1>11, <1>12, <1>13 DEF Client

(* An answer takes over whose it is from the request; a lost datagram leaves *)
(* the others as they were.                                                  *)
LEMMA NetworkStep ==
  ASSUME Inv, EmuAnswers \/ Fault
  PROVE  Inv'
<1>1. /\ TypeOK /\ Own
      /\ toEmu \in Seq(Msg(Requests)) /\ toClient \in Seq(Msg(Answers))
  BY DEF Inv, TypeOK, Msg
<1>2. CASE EmuAnswers
  <2>1. toEmu # <<>> /\ toEmu' = Tail(toEmu) /\ UNCHANGED <<client, alone, faults>>
    BY <1>2 DEF EmuAnswers
  <2>2. /\ Head(toEmu) \in Msg(Requests)
        /\ toEmu' \in Seq(Msg(Requests))
        /\ AllCur(toEmu) => AllCur(toEmu') /\ Head(toEmu).cur
    BY <1>1, <2>1, TailType
  <2>3. PICK a \in Answers :
          toClient' = IF Len(toClient) < MaxNet
                      THEN Append(toClient, [type |-> a, cur |-> Head(toEmu).cur])
                      ELSE toClient
    BY <1>2, <2>2 DEF EmuAnswers, Msg, Requests, Answers
  <2>4. [type |-> a, cur |-> Head(toEmu).cur] \in Msg(Answers)
    BY <2>2 DEF Msg
  <2>5. /\ toClient' \in Seq(Msg(Answers))
        /\ AllCur(toClient) /\ Head(toEmu).cur => AllCur(toClient')
    BY <1>1, <2>3, <2>4, AppendType
  <2>6. rate' \in {DMR_RATE, AMBE72_RATE}
    BY <1>1, <1>2 DEF EmuAnswers, TypeOK
  <2>7. TypeOK'
    BY <1>1, <2>1, <2>2, <2>5, <2>6 DEF TypeOK, Msg, client
  <2>8. Own'
    BY <1>1, <2>1, <2>2, <2>5 DEF Own, client
  <2> QED
    BY <2>7, <2>8 DEF Inv
<1>3. CASE Fault
  <2>1. /\ toEmu' \in Seq(Msg(Requests))
        /\ AllCur(toEmu) => AllCur(toEmu')
    BY <1>1, <1>3, TailType DEF Fault
  <2>2. /\ toClient' \in Seq(Msg(Answers))
        /\ AllCur(toClient) => AllCur(toClient')
    BY <1>1, <1>3, TailType DEF Fault
  <2>3. rate' \in {DMR_RATE, AMBE72_RATE} /\ UNCHANGED <<client, alone>>
    BY <1>1, <1>3 DEF Fault, TypeOK
  <2>4. faults' \in 0..MaxFaults
    BY <1>1, <1>3, VocoderAssumption DEF Fault, TypeOK
  <2>5. TypeOK'
    BY <1>1, <2>1, <2>2, <2>3, <2>4 DEF TypeOK, Msg, client
  <2>6. Own'
    BY <1>1, <2>1, <2>2, <2>3 DEF Own, client
  <2> QED
    BY <2>5, <2>6 DEF Inv
<1> QED
  BY <1>2, <1>3

\* Every step of the client, the emulator and the network keeps the invariant.
LEMMA Inductive == Inv /\ [Next]_vars => Inv'
<1> SUFFICES ASSUME Inv, [Next]_vars PROVE Inv'
  OBVIOUS
<1>1. CASE Next
  BY <1>1, ClientStep, NetworkStep DEF Next
<1>2. CASE UNCHANGED vars
  BY <1>2 DEF vars, client, Inv, TypeOK, Own
<1> QED
  BY <1>1, <1>2

-----------------------------------------------------------------------------
(* The client of vocoder_remote.c is in the middle of an exchange exactly    *)
(* when it has an operation in progress, and its failure count and loop      *)
(* counter keep their ranges.                                                *)
THEOREM TypeCorrect == Spec => []TypeOK
<1>1. Inv => TypeOK
  BY DEF Inv
<1> QED
  BY Initially, Inductive, <1>1, PTL DEF Spec

(* A request sent while nothing was outstanding is never given another       *)
(* request's answer, whatever is lost: voc_drain before it and the           *)
(* emulator's order are enough.                                              *)
THEOREM LateAnswersAlwaysForgotten == Spec => []LateAnswersForgotten
<1>1. Inv => LateAnswersForgotten
  BY DEF Inv, TypeOK, Own, AllCur, LateAnswersForgotten
<1> QED
  BY Initially, Inductive, <1>1, PTL DEF Spec
=============================================================================
