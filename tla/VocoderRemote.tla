--------------------------- MODULE VocoderRemote ---------------------------
(***************************************************************************)
(* The AMBE vocoder client of src/vocoder_remote.c: one request at a time  *)
(* over UDP to a DV3000 emulator that other programs share.                *)
(*                                                                         *)
(* An answer says what it is (control, AMBE, audio) and, for AMBE, how     *)
(* many bits it has, but not which request it answers.  A message in       *)
(* flight therefore carries, as history, whether it belongs to the request *)
(* the client is waiting on.                                               *)
(*                                                                         *)
(* The emulator is external: it answers requests in the order they reach   *)
(* it, at any later time, and a RATET sets its rate for every client.      *)
(***************************************************************************)
EXTENDS Naturals, Sequences

CONSTANTS
  MaxNet,    \* bound: messages in flight per direction; more are dropped
  MaxFaults  \* bound: datagrams lost, rates changed by other clients

ASSUME VocoderAssumption ==
  /\ MaxNet \in Nat \ {0}
  /\ MaxFaults \in Nat

\* RATET 34 gives frames of 49 bits, RATET 33 of 72.
DMR_RATE == 34
AMBE72_RATE == 33

VARIABLES
  ready,     \* v->ready
  fails,     \* g_consec_fail, up to the 3 it is compared with
  op,        \* the operation in progress: open, enc, dec
  pc,        \* the exchange it is waiting in
  try,       \* vocoder_encode's loop counter
  toEmu,     \* requests whose answer has not arrived
  toClient,  \* answers that have arrived in the socket
  rate,      \* the emulator's rate
  alone,     \* history: nothing was outstanding when the request was sent
  faults

client == <<ready, fails, op, pc, try>>
vars == <<client, toEmu, toClient, rate, alone, faults>>

Requests == {"PRODID", "RATET", "AUDIO", "AMBE"}
Answers == {"CTRL", "AMBE49", "AMBE72", "AUDIO"}
Pcs == {"new", "closed", "idle", "prodid", "ratet", "once", "recover", "again", "rerate"}

TypeOK ==
  /\ ready \in BOOLEAN
  /\ fails \in 0..3
  /\ op \in {"none", "open", "enc", "dec"}
  /\ pc \in Pcs
  /\ (pc \in {"new", "closed", "idle"}) = (op = "none")
  /\ try \in 1..2
  /\ toEmu \in Seq([type : Requests, cur : BOOLEAN])
  /\ toClient \in Seq([type : Answers, cur : BOOLEAN])
  /\ rate \in {DMR_RATE, AMBE72_RATE}
  /\ alone \in BOOLEAN
  /\ faults \in 0..MaxFaults

Init ==
  /\ ready = FALSE
  /\ fails = 0
  /\ op = "none"
  /\ pc = "new"
  /\ try = 1
  /\ toEmu = <<>>
  /\ toClient = <<>>
  /\ rate \in {DMR_RATE, AMBE72_RATE}
  /\ alone = TRUE
  /\ faults = 0

-----------------------------------------------------------------------------
Request(o) == IF o = "enc" THEN "AUDIO" ELSE "AMBE"

Older(q) == [i \in DOMAIN q |-> [q[i] EXCEPT !.cur = FALSE]]

\* Fault: answers that are still in the socket are not drained.
SendUndrained(req, at) ==
  /\ toEmu' = IF Len(toEmu) < MaxNet
              THEN Append(Older(toEmu), [type |-> req, cur |-> TRUE])
              ELSE Older(toEmu)
  /\ toClient' = Older(toClient)
  /\ alone' = (toEmu = <<>>)
  /\ pc' = at

\* The first half of voc_exchange_once: voc_drain, then sendto.
Send(req, at) ==
  /\ toEmu' = IF Len(toEmu) < MaxNet
              THEN Append(Older(toEmu), [type |-> req, cur |-> TRUE])
              ELSE Older(toEmu)
  /\ toClient' = <<>>
  /\ alone' = (toEmu = <<>>)
  /\ pc' = at

\* The second half: the first datagram within the timeout.
Receive == toClient # <<>> /\ toClient' = Tail(toClient)

Return ==
  /\ pc' = "idle"
  /\ op' = "none"
  /\ try' = 1
  /\ UNCHANGED <<toEmu, alone>>

Fail == Return /\ UNCHANGED toClient

-----------------------------------------------------------------------------
\* vocoder_open, up to its first exchange
Open ==
  /\ pc = "new"
  /\ fails' = 0
  /\ op' = "open"
  /\ Send("PRODID", "prodid")
  /\ UNCHANGED <<ready, try, rate, faults>>

OpenAnswer ==
  /\ pc \in {"prodid", "ratet"}
  /\ toClient # <<>>
  /\ IF pc = "prodid"
     THEN /\ Send("RATET", "ratet")
          /\ UNCHANGED <<ready, op, try>>
     ELSE /\ ready' = TRUE
          /\ Receive
          /\ Return
  /\ fails' = 0
  /\ UNCHANGED <<rate, faults>>

\* The program does not start without its vocoder.
OpenTimeout ==
  /\ pc \in {"prodid", "ratet"}
  /\ pc' = "closed"
  /\ op' = "none"
  /\ UNCHANGED <<ready, fails, try, toEmu, toClient, rate, alone, faults>>

\* vocoder_close, as the program ends
Close ==
  /\ pc = "idle"
  /\ ready
  /\ ready' = FALSE
  /\ pc' = "closed"
  /\ UNCHANGED <<fails, op, try, toEmu, toClient, rate, alone, faults>>

Start(o) ==
  /\ pc = "idle"
  /\ ready
  /\ op' = o
  /\ try' = 1
  /\ Send(Request(o), "once")
  /\ UNCHANGED <<ready, fails, rate, faults>>

\* vocoder_encode and vocoder_decode, up to the first exchange
Encode == Start("enc")

Decode == Start("dec")

\* Fault: the bits are not looked at.
EncodeAnswerAnyBits ==
  /\ pc \in {"once", "again"}
  /\ op = "enc"
  /\ Receive
  /\ fails' = 0
  /\ Return
  /\ UNCHANGED <<ready, rate, faults>>

\* vocoder_encode has an answer from voc_exchange and looks at its type and at
\* the number of bits.  A frame of another size means that another client has
\* changed the rate: set it and try once more.
EncodeAnswer ==
  /\ pc \in {"once", "again"}
  /\ op = "enc"
  /\ toClient # <<>>
  /\ fails' = 0
  /\ IF Head(toClient).type = "AMBE72" /\ try = 1
     THEN Send("RATET", "rerate") /\ UNCHANGED <<op, try>>
     ELSE Receive /\ Return
  /\ UNCHANGED <<ready, rate, faults>>

\* vocoder_decode takes what is AUDIO and fails otherwise.
DecodeAnswer ==
  /\ pc \in {"once", "again"}
  /\ op = "dec"
  /\ Receive
  /\ fails' = 0
  /\ Return
  /\ UNCHANGED <<ready, rate, faults>>

\* No usable answer within the timeout.  After the third failure in a row
\* voc_recover_rate sets the rate again before the request is repeated.
Timeout ==
  /\ pc \in {"once", "again"}
  /\ IF pc = "once"
     THEN /\ fails' = IF fails < 3 THEN fails + 1 ELSE fails
          /\ IF fails' >= 3
             THEN Send("RATET", "recover") /\ UNCHANGED <<op, try>>
             ELSE Fail
     ELSE Fail /\ UNCHANGED fails
  /\ UNCHANGED <<ready, rate, faults>>

\* voc_recover_rate takes any answer for the acknowledgement of its RATET.
RateAnswer ==
  /\ pc \in {"recover", "rerate"}
  /\ toClient # <<>>
  /\ Send(Request(op), IF pc = "recover" THEN "again" ELSE "once")
  /\ try' = IF pc = "rerate" THEN 2 ELSE try
  /\ UNCHANGED <<ready, fails, op, rate, faults>>

\* Fault: the operation is not ended.
RateTimeoutKeepsOp ==
  /\ pc \in {"recover", "rerate"}
  /\ pc' = "idle"
  /\ UNCHANGED <<ready, fails, op, try, toEmu, toClient, rate, alone, faults>>

RateTimeout ==
  /\ pc \in {"recover", "rerate"}
  /\ Fail
  /\ UNCHANGED <<ready, fails, rate, faults>>

-----------------------------------------------------------------------------
\* The answer to the oldest request arrives.
EmuAnswers ==
  /\ toEmu # <<>>
  /\ LET m == Head(toEmu)
         a == CASE m.type \in {"PRODID", "RATET"} -> "CTRL"
                [] m.type = "AMBE" -> "AUDIO"
                [] m.type = "AUDIO" -> IF rate = DMR_RATE THEN "AMBE49" ELSE "AMBE72"
     IN  /\ rate' = IF m.type = "RATET" THEN DMR_RATE ELSE rate
         /\ toClient' = IF Len(toClient) < MaxNet
                        THEN Append(toClient, [type |-> a, cur |-> m.cur])
                        ELSE toClient
  /\ toEmu' = Tail(toEmu)
  /\ UNCHANGED <<client, alone, faults>>

\* A datagram is lost, or another client of the emulator changes its rate.
Fault ==
  /\ faults < MaxFaults
  /\ faults' = faults + 1
  /\ \/ toEmu # <<>> /\ toEmu' = Tail(toEmu) /\ UNCHANGED <<toClient, rate>>
     \/ toClient # <<>> /\ toClient' = Tail(toClient) /\ UNCHANGED <<toEmu, rate>>
     \/ rate' = AMBE72_RATE /\ UNCHANGED <<toEmu, toClient>>
  /\ UNCHANGED <<client, alone>>

-----------------------------------------------------------------------------
Client ==
  \/ Open
  \/ OpenAnswer
  \/ OpenTimeout
  \/ Encode
  \/ Decode
  \/ EncodeAnswer
  \/ DecodeAnswer
  \/ Timeout
  \/ RateAnswer
  \/ RateTimeout

Next == Client \/ Close \/ EmuAnswers \/ Fault

Spec == Init /\ [][Next]_vars

\* From some time on the emulator answers every request in time.
KeepsUp ==
  /\ <>[][~(Timeout \/ RateTimeout)]_vars
  /\ <>[](pc \in {"once", "rerate"} => alone)

\* The client is not kept waiting beyond a timeout, and there is always
\* something more to encode until the program ends.
LiveSpec ==
  /\ Spec
  /\ WF_vars(Client)
  /\ WF_vars(EmuAnswers)
  /\ SF_vars(Encode)
  /\ KeepsUp

-----------------------------------------------------------------------------
(* An operation that starts when every earlier request has been answered or *)
(* lost gets the answer to its own request: a late answer puts the exchange *)
(* out of step only until the emulator has caught up (voc_drain).           *)
LateAnswersForgotten == alone /\ pc \in {"once", "again"} =>
  \A i \in DOMAIN toClient : toClient[i].cur

(* A program that keeps encoding gets the rate back that another client of  *)
(* the emulator has changed, though the emulator's answers look valid and   *)
(* some datagrams are lost (vocoder_encode, voc_recover_rate).              *)
RateRestored ==
  (ready /\ rate # DMR_RATE) ~> (rate = DMR_RATE \/ ~ready)
=============================================================================
