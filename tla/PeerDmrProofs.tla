--------------------------- MODULE PeerDmrProofs ---------------------------
(***************************************************************************)
(* Proofs about the two clients that poll a server: PeerDmr, and PeerYsf   *)
(* at the end, for every timeout, every bound of the network and every set *)
(* of faults.                                                              *)
(*                                                                         *)
(* PeerDmr is extended.  Its state invariants are only inductive together  *)
(* (StatusAgrees needs the type of status, HoldoffIsSilent needs to know   *)
(* that no login starts before the hold-off ends), hence IInv.  What a     *)
(* login and a session can rely on needs SessionInv, about the datagrams   *)
(* in flight.                                                              *)
(*                                                                         *)
(* PeerYsf is extended, too: in mode ysf-dmr both clients run in one loop, *)
(* on one alarm, and what both have is declared in PeerUdp.                *)
(***************************************************************************)
EXTENDS PeerDmr, PeerYsf, TLAPS

IInv ==
  /\ TypeOK
  /\ StatusAgrees
  /\ PhaseAgrees
  /\ HoldoffIsSilent

\* Sending adds at most one datagram of the right kind to a channel (Sent,
\* the sendto() calls of peer_dmr.c).
LEMMA SentType ==
  ASSUME NEW S, NEW net \in Seq(S), NEW m \in S
  PROVE  Sent(net, m) \in Seq(S)
  BY DEF Sent

\* An age never leaves its range (Older, time passing in peer_dmr_tick's
\* comparisons).
LEMMA OlderType ==
  ASSUME NEW age \in 0..(LoginTimeout + 1)
  PROVE  Older(age) \in 0..(LoginTimeout + 1)
  BY PeerDmrAssumption DEF Older, LoginTimeout

\* peer_dmr_open establishes the inductive invariant.
LEMMA InitIInv == Init => IInv
<1> SUFFICES ASSUME Init PROVE IInv
  OBVIOUS
<1>0. alarmIn = ALARM /\ alarmPending = FALSE /\ late = 0
  BY DEF Init, ClockInit
<1>1. ClockTypeOK
  <2>1. alarmIn \in 1..ALARM /\ late \in 0..MaxLate
    BY <1>0, PeerUdpAssumption
  <2>2. alarmPending \in BOOLEAN
    BY <1>0
  <2> QED
    BY <2>1, <2>2 DEF ClockTypeOK
<1>2. faults \in [FaultKinds -> Nat]
  BY DEF Init
<1>3. pongAge \in 0..(LoginTimeout + 1) /\ holdoff \in 0..NAK_HOLD
  BY PeerDmrAssumption DEF Init, LoginTimeout
<1>4. TypeOK
  BY <1>1, <1>2, <1>3 DEF Init, TypeOK, Status, Records
<1> QED
  BY <1>4 DEF Init, IInv, StatusAgrees, PhaseAgrees, HoldoffIsSilent

\* Each step of the client, the master and the network keeps IInv.
LEMMA StepIInv == IInv /\ [Next]_vars => IInv'
<1> SUFFICES ASSUME IInv, [Next]_vars PROVE IInv'
  OBVIOUS
<1> USE PeerDmrAssumption, PeerUdpAssumption
<1>t. TypeOK /\ StatusAgrees /\ PhaseAgrees /\ HoldoffIsSilent
  BY DEF IInv
<1>l. LoginTimeout \in Nat
  BY DEF LoginTimeout
<1>c. alarmIn \in 1..ALARM /\ alarmPending \in BOOLEAN /\ late \in 0..MaxLate
  BY <1>t DEF TypeOK, ClockTypeOK
<1>0. 0 \in 0..MaxLate
  OBVIOUS
<1>1. CASE TickLogin
  <2>1. Sent(toMaster, "RPTL") \in Seq(Requests)
    BY <1>t, SentType DEF TypeOK, Requests
  <2> QED
    BY <1>1, <1>t, <1>l, <1>c, <1>0, <2>1
    DEF TickLogin, IInv, TypeOK, StatusAgrees, PhaseAgrees, HoldoffIsSilent,
        Status, ClockTypeOK
<1>2. CASE TickKeepaliveLost
  BY <1>2, <1>t
  DEF TickKeepaliveLost, IInv, TypeOK, StatusAgrees, PhaseAgrees,
      HoldoffIsSilent, Status, network, clock, ClockTypeOK
<1>3. CASE TickLoginLost
  BY <1>3, <1>t
  DEF TickLoginLost, IInv, TypeOK, StatusAgrees, PhaseAgrees, HoldoffIsSilent,
      Status, network, clock, ClockTypeOK
<1>4. CASE Rx
  <2>1. toPeer' \in Seq(Replies)
    BY <1>4, <1>t DEF Rx, TypeOK
  <2>2. UNCHANGED <<running, master, faults>> /\ status' = host' /\ ClockTypeOK'
    BY <1>4, <1>c, <1>0 DEF Rx, ClockTypeOK
  <2>3. CASE host = "CONNECTED" /\ pongAge' = 0
             /\ UNCHANGED <<host, phase, holdoff, toMaster>>
    BY <2>1, <2>2, <2>3, <1>t, <1>l
    DEF IInv, TypeOK, StatusAgrees, PhaseAgrees, HoldoffIsSilent
  <2>4. CASE host = "CONNECTING" /\ AckStep /\ UNCHANGED holdoff
    <3>1. /\ Sent(toMaster, "RPTK") \in Seq(Requests)
          /\ Sent(toMaster, "RPTC") \in Seq(Requests)
          /\ Sent(toMaster, "RPTO") \in Seq(Requests)
      BY <1>t, SentType DEF TypeOK, Requests
    <3>2. phase \in 0..3
      BY <2>4, <1>t DEF PhaseAgrees
    <3>3. /\ toMaster' \in Seq(Requests)
          /\ host' \in {"CONNECTING", "CONNECTED"}
          /\ host' = "CONNECTED" => phase' = 4
          /\ host' = "CONNECTING" => phase' \in 0..3
          /\ phase' = 3 => Options
          /\ phase' \in 0..4
          /\ pongAge' \in 0..(LoginTimeout + 1)
      <4>1. CASE phase = 0
        BY <4>1, <2>4, <3>1, <1>t, <1>l DEF AckStep, Request, TypeOK
      <4>2. CASE phase = 1
        BY <4>2, <2>4, <3>1, <1>t, <1>l DEF AckStep, Request, TypeOK
      <4>3. CASE phase = 2 /\ Options
        BY <4>3, <2>4, <3>1, <1>t, <1>l DEF AckStep, Request, TypeOK
      <4>4. CASE phase = 3 \/ (phase = 2 /\ ~Options)
        BY <4>4, <2>4, <3>1, <1>t, <1>l DEF AckStep, LoginComplete, TypeOK
      <4> QED
        BY <3>2, <4>1, <4>2, <4>3, <4>4
    <3>4. holdoff = 0 /\ holdoff' = 0
      BY <2>4, <1>t DEF HoldoffIsSilent, TypeOK
    <3> QED
      BY <2>1, <2>2, <3>3, <3>4, <1>t
      DEF IInv, TypeOK, StatusAgrees, PhaseAgrees, HoldoffIsSilent, Status
  <2>5. CASE host = "CONNECTING" /\ host' = "DISCONNECTED"
             /\ holdoff' = NAK_HOLD /\ UNCHANGED <<phase, pongAge, toMaster>>
    BY <2>1, <2>2, <2>5, <1>t
    DEF IInv, TypeOK, StatusAgrees, PhaseAgrees, HoldoffIsSilent, Status
  <2>6. CASE UNCHANGED <<host, phase, pongAge, holdoff, toMaster>>
    BY <2>1, <2>2, <2>6, <1>t
    DEF IInv, TypeOK, StatusAgrees, PhaseAgrees, HoldoffIsSilent
  <2> QED
    BY <1>4, <2>3, <2>4, <2>5, <2>6 DEF Rx
<1>5. CASE Alarm
  <2>1. Sent(toMaster, "RPTPING") \in Seq(Requests)
    BY <1>t, SentType DEF TypeOK, Requests
  <2> QED
    BY <1>5, <1>t, <1>c, <2>1
    DEF Alarm, IInv, TypeOK, StatusAgrees, PhaseAgrees, HoldoffIsSilent,
        ClockTypeOK
<1>6. CASE Sigint
  <2>1. Sent(toMaster, "RPTCL") \in Seq(Requests)
    BY <1>t, SentType DEF TypeOK, Requests
  <2> QED
    BY <1>6, <1>t, <2>1
    DEF Sigint, IInv, TypeOK, StatusAgrees, PhaseAgrees, HoldoffIsSilent,
        clock, ClockTypeOK
<1>7. ASSUME UNCHANGED client,
             toMaster' \in Seq(Requests), toPeer' \in Seq(Replies),
             master' \in Records, faults' \in [FaultKinds -> Nat]
      PROVE  IInv'
  BY <1>7, <1>t
  DEF client, IInv, TypeOK, StatusAgrees, PhaseAgrees, HoldoffIsSilent, clock,
      ClockTypeOK
<1>8. /\ Sent(toPeer, "MSTPONG") \in Seq(Replies)
      /\ Sent(toPeer, "RPTACK") \in Seq(Replies)
      /\ Sent(toPeer, "MSTNAK") \in Seq(Replies)
  BY <1>t, SentType DEF TypeOK, Replies
<1>9. toMaster # <<>> => Tail(toMaster) \in Seq(Requests)
  BY <1>t DEF TypeOK
<1>10. CASE MasterRx
  <2>1. \A m \in Requests : Granted(m) \in Records
    BY <1>t DEF Granted, Records, TypeOK
  <2>2. Head(toMaster) \in Requests
    BY <1>10, <1>t DEF MasterRx, TypeOK
  <2>3. toPeer' \in Seq(Replies) /\ master' \in Records
    BY <1>10, <1>t, <1>8, <2>1, <2>2 DEF MasterRx, TypeOK, Records
  <2> QED
    BY <1>10, <1>t, <1>7, <1>9, <2>3 DEF MasterRx, TypeOK
<1>f. ASSUME NEW kind, Fault(kind)
      PROVE  UNCHANGED client /\ faults' \in [FaultKinds -> Nat]
  BY <1>f, <1>t DEF Fault, Faulty, FaultKinds, TypeOK
<1>11. CASE MasterVoice
  BY <1>11, <1>t, <1>7 DEF MasterVoice, TypeOK, Replies
<1>12. CASE MasterReject
  BY <1>12, <1>t, <1>f, <1>7, <1>8, <1>9 DEF MasterReject, TypeOK, Records
<1>13. CASE MasterRestart
  BY <1>13, <1>t, <1>f, <1>7 DEF MasterRestart, TypeOK, Records, network
<1>14. CASE Lose
  <2>1. toPeer # <<>> => Tail(toPeer) \in Seq(Replies)
    BY <1>t DEF TypeOK
  <2> QED
    BY <1>14, <1>t, <1>f, <1>7, <1>9, <2>1 DEF Lose, TypeOK
<1>15. CASE Duplicate
  <2>1. toPeer # <<>> => <<Head(toPeer)>> \o toPeer \in Seq(Replies)
    BY <1>t DEF TypeOK
  <2> QED
    BY <1>15, <1>t, <1>f, <1>7, <2>1 DEF Duplicate, TypeOK
<1>16. CASE Second
  <2>1. pongAge' \in 0..(LoginTimeout + 1)
    BY <1>16, <1>t, OlderType DEF Second, TypeOK
  <2>2. ClockTypeOK'
    <3>1. late' \in 0..MaxLate
      BY <1>16, <1>c, <1>0 DEF Second, LateBy
    <3> QED
      BY <1>16, <1>c, <3>1 DEF Second, AlarmClock, ClockTypeOK
  <2> QED
    BY <1>16, <1>t, <2>1, <2>2
    DEF Second, IInv, TypeOK, StatusAgrees, PhaseAgrees, HoldoffIsSilent,
        network
<1>17. CASE UNCHANGED vars
  BY <1>17, <1>t
  DEF vars, client, network, IInv, TypeOK, StatusAgrees, PhaseAgrees,
      HoldoffIsSilent, clock, ClockTypeOK
<1> QED
  BY <1>1, <1>2, <1>3, <1>4, <1>5, <1>6, <1>10, <1>11, <1>12, <1>13, <1>14,
     <1>15, <1>16, <1>17
  DEF Next, Client, Environment, Tick

\* The client's state, its channels and the master's record always have their
\* types: in particular ages and timers stay within the configured bounds.
THEOREM TypeCorrect == Spec => []TypeOK
  BY InitIInv, StepIInv, PTL DEF Spec, IInv

\* The bridge's view of the link (peer_dmr_connected) and the client's own
\* state never disagree on being connected.
THEOREM StatusAlwaysAgrees == Spec => []StatusAgrees
  BY InitIInv, StepIInv, PTL DEF Spec, IInv

\* CONNECTED is only ever reached at the end of the handshake handle_rx runs.
THEOREM PhaseAlwaysAgrees == Spec => []PhaseAgrees
  BY InitIInv, StepIInv, PTL DEF Spec, IInv

\* After a MSTNAK the client stays disconnected, and silent, for NAK_HOLD
\* seconds whatever the network delivers meanwhile.
THEOREM HoldoffAlwaysSilent == Spec => []HoldoffIsSilent
  BY InitIInv, StepIInv, PTL DEF Spec, IInv
-----------------------------------------------------------------------------
(***************************************************************************)
(* The silence of a server that answers, for both clients.  A sign of life *)
(* starts it; from then on an alarm falls in every ALARM seconds, those of *)
(* one delay counting once, and a lost datagram costs what lies between    *)
(* two that are served.                                                    *)
(***************************************************************************)

\* The longest silence in which nothing is due yet.
Reach(lost) == Period * lost + ALARM

\* Once something is under way the silence may exceed that by the delay, and
\* with it j more alarms have come.  quiet: nothing is under way.
Within(age, due, lt, lost, quiet) ==
  /\ age <= Reach(lost) + lt
  /\ \E j \in Nat :
       /\ age + due <= Reach(lost) + ALARM * j
       /\ ALARM * j <= lt + due
       /\ quiet => j = 0

\* The quantities of Within are numbers.
LEMMA ReachNumbers ==
  ASSUME NEW lost \in Nat
  PROVE  /\ ALARM \in Nat /\ ALARM >= 1 /\ MaxLate \in Nat /\ Period \in Nat
         /\ Reach(lost) \in Nat /\ Reach(lost) >= ALARM
         /\ Reach(lost + 1) = Reach(lost) + Period
         /\ Silence(lost) = Reach(lost) + MaxLate
<1>1. ALARM \in Nat /\ ALARM >= 1 /\ MaxLate \in Nat
  BY PeerUdpAssumption
<1>2. Period \in Nat
  <2>1. MaxLate \div ALARM \in Nat
    BY <1>1
  <2> DEFINE q == MaxLate \div ALARM
  <2>2. q \in Nat
    BY <2>1
  <2> HIDE DEF q
  <2>3. ALARM * (1 + q) \in Nat
    BY <1>1, <2>2
  <2> QED
    BY <2>3 DEF Period, q
<1> DEFINE p == Period
<1>3. p \in Nat
  BY <1>2
<1> HIDE DEF p
<1>4. p * lost \in Nat /\ p * (lost + 1) = p * lost + p
  BY <1>3
<1>5. /\ Period * lost \in Nat
      /\ Period * (lost + 1) = Period * lost + Period
  BY <1>4 DEF p
<1> DEFINE a == Period * lost
<1>6. a \in Nat /\ Reach(lost) = a + ALARM /\ Silence(lost) = a + ALARM + MaxLate
      /\ Reach(lost + 1) = a + p + ALARM
  BY <1>5 DEF Reach, Silence, p
<1> HIDE DEF a
<1> QED
  BY <1>1, <1>2, <1>3, <1>6 DEF p

\* The alarms of one delay fit into a period.
LEMMA AlarmsFit ==
  ASSUME NEW j \in Nat, ALARM * j <= MaxLate + ALARM
  PROVE  ALARM * j <= Period
<1>1. ALARM \in Nat /\ ALARM >= 1 /\ MaxLate \in Nat
  BY PeerUdpAssumption
<1> DEFINE q == MaxLate \div ALARM
           r == MaxLate % ALARM
<1>2. q \in Nat /\ r \in Nat /\ r < ALARM /\ MaxLate = ALARM * q + r
  BY <1>1
<1>3. Period = ALARM * (1 + q)
  BY DEF Period
<1> HIDE DEF q, r
<1>4. j <= 1 + q
  <2> SUFFICES ASSUME j >= q + 2 PROVE FALSE
    BY <1>2
  <2>1. ALARM * j >= ALARM * (q + 2)
    BY <1>1, <1>2
  <2>2. ALARM * (q + 2) = ALARM * q + ALARM + ALARM
    BY <1>1, <1>2
  <2> DEFINE x == ALARM * j
             y == ALARM * q
  <2>3. x \in Nat /\ y \in Nat
    BY <1>1, <1>2
  <2>4. x >= y + ALARM + ALARM /\ x <= y + r + ALARM
    BY <1>2, <2>1, <2>2
  <2> HIDE DEF x, y
  <2> QED
    BY <1>1, <1>2, <2>3, <2>4
<1> QED
  BY <1>1, <1>2, <1>3, <1>4

\* A sign of life starts the silence.
LEMMA WithinFresh ==
  ASSUME NEW due \in 1..ALARM, NEW lt \in Nat, NEW lost \in Nat,
         NEW quiet \in BOOLEAN
  PROVE  Within(0, due, lt, lost, quiet)
<1>1. /\ Reach(lost) \in Nat /\ Reach(lost) >= ALARM /\ ALARM \in Nat
      /\ ALARM * 0 = 0
  BY ReachNumbers
<1>2. /\ 0 <= Reach(lost) + lt
      /\ 0 + due <= Reach(lost) + ALARM * 0
      /\ ALARM * 0 <= lt + due
  BY <1>1
<1> QED
  BY <1>2 DEF Within

\* Nothing is quiet because something else is under way, too.
LEMMA WithinWeaker ==
  ASSUME NEW age, NEW due, NEW lt, NEW lost, NEW q \in BOOLEAN, NEW r \in BOOLEAN,
         Within(age, due, lt, lost, q), r => q
  PROVE  Within(age, due, lt, lost, r)
BY DEF Within

\* A lost datagram costs a period, whatever else is under way.
LEMMA WithinLost ==
  ASSUME NEW age \in Nat, NEW due \in 1..ALARM, NEW lt \in 0..MaxLate,
         NEW lost \in Nat, NEW q \in BOOLEAN, NEW r \in BOOLEAN,
         Within(age, due, lt, lost, q)
  PROVE  Within(age, due, lt, lost + 1, r)
<1>1. /\ Reach(lost) \in Nat /\ Reach(lost) >= ALARM /\ ALARM \in Nat
      /\ Reach(lost + 1) = Reach(lost) + Period /\ Period \in Nat
      /\ MaxLate \in Nat /\ ALARM * 0 = 0
  BY ReachNumbers
<1>2. PICK j \in Nat : /\ age + due <= Reach(lost) + ALARM * j
                       /\ ALARM * j <= lt + due
  BY DEF Within
<1> DEFINE x == ALARM * j
<1>3. x \in Nat /\ age + due <= Reach(lost) + x /\ x <= lt + due
  BY <1>1, <1>2
<1>4. x <= Period
  <2>1. ALARM * j <= MaxLate + ALARM
    BY <1>1, <1>2
  <2> QED
    BY <2>1, AlarmsFit
<1>5. age <= Reach(lost) + lt
  BY DEF Within
<1> HIDE DEF x
<1>6. /\ age <= Reach(lost + 1) + lt
      /\ age + due <= Reach(lost + 1) + ALARM * 0
      /\ ALARM * 0 <= lt + due
  BY <1>1, <1>3, <1>4, <1>5
<1> QED
  BY <1>6 DEF Within

\* What a second does to the quantities of Within: something that was under
\* way may still be, and a delay starts anew only where nothing was.
SecondPassed(age, due, lt, q, a, d, l, r) ==
  /\ a <= age + 1
  /\ d = IF due = 1 THEN ALARM ELSE due - 1
  /\ l = lt + 1 \/ (q /\ l = 0)
  /\ r => q /\ due # 1

LEMMA WithinSecond ==
  ASSUME NEW age \in Nat, NEW due \in 1..ALARM, NEW lt \in Nat,
         NEW lost \in Nat, NEW q \in BOOLEAN, NEW r \in BOOLEAN,
         NEW a \in Nat, NEW d, NEW l \in Nat,
         Within(age, due, lt, lost, q),
         SecondPassed(age, due, lt, q, a, d, l, r)
  PROVE  Within(a, d, l, lost, r)
<1>0. /\ a <= age + 1
      /\ d = IF due = 1 THEN ALARM ELSE due - 1
      /\ l = lt + 1 \/ (q /\ l = 0)
      /\ r => q /\ due # 1
  BY DEF SecondPassed
<1>1. /\ Reach(lost) \in Nat /\ Reach(lost) >= ALARM /\ ALARM \in Nat
      /\ ALARM * 0 = 0
  BY ReachNumbers
<1>2. PICK j \in Nat : /\ age + due <= Reach(lost) + ALARM * j
                       /\ ALARM * j <= lt + due
                       /\ q => j = 0
  BY DEF Within
<1> DEFINE x == ALARM * j
<1>3. x \in Nat /\ age + due <= Reach(lost) + x /\ x <= lt + due
      /\ age <= Reach(lost) + lt
  BY <1>1, <1>2 DEF Within
<1>4. q => x = 0
  BY <1>1, <1>2
<1>5. ALARM * (j + 1) = x + ALARM
  BY <1>1
<1>6. q => j = 0
  BY <1>2
<1> HIDE DEF x
<1>7. a <= Reach(lost) + l
  <2>1. CASE l = lt + 1
    BY <1>0, <2>1, <1>1, <1>3
  <2>2. CASE q /\ l = 0
    BY <1>0, <2>2, <1>1, <1>3, <1>4
  <2> QED
    BY <1>0, <2>1, <2>2
<1>8. CASE due = 1
  <2>1. d = ALARM /\ ~r
    BY <1>0, <1>8
  <2>2. a + ALARM <= Reach(lost) + (x + ALARM)
    BY <1>0, <1>1, <1>3, <1>8
  <2>3. x + ALARM <= l + ALARM
    <3>1. CASE l = lt + 1
      BY <3>1, <1>1, <1>3, <1>8
    <3>2. CASE q /\ l = 0
      BY <3>2, <1>1, <1>4
    <3> QED
      BY <1>0, <3>1, <3>2
  <2>4. /\ j + 1 \in Nat
        /\ a + d <= Reach(lost) + ALARM * (j + 1)
        /\ ALARM * (j + 1) <= l + d
    BY <1>5, <2>1, <2>2, <2>3
  <2> QED
    BY <1>7, <2>1, <2>4 DEF Within
<1>9. CASE due # 1
  <2>1. d = due - 1
    BY <1>0, <1>9
  <2>2. a + d <= Reach(lost) + x
    BY <1>0, <1>1, <1>3, <1>9, <2>1
  <2>3. x <= l + d
    <3>1. CASE l = lt + 1
      BY <3>1, <1>1, <1>3, <1>9, <2>1
    <3>2. CASE q /\ l = 0
      BY <3>2, <1>1, <1>4, <1>9, <2>1
    <3> QED
      BY <1>0, <3>1, <3>2
  <2>4. /\ a + d <= Reach(lost) + ALARM * j
        /\ ALARM * j <= l + d
    BY <2>2, <2>3 DEF x
  <2> QED
    BY <1>0, <1>6, <1>7, <2>4 DEF Within
<1> QED
  BY <1>8, <1>9

\* What Within says of the silence.
LEMMA WithinSilence ==
  ASSUME NEW age \in Nat, NEW due, NEW lt \in 0..MaxLate, NEW lost \in Nat,
         NEW q, Within(age, due, lt, lost, q)
  PROVE  age <= Silence(lost)
<1>1. age <= Reach(lost) + lt
  BY DEF Within
<1> QED
  BY <1>1, ReachNumbers

-----------------------------------------------------------------------------
(***************************************************************************)
(* The session.  RPTACK names no request, so what an acknowledgement means *)
(* rests on there being at most one request of the handshake, or one       *)
(* answer to it, in flight.  That holds as long as no datagram is          *)
(* duplicated, the master does not restart and no answer comes after its   *)
(* login has timed out (Sound): a ping that is still out is answered, not  *)
(* turned down, because the master knows the client.                       *)
(***************************************************************************)

Sound == running /\ faults["dup"] = 0 /\ faults["restart"] = 0 /\ Prompt

Handshake == {"RPTL", "RPTK", "RPTC", "RPTO"}

\* The request that is out in each login_phase.
RequestOf(p) ==
  IF p = 0 THEN "RPTL" ELSE IF p = 1 THEN "RPTK"
  ELSE IF p = 2 THEN "RPTC" ELSE "RPTO"

\* What the master has granted once it acknowledges that request.
GrantOf(p) ==
  IF p = 0 THEN "challenged" ELSE IF p = 1 THEN "authenticated"
  ELSE "registered"

Answers == {"RPTACK", "MSTNAK"}

NoRequest == \A i \in 1..Len(toMaster) : toMaster[i] \notin Handshake
NoAnswer  == \A i \in 1..Len(toPeer) : toPeer[i] \notin Answers

\* A request of the handshake is the last datagram out, the one of the phase
\* the client is in, and unanswered; a ping goes to a master that knows the
\* client.
RequestsOrderly ==
  \A i \in 1..Len(toMaster) :
    /\ toMaster[i] # "RPTCL"
    /\ toMaster[i] = "RPTPING" => master = "registered"
    /\ toMaster[i] \in Handshake =>
         /\ i = Len(toMaster)
         /\ NoAnswer
         /\ host = "CONNECTING" => toMaster[i] = RequestOf(phase)

\* An answer is the last datagram in, nothing is on the way out, and an
\* acknowledgement says what the master holds.
AnswersOrderly ==
  \A i \in 1..Len(toPeer) :
    toPeer[i] \in Answers =>
      /\ i = Len(toPeer)
      /\ toMaster = <<>>
      /\ toPeer[i] = "RPTACK" /\ host = "CONNECTING" => master = GrantOf(phase)

\* The client does not log in, or its login has timed out.
Quiet ==
  \/ host = "DISCONNECTED"
  \/ host = "CONNECTED"
  \/ host = "CONNECTING" /\ pongAge > LoginTimeout

QuietIsIdle == Quiet => NoRequest /\ NoAnswer

Registered == host = "CONNECTED" => master = "registered"

\* A login whose request or answer is out has taken no longer than what its
\* answers were late.
Punctual ==
  host = "CONNECTING" /\ ~(NoRequest /\ NoAnswer)
    => pongAge <= phase * MaxLate + late

\* The silence of a session against the datagrams lost: a ping or a sign of
\* life under way is what one second of it may be late for.
Still == ~alarmPending /\ toMaster = <<>> /\ toPeer = <<>>

Budget ==
  host = "CONNECTED" => Within(pongAge, alarmIn, late, faults["loss"], Still)

Session ==
  /\ RequestsOrderly
  /\ AnswersOrderly
  /\ QuietIsIdle
  /\ Registered
  /\ Punctual
  /\ Budget

SessionInv == Sound => Session

\* What sendto() does to the datagrams in a channel.
LEMMA SentShape ==
  ASSUME NEW S, NEW net \in Seq(S), NEW m \in S
  PROVE  LET r == Sent(net, m) IN
         /\ r # <<>>
         /\ Len(r) \in {Len(net), Len(net) + 1}
         /\ \A i \in 1..Len(net) : r[i] = net[i]
         /\ Len(r) = Len(net) + 1 => r[Len(r)] = m
<1>1. CASE Len(net) < MaxNet
  <2>1. Sent(net, m) = Append(net, m)
    BY <1>1 DEF Sent
  <2> QED
    BY <2>1
<1>2. CASE ~(Len(net) < MaxNet)
  <2>1. Sent(net, m) = net
    BY <1>2 DEF Sent
  <2>2. net # <<>>
    BY <1>2, PeerUdpAssumption
  <2> QED
    BY <2>1, <2>2
<1> QED
  BY <1>1, <1>2

\* What taking the first datagram of a channel does.
LEMMA TailShape ==
  ASSUME NEW S, NEW net \in Seq(S), net # <<>>
  PROVE  /\ Len(net) \in Nat /\ Len(net) >= 1 /\ 1 \in 1..Len(net)
         /\ Head(net) = net[1]
         /\ Len(Tail(net)) = Len(net) - 1
         /\ \A i \in 1..Len(Tail(net)) :
              Tail(net)[i] = net[i + 1] /\ i + 1 \in 1..Len(net)
         /\ Len(net) = 1 => Tail(net) = <<>>
OBVIOUS


\* peer_dmr_open: nothing is in flight.
LEMMA InitSession == Init => SessionInv
<1> SUFFICES ASSUME Init PROVE Session
  BY DEF SessionInv
<1>1. toMaster = <<>> /\ toPeer = <<>> /\ host = "DISCONNECTED"
  BY DEF Init
<1> QED
  BY <1>1 DEF Session, RequestsOrderly, AnswersOrderly, QuietIsIdle, NoRequest,
              NoAnswer, Registered, Punctual, Budget

\* The numbers of a step.
LEMMA ClockNumbers ==
  ASSUME TypeOK
  PROVE  /\ alarmIn \in 1..ALARM /\ alarmIn \in Nat /\ alarmPending \in BOOLEAN
         /\ late \in 0..MaxLate /\ late \in Nat /\ MaxLate \in Nat /\ ALARM \in Nat
         /\ pongAge \in Nat /\ LoginTimeout \in Nat
         /\ faults["loss"] \in Nat
         /\ Still \in BOOLEAN
<1>1. /\ alarmIn \in 1..ALARM /\ late \in 0..MaxLate /\ alarmPending \in BOOLEAN
      /\ faults \in [FaultKinds -> Nat] /\ pongAge \in 0..(LoginTimeout + 1)
  BY DEF TypeOK, ClockTypeOK
<1>2. ALARM \in Nat /\ MaxLate \in Nat /\ LoginTimeout \in Nat
  BY PeerUdpAssumption, PeerDmrAssumption DEF LoginTimeout
<1>3. Still \in BOOLEAN
  BY DEF Still
<1> QED
  BY <1>1, <1>2, <1>3 DEF FaultKinds

\* Faults are never taken back, and a client that has ended stays ended.
LEMMA SoundBefore ==
  ASSUME TypeOK, [Next]_vars, Sound'
  PROVE  Sound
<1>1. faults \in [FaultKinds -> Nat] /\ running \in BOOLEAN
  BY DEF TypeOK
<1>2. ASSUME NEW kind \in FaultKinds, Fault(kind)
      PROVE  Sound
  BY <1>1, <1>2 DEF Fault, Faulty, Sound, FaultKinds, client, Prompt, LoginTimeout
<1>3. CASE UNCHANGED <<running, faults>>
  BY <1>3 DEF Sound, Prompt, LoginTimeout
<1>4. CASE Sigint
  BY <1>4 DEF Sigint, Sound, Prompt, LoginTimeout
<1>5. CASE MasterReject \/ MasterRestart \/ Lose \/ Duplicate
  BY <1>2, <1>5 DEF MasterReject, MasterRestart, Lose, Duplicate, FaultKinds
<1>6. CASE Tick
  BY <1>3, <1>6 DEF Tick, TickLogin, TickKeepaliveLost, TickLoginLost
<1>7. CASE Rx \/ Alarm \/ Second
  BY <1>3, <1>7 DEF Rx, Alarm, Second
<1>8. CASE MasterRx \/ MasterVoice
  BY <1>3, <1>8 DEF MasterRx, MasterVoice, client
<1>9. CASE UNCHANGED vars
  BY <1>3, <1>9 DEF vars, client
<1> QED
  BY <1>4, <1>5, <1>6, <1>7, <1>8, <1>9 DEF Next, Client, Environment

\* The client's own steps that send or give up (peer_dmr_tick).
LEMMA TickSession ==
  ASSUME IInv, Session, Tick
  PROVE  Session'
<1> USE PeerDmrAssumption, PeerUdpAssumption
<1>1. /\ toMaster \in Seq(Requests) /\ toPeer \in Seq(Replies)
      /\ LoginTimeout \in Nat
  BY DEF IInv, TypeOK, LoginTimeout
<1>2. CASE TickLogin
  <2>1. NoRequest /\ NoAnswer
    BY <1>2 DEF TickLogin, Session, QuietIsIdle, Quiet
  <2>2. /\ host' = "CONNECTING" /\ phase' = 0 /\ pongAge' = 0
        /\ toMaster' = Sent(toMaster, "RPTL")
        /\ late' = 0 /\ UNCHANGED <<toPeer, master>>
    BY <1>2 DEF TickLogin
  <2>3. /\ Len(toMaster') \in {Len(toMaster), Len(toMaster) + 1}
        /\ \A i \in 1..Len(toMaster) : toMaster'[i] = toMaster[i]
        /\ Len(toMaster') = Len(toMaster) + 1 => toMaster'[Len(toMaster')] = "RPTL"
    BY <1>1, <2>2, SentShape DEF Requests
  <2>4. NoAnswer' /\ AnswersOrderly'
    BY <2>1, <2>2 DEF NoAnswer, AnswersOrderly
  <2>5. RequestsOrderly'
    <3> SUFFICES ASSUME NEW i \in 1..Len(toMaster')
                 PROVE  /\ toMaster'[i] # "RPTCL"
                        /\ toMaster'[i] = "RPTPING" => master' = "registered"
                        /\ toMaster'[i] \in Handshake =>
                             /\ i = Len(toMaster')
                             /\ toMaster'[i] = RequestOf(phase')
      BY <2>4, Zenon DEF RequestsOrderly
    <3>1. CASE i \in 1..Len(toMaster)
      BY <3>1, <2>1, <2>2, <2>3 DEF Session, RequestsOrderly, NoRequest
    <3>2. CASE i \notin 1..Len(toMaster)
      <4>1. i = Len(toMaster') /\ toMaster'[i] = "RPTL"
        BY <3>2, <1>1, <2>3
      <4> QED
        BY <4>1, <2>2 DEF RequestOf
    <3> QED
      BY <3>1, <3>2
  <2>6. QuietIsIdle' /\ Registered' /\ Budget'
    BY <1>1, <2>2 DEF QuietIsIdle, Quiet, Registered, Budget, LoginTimeout
  <2>7. Punctual'
    BY <2>2 DEF Punctual
  <2> QED
    BY <2>4, <2>5, <2>6, <2>7 DEF Session
<1>3. CASE TickKeepaliveLost \/ TickLoginLost
  <2>1. NoRequest /\ NoAnswer
    BY <1>3 DEF TickKeepaliveLost, TickLoginLost, Session, QuietIsIdle, Quiet
  <2>2. /\ host' = "DISCONNECTED"
        /\ UNCHANGED <<toMaster, toPeer, master>>
    BY <1>3 DEF TickKeepaliveLost, TickLoginLost, network
  <2>3. NoRequest' /\ NoAnswer'
    BY <2>1, <2>2 DEF NoRequest, NoAnswer
  <2>4. RequestsOrderly' /\ AnswersOrderly'
    BY <2>2, <2>3 DEF Session, RequestsOrderly, AnswersOrderly, NoRequest, NoAnswer
  <2> QED
    BY <2>2, <2>3, <2>4 DEF Session, QuietIsIdle, Registered, Punctual, Budget
<1> QED
  BY <1>2, <1>3 DEF Tick

\* A datagram from the master (handle_rx).
LEMMA RxSession ==
  ASSUME IInv, Session, Rx
  PROVE  Session'
<1> USE PeerDmrAssumption, PeerUdpAssumption
<1>1. /\ toMaster \in Seq(Requests) /\ toPeer \in Seq(Replies)
      /\ alarmIn \in 1..ALARM /\ late \in Nat /\ MaxLate \in Nat /\ pongAge \in Nat
      /\ faults["loss"] \in Nat /\ phase \in 0..4
  BY ClockNumbers DEF IInv, TypeOK
<1>2. /\ toPeer # <<>> /\ toPeer' = Tail(toPeer)
      /\ UNCHANGED <<alarmIn, alarmPending, master, faults>>
  BY DEF Rx
<1>3. /\ Len(toPeer) \in Nat /\ Len(toPeer) >= 1 /\ 1 \in 1..Len(toPeer)
      /\ Head(toPeer) = toPeer[1]
      /\ Len(toPeer') = Len(toPeer) - 1
      /\ \A i \in 1..Len(toPeer') :
           toPeer'[i] = toPeer[i + 1] /\ i + 1 \in 1..Len(toPeer)
      /\ Len(toPeer) = 1 => toPeer' = <<>>
  BY <1>1, <1>2, TailShape
<1>4. NoAnswer => NoAnswer'
  BY <1>3 DEF NoAnswer
<1>5. \A i \in 1..Len(toPeer') :
        toPeer'[i] \in Answers =>
          /\ i = Len(toPeer') /\ toMaster = <<>>
          /\ toPeer'[i] = "RPTACK" /\ host = "CONNECTING" => master = GrantOf(phase)
  <2> SUFFICES ASSUME NEW i \in 1..Len(toPeer'), toPeer'[i] \in Answers
               PROVE  /\ i = Len(toPeer') /\ toMaster = <<>>
                      /\ toPeer'[i] = "RPTACK" /\ host = "CONNECTING"
                           => master = GrantOf(phase)
    OBVIOUS
  <2>1. toPeer'[i] = toPeer[i + 1] /\ i + 1 \in 1..Len(toPeer)
    BY <1>3
  <2>2. /\ i + 1 = Len(toPeer) /\ toMaster = <<>>
        /\ toPeer[i + 1] = "RPTACK" /\ host = "CONNECTING" => master = GrantOf(phase)
    BY <2>1 DEF Session, AnswersOrderly
  <2> QED
    BY <1>3, <2>1, <2>2
<1>b. ASSUME pongAge' = 0, late' \in Nat
      PROVE  Budget'
  <2>1. Still' \in BOOLEAN
    BY DEF Still
  <2>2. Within(0, alarmIn', late', faults'["loss"], Still')
    BY <1>1, <1>2, <1>b, <2>1, WithinFresh
  <2>3. Within(pongAge', alarmIn', late', faults'["loss"], Still')
    BY <1>b, <2>2, Zenon
  <2> QED
    BY <2>3 DEF Budget
<1>6. CASE /\ UNCHANGED <<host, phase, toMaster>>
           /\ \/ host = "CONNECTED" /\ pongAge' = 0 /\ late' = 0
              \/ host # "CONNECTED" /\ UNCHANGED <<pongAge, late>>
  <2>1. NoRequest' <=> NoRequest
    BY <1>6 DEF NoRequest
  <2>2. RequestsOrderly'
    BY <1>2, <1>4, <1>6 DEF Session, RequestsOrderly
  <2>3. AnswersOrderly'
    BY <1>2, <1>5, <1>6, <2>1 DEF AnswersOrderly
  <2>4. Quiet' => Quiet
    BY <1>6 DEF Quiet, LoginTimeout
  <2>5. QuietIsIdle' /\ Registered'
    BY <1>2, <1>4, <1>6, <2>1, <2>4 DEF Session, QuietIsIdle, Registered
  <2>6. Budget'
    BY <1>6, <1>b DEF Budget
  <2>7. Punctual'
    BY <1>4, <1>6, <2>1 DEF Session, Punctual
  <2> QED
    BY <2>2, <2>3, <2>5, <2>6, <2>7 DEF Session
<1>7. CASE host = "CONNECTING" /\ Head(toPeer) = "RPTACK" /\ AckStep /\ late' = 0
  <2>1. toPeer[1] = "RPTACK"
    BY <1>3, <1>7
  <2>2. Len(toPeer) = 1 /\ NoRequest /\ master = GrantOf(phase) /\ ~Quiet
    BY <1>3, <1>7, <2>1
    DEF Session, AnswersOrderly, QuietIsIdle, NoAnswer, NoRequest, Answers
  <2>3. toPeer' = <<>> /\ NoAnswer' /\ AnswersOrderly'
    BY <1>3, <2>2 DEF NoAnswer, AnswersOrderly
  <2>p. pongAge <= phase * MaxLate + late
    BY <1>3, <1>7, <2>1 DEF Session, Punctual, NoAnswer, Answers
  <2>4. ASSUME NEW p \in 0..2,
               phase = p, Request(RequestOf(p + 1), p + 1)
        PROVE  Session'
    <3> DEFINE m == RequestOf(p + 1)
    <3>1. m \in Handshake /\ m \in Requests /\ m # "RPTCL" /\ m # "RPTPING"
      BY DEF RequestOf, Handshake, Requests
    <3>2. /\ UNCHANGED <<host, pongAge>> /\ phase' = p + 1
          /\ toMaster' = Sent(toMaster, m)
      BY <2>4 DEF Request
    <3>3. RequestOf(phase') = m
      BY <3>2
    <3> HIDE DEF m
    <3>4. /\ Len(toMaster') \in {Len(toMaster), Len(toMaster) + 1}
          /\ \A i \in 1..Len(toMaster) : toMaster'[i] = toMaster[i]
          /\ Len(toMaster') = Len(toMaster) + 1 => toMaster'[Len(toMaster')] = m
      BY <1>1, <3>1, <3>2, SentShape
    <3>5. RequestsOrderly'
      <4> SUFFICES ASSUME NEW i \in 1..Len(toMaster')
                   PROVE  /\ toMaster'[i] # "RPTCL"
                          /\ toMaster'[i] = "RPTPING" => master' = "registered"
                          /\ toMaster'[i] \in Handshake =>
                               /\ i = Len(toMaster')
                               /\ toMaster'[i] = RequestOf(phase')
        BY <2>3, Zenon DEF RequestsOrderly
      <4>1. CASE i \in 1..Len(toMaster)
        BY <4>1, <1>2, <2>2, <3>4 DEF Session, RequestsOrderly, NoRequest
      <4>2. CASE i \notin 1..Len(toMaster)
        <5>1. i = Len(toMaster') /\ toMaster'[i] = m
          BY <4>2, <1>1, <3>4
        <5> QED
          BY <5>1, <3>1, <3>3
      <4> QED
        BY <4>1, <4>2
    <3>6. ~Quiet'
      BY <1>7, <2>2, <3>2 DEF Quiet, LoginTimeout
    <3>8. pongAge' <= phase' * MaxLate + late'
      <4>1. phase' * MaxLate = p * MaxLate + MaxLate /\ p * MaxLate \in Nat
        BY <1>1, <3>2
      <4>2. pongAge <= p * MaxLate + late /\ late <= MaxLate
        BY <2>4, <2>p, ClockNumbers DEF IInv
      <4> DEFINE x == p * MaxLate
      <4>3. x \in Nat /\ phase' * MaxLate = x + MaxLate /\ pongAge <= x + late
        BY <4>1, <4>2
      <4> HIDE DEF x
      <4>4. pongAge <= x + MaxLate
        BY <1>1, <4>2, <4>3
      <4> QED
        BY <1>1, <1>7, <3>2, <4>3, <4>4
    <3>7. Punctual'
      BY <1>7, <3>2, <3>8 DEF Punctual
    <3> QED
      BY <1>7, <2>3, <3>2, <3>5, <3>6, <3>7
      DEF Session, QuietIsIdle, Registered, Budget
  <2>5. ASSUME phase \in 2..3, LoginComplete
        PROVE  Session'
    <3>1. /\ host' = "CONNECTED" /\ pongAge' = 0 /\ UNCHANGED toMaster
      BY <2>5 DEF LoginComplete
    <3>2. NoRequest'
      BY <2>2, <3>1 DEF NoRequest
    <3>3. RequestsOrderly'
      BY <1>2, <3>1, <3>2 DEF Session, RequestsOrderly, NoRequest
    <3>4. master' = "registered"
      BY <1>2, <2>2, <2>5 DEF GrantOf
    <3>5. Budget' /\ Punctual'
      BY <1>7, <1>b, <3>1 DEF Punctual
    <3> QED
      BY <2>3, <3>2, <3>3, <3>4, <3>5 DEF Session, QuietIsIdle, Registered
  <2>6. /\ phase = 0 /\ Request("RPTK", 1) => Session'
        /\ phase = 1 /\ Request("RPTC", 2) => Session'
        /\ phase = 2 /\ Request("RPTO", 3) => Session'
    <3>1. RequestOf(0 + 1) = "RPTK" /\ RequestOf(1 + 1) = "RPTC"
          /\ RequestOf(2 + 1) = "RPTO"
      BY DEF RequestOf
    <3>2. 0 + 1 = 1 /\ 1 + 1 = 2 /\ 2 + 1 = 3 /\ {0, 1, 2} \subseteq 0..2
      OBVIOUS
    <3> QED
      BY <2>4, <3>1, <3>2
  <2>7. (phase = 3 \/ (phase = 2 /\ ~Options)) /\ LoginComplete => Session'
    BY <2>5
  <2> QED
    BY <1>7, <2>6, <2>7 DEF AckStep
<1>8. CASE /\ host = "CONNECTING" /\ Head(toPeer) = "MSTNAK"
           /\ host' = "DISCONNECTED" /\ UNCHANGED toMaster
  <2>1. Len(toPeer) = 1 /\ toMaster = <<>>
    BY <1>3, <1>8 DEF Session, AnswersOrderly, Answers
  <2>2. toPeer' = <<>> /\ toMaster' = <<>>
    BY <1>3, <1>8, <2>1
  <2>3. NoRequest' /\ NoAnswer' /\ RequestsOrderly' /\ AnswersOrderly'
    BY <2>2 DEF NoRequest, NoAnswer, RequestsOrderly, AnswersOrderly
  <2> QED
    BY <1>8, <2>3 DEF Session, QuietIsIdle, Registered, Punctual, Budget
<1>9. \/ /\ host = "CONNECTED" /\ pongAge' = 0 /\ late' = 0
         /\ UNCHANGED <<host, phase, holdoff, toMaster>>
      \/ host = "CONNECTING" /\ Head(toPeer) = "RPTACK" /\ AckStep /\ late' = 0
      \/ /\ host = "CONNECTING" /\ Head(toPeer) = "MSTNAK"
         /\ host' = "DISCONNECTED" /\ UNCHANGED toMaster
      \/ /\ host # "CONNECTED"
         /\ UNCHANGED <<host, phase, pongAge, holdoff, toMaster, late>>
  BY DEF Rx
<1> QED
  BY <1>6, <1>7, <1>8, <1>9
\* The keepalive (peer_dmr_on_alarm): a ping joins those that are still out.
LEMMA AlarmSession ==
  ASSUME IInv, Session, Alarm
  PROVE  Session'
<1> USE PeerDmrAssumption, PeerUdpAssumption
<1>1. /\ toMaster \in Seq(Requests) /\ toPeer \in Seq(Replies) /\ TypeOK
  BY DEF IInv, TypeOK
<1>2. UNCHANGED <<host, phase, pongAge, holdoff, alarmIn, late, toPeer, master, faults>>
  BY DEF Alarm
<1>3. (NoAnswer' <=> NoAnswer) /\ (Quiet' <=> Quiet)
  BY <1>2 DEF NoAnswer, Quiet, LoginTimeout
<1>4. CASE host = "CONNECTED"
  <2>1. NoRequest /\ NoAnswer /\ master = "registered"
    BY <1>4 DEF Session, QuietIsIdle, Quiet, Registered
  <2>2. toMaster' = Sent(toMaster, "RPTPING")
    BY <1>4 DEF Alarm
  <2>3. /\ toMaster' # <<>>
        /\ Len(toMaster') \in {Len(toMaster), Len(toMaster) + 1}
        /\ \A i \in 1..Len(toMaster) : toMaster'[i] = toMaster[i]
        /\ Len(toMaster') = Len(toMaster) + 1 => toMaster'[Len(toMaster')] = "RPTPING"
    BY <1>1, <2>2, SentShape DEF Requests
  <2>4. \A i \in 1..Len(toMaster') :
          toMaster'[i] # "RPTCL" /\ toMaster'[i] \notin Handshake
    <3> TAKE i \in 1..Len(toMaster')
    <3>1. CASE i \in 1..Len(toMaster)
      BY <2>1, <2>3, <3>1 DEF Session, RequestsOrderly, NoRequest
    <3>2. CASE i \notin 1..Len(toMaster)
      <4>1. toMaster'[i] = "RPTPING"
        BY <1>1, <2>3, <3>2
      <4> QED
        BY <4>1 DEF Handshake
    <3> QED
      BY <3>1, <3>2
  <2>5. RequestsOrderly' /\ NoRequest'
    BY <1>2, <2>1, <2>4 DEF RequestsOrderly, NoRequest
  <2>6. AnswersOrderly'
    BY <1>3, <2>1 DEF AnswersOrderly, NoAnswer
  <2>7. Budget'
    <3>1. Within(pongAge, alarmIn, late, faults["loss"], Still)
      BY <1>4 DEF Session, Budget
    <3>2. Within(pongAge, alarmIn, late, faults["loss"], FALSE)
      BY <1>1, <3>1, ClockNumbers, WithinWeaker
    <3>3. Still' = FALSE
      BY <2>3 DEF Still
    <3>4. Within(pongAge', alarmIn', late', faults'["loss"], Still')
      BY <1>2, <3>2, <3>3, Zenon
    <3> QED
      BY <3>4 DEF Budget
  <2> QED
    BY <1>2, <1>3, <1>4, <2>1, <2>5, <2>6, <2>7
    DEF Session, QuietIsIdle, Registered, Punctual
<1>5. CASE host # "CONNECTED"
  <2>1. toMaster' = toMaster
    BY <1>5 DEF Alarm
  <2>2. NoRequest' <=> NoRequest
    BY <2>1 DEF NoRequest
  <2>3. RequestsOrderly'
    BY <1>2, <1>3, <2>1 DEF Session, RequestsOrderly
  <2>4. AnswersOrderly'
    BY <1>2, <2>1 DEF Session, AnswersOrderly
  <2> QED
    BY <1>2, <1>3, <1>5, <2>2, <2>3, <2>4
    DEF Session, QuietIsIdle, Registered, Punctual, Budget
<1> QED
  BY <1>4, <1>5

\* The first request of a channel that holds one of the handshake's.
LEMMA HeadOnly ==
  ASSUME TypeOK, Session, toMaster # <<>>, Head(toMaster) \in Handshake
  PROVE  /\ Tail(toMaster) = <<>> /\ NoAnswer /\ host # "CONNECTED"
         /\ host = "CONNECTING" => Head(toMaster) = RequestOf(phase)
<1>1. toMaster \in Seq(Requests)
  BY DEF TypeOK
<1>2. /\ 1 \in 1..Len(toMaster) /\ Head(toMaster) = toMaster[1]
      /\ Len(toMaster) = 1 => Tail(toMaster) = <<>>
  BY <1>1, TailShape
<1>3. host # "CONNECTED"
  BY <1>2 DEF Session, QuietIsIdle, Quiet, NoRequest
<1> QED
  BY <1>2, <1>3 DEF Session, RequestsOrderly

\* The master answers (or turns down) a request of the handshake.
LEMMA AnsweredSession ==
  ASSUME IInv, Session, toMaster # <<>>, Head(toMaster) \in Handshake,
         UNCHANGED client, toMaster' = Tail(toMaster),
         \/ toPeer' = Sent(toPeer, "MSTNAK")
         \/ /\ toPeer' = Sent(toPeer, "RPTACK")
            /\ host = "CONNECTING" => master' = GrantOf(phase)
  PROVE  Session'
<1>1. toMaster \in Seq(Requests) /\ toPeer \in Seq(Replies) /\ TypeOK
  BY DEF IInv, TypeOK
<1>2. toMaster' = <<>> /\ NoAnswer /\ host # "CONNECTED" /\ host' = host
  BY <1>1, HeadOnly DEF client
<1>3. NoRequest' /\ RequestsOrderly'
  <2>1. \A i \in 1..Len(toMaster') : FALSE
    BY <1>2
  <2> QED
    BY <2>1 DEF NoRequest, RequestsOrderly
<1>4. ~Quiet
  <2>1. ~NoRequest
    BY <1>1, TailShape DEF NoRequest
  <2> QED
    BY <2>1 DEF Session, QuietIsIdle
<1>5. ~Quiet'
  BY <1>4 DEF Quiet, client, LoginTimeout
<1>6. ASSUME NEW m \in {"MSTNAK", "RPTACK"}, toPeer' = Sent(toPeer, m)
      PROVE  \A i \in 1..Len(toPeer') : toPeer'[i] \in Answers =>
               i = Len(toPeer') /\ toPeer'[i] = m
  <2>1. /\ Len(toPeer') \in {Len(toPeer), Len(toPeer) + 1}
        /\ \A i \in 1..Len(toPeer) : toPeer'[i] = toPeer[i]
        /\ Len(toPeer') = Len(toPeer) + 1 => toPeer'[Len(toPeer')] = m
    BY <1>1, <1>6, SentShape DEF Replies
  <2> TAKE i \in 1..Len(toPeer')
  <2>2. CASE i \in 1..Len(toPeer)
    BY <1>2, <2>1, <2>2 DEF NoAnswer
  <2>3. CASE i \notin 1..Len(toPeer)
    <3>1. i = Len(toPeer') /\ toPeer'[i] = m
      BY <1>1, <2>1, <2>3
    <3> QED
      BY <3>1
  <2> QED
    BY <2>2, <2>3
<1>7. AnswersOrderly'
  <2>1. host' = host /\ phase' = phase
    BY DEF client
  <2>2. CASE toPeer' = Sent(toPeer, "MSTNAK")
    BY <1>2, <1>6, <2>2 DEF AnswersOrderly
  <2>3. CASE /\ toPeer' = Sent(toPeer, "RPTACK")
             /\ host = "CONNECTING" => master' = GrantOf(phase)
    BY <1>2, <1>6, <2>1, <2>3 DEF AnswersOrderly
  <2> QED
    BY <2>2, <2>3
<1>8. Punctual'
  <2>1. ~NoRequest
    BY <1>1, TailShape DEF NoRequest
  <2>2. UNCHANGED <<host, pongAge, phase, late>>
    BY DEF client, clock
  <2> QED
    BY <2>1, <2>2 DEF Session, Punctual
<1> QED
  BY <1>2, <1>3, <1>5, <1>7, <1>8 DEF Session, QuietIsIdle, Registered, Budget

\* The network takes a datagram away: what a lost one costs is one period.
\* (Also the master's when it has taken a ping and answered it.)
LEMMA ShorterSession ==
  ASSUME IInv, Session, UNCHANGED <<client, master>>,
         faults'["loss"] \in Nat, faults'["loss"] >= faults["loss"],
         \/ toMaster # <<>> /\ toMaster' = Tail(toMaster) /\ UNCHANGED toPeer
         \/ toPeer # <<>> /\ toPeer' = Tail(toPeer) /\ UNCHANGED toMaster,
         Budget'
  PROVE  Session'
<1>1. /\ toMaster \in Seq(Requests) /\ toPeer \in Seq(Replies)
      /\ UNCHANGED <<running, host, phase, pongAge, holdoff, late, master>>
  BY DEF IInv, TypeOK, client, clock
<1>2. Quiet' <=> Quiet
  BY <1>1 DEF Quiet, LoginTimeout
<1>3. CASE toMaster # <<>> /\ toMaster' = Tail(toMaster) /\ UNCHANGED toPeer
  <2>1. /\ Len(toMaster') = Len(toMaster) - 1 /\ Len(toMaster) \in Nat
        /\ \A i \in 1..Len(toMaster') :
             toMaster'[i] = toMaster[i + 1] /\ i + 1 \in 1..Len(toMaster)
    BY <1>1, <1>3, TailShape
  <2>2. (NoAnswer' <=> NoAnswer) /\ (NoRequest => NoRequest')
    BY <1>3, <2>1 DEF NoAnswer, NoRequest
  <2>3. RequestsOrderly'
    BY <1>1, <2>1, <2>2 DEF Session, RequestsOrderly
  <2>4. AnswersOrderly'
    BY <1>1, <1>3, <2>2 DEF Session, AnswersOrderly
  <2> QED
    BY <1>1, <1>2, <2>2, <2>3, <2>4 DEF Session, QuietIsIdle, Registered, Punctual
<1>4. CASE toPeer # <<>> /\ toPeer' = Tail(toPeer) /\ UNCHANGED toMaster
  <2>1. /\ Len(toPeer') = Len(toPeer) - 1 /\ Len(toPeer) \in Nat
        /\ \A i \in 1..Len(toPeer') :
             toPeer'[i] = toPeer[i + 1] /\ i + 1 \in 1..Len(toPeer)
    BY <1>1, <1>4, TailShape
  <2>2. (NoAnswer => NoAnswer') /\ (NoRequest <=> NoRequest')
    BY <1>4, <2>1 DEF NoAnswer, NoRequest
  <2>3. RequestsOrderly'
    BY <1>1, <1>4, <2>2 DEF Session, RequestsOrderly
  <2>4. AnswersOrderly'
    <3> SUFFICES ASSUME NEW i \in 1..Len(toPeer'), toPeer'[i] \in Answers
                 PROVE  /\ i = Len(toPeer') /\ toMaster' = <<>>
                        /\ toPeer'[i] = "RPTACK" /\ host' = "CONNECTING" =>
                             master' = GrantOf(phase')
      BY Zenon DEF AnswersOrderly
    <3>1. /\ i + 1 = Len(toPeer) /\ toMaster = <<>>
          /\ toPeer[i + 1] = "RPTACK" /\ host = "CONNECTING" =>
               master = GrantOf(phase)
      BY <2>1 DEF Session, AnswersOrderly
    <3>2. i = Len(toPeer') /\ toPeer'[i] = toPeer[i + 1]
      BY <2>1, <3>1
    <3> QED
      BY <1>1, <1>4, <3>1, <3>2, Zenon
  <2> QED
    BY <1>1, <1>2, <2>2, <2>3, <2>4 DEF Session, QuietIsIdle, Registered, Punctual
<1> QED
  BY <1>3, <1>4

\* A reply that is no acknowledgement joins the others.
LEMMA ReplySession ==
  ASSUME IInv, Session, UNCHANGED <<client, master, faults>>,
         NEW m \in Replies, m \notin Answers, toMaster # <<>> \/ toPeer = <<>>,
         \/ toPeer' = Sent(toPeer, m) \/ toPeer' = toPeer,
         \/ /\ toMaster # <<>> /\ toMaster' = Tail(toMaster)
            /\ Head(toMaster) \notin Handshake
         \/ UNCHANGED toMaster,
         Budget'
  PROVE  Session'
<1>1. /\ toMaster \in Seq(Requests) /\ toPeer \in Seq(Replies)
      /\ UNCHANGED <<host, phase, pongAge, holdoff, late>>
  BY DEF IInv, TypeOK, client, clock
<1>2. Quiet' <=> Quiet
  BY <1>1 DEF Quiet, LoginTimeout
<1>3. /\ \A i \in 1..Len(toMaster') : toMaster'[i] # "RPTCL"
      /\ \A i \in 1..Len(toMaster') : toMaster'[i] = "RPTPING" => master = "registered"
      /\ \A i \in 1..Len(toMaster') : toMaster'[i] \in Handshake =>
           /\ i = Len(toMaster') /\ NoAnswer
           /\ host = "CONNECTING" => toMaster'[i] = RequestOf(phase)
  <2>1. CASE UNCHANGED toMaster
    BY <2>1 DEF Session, RequestsOrderly
  <2>2. CASE toMaster # <<>> /\ toMaster' = Tail(toMaster)
    <3>1. /\ Len(toMaster') = Len(toMaster) - 1 /\ Len(toMaster) \in Nat
          /\ \A i \in 1..Len(toMaster') :
               toMaster'[i] = toMaster[i + 1] /\ i + 1 \in 1..Len(toMaster)
      BY <1>1, <2>2, TailShape
    <3>2. ASSUME NEW i \in 1..Len(toMaster')
          PROVE  /\ toMaster'[i] # "RPTCL"
                 /\ toMaster'[i] = "RPTPING" => master = "registered"
                 /\ toMaster'[i] \in Handshake =>
                      /\ i = Len(toMaster') /\ NoAnswer
                      /\ host = "CONNECTING" => toMaster'[i] = RequestOf(phase)
      <4>1. toMaster'[i] = toMaster[i + 1] /\ i + 1 \in 1..Len(toMaster)
        BY <3>1
      <4>2. /\ toMaster[i + 1] # "RPTCL"
            /\ toMaster[i + 1] = "RPTPING" => master = "registered"
            /\ toMaster[i + 1] \in Handshake =>
                 /\ i + 1 = Len(toMaster) /\ NoAnswer
                 /\ host = "CONNECTING" => toMaster[i + 1] = RequestOf(phase)
        BY <4>1 DEF Session, RequestsOrderly
      <4> QED
        BY <3>1, <4>1, <4>2
    <3> QED
      BY <3>2
  <2> QED
    BY <2>1, <2>2
<1>4. NoRequest => NoRequest'
  <2>1. CASE UNCHANGED toMaster
    BY <2>1 DEF NoRequest
  <2>2. CASE toMaster # <<>> /\ toMaster' = Tail(toMaster)
    BY <1>1, <2>2, TailShape DEF NoRequest
  <2> QED
    BY <2>1, <2>2
<1>5. NoAnswer => NoAnswer'
  <2>1. CASE toPeer' = toPeer
    BY <2>1 DEF NoAnswer
  <2>2. CASE toPeer' = Sent(toPeer, m)
    <3>1. /\ Len(toPeer') \in {Len(toPeer), Len(toPeer) + 1}
          /\ \A i \in 1..Len(toPeer) : toPeer'[i] = toPeer[i]
          /\ Len(toPeer') = Len(toPeer) + 1 => toPeer'[Len(toPeer')] = m
      BY <1>1, <2>2, SentShape
    <3>2. \A i \in 1..Len(toPeer') : i \in 1..Len(toPeer) \/ i = Len(toPeer) + 1
      BY <1>1, <3>1
    <3> QED
      BY <1>1, <3>1, <3>2 DEF NoAnswer
  <2> QED
    BY <2>1, <2>2
<1>6. RequestsOrderly'
  BY <1>1, <1>3, <1>5 DEF RequestsOrderly
<1>7. NoAnswer
  BY <1>1 DEF Session, AnswersOrderly, NoAnswer
<1>8. AnswersOrderly'
  BY <1>5, <1>7 DEF AnswersOrderly, NoAnswer
<1>9. QuietIsIdle' /\ Registered' /\ Punctual'
  BY <1>1, <1>2, <1>4, <1>5 DEF Session, QuietIsIdle, Registered, Punctual
<1> QED
  BY <1>6, <1>8, <1>9 DEF Session

\* The master's own steps.
LEMMA MasterSession ==
  ASSUME IInv, Session, MasterRx \/ MasterVoice
  PROVE  Session'
<1> USE PeerDmrAssumption, PeerUdpAssumption
<1>1. /\ toMaster \in Seq(Requests) /\ toPeer \in Seq(Replies) /\ TypeOK
      /\ PhaseAgrees
  BY DEF IInv, TypeOK
<1>2. /\ UNCHANGED <<client, faults>>
      /\ UNCHANGED <<host, phase, pongAge, alarmIn, late>>
  BY DEF MasterRx, MasterVoice, client, clock
<1>b. ASSUME toPeer' # <<>> PROVE Budget'
  <2>1. host = "CONNECTED" => Within(pongAge, alarmIn, late, faults["loss"], FALSE)
    <3> SUFFICES ASSUME host = "CONNECTED"
                 PROVE  Within(pongAge, alarmIn, late, faults["loss"], FALSE)
      OBVIOUS
    <3>1. Within(pongAge, alarmIn, late, faults["loss"], Still)
      BY DEF Session, Budget
    <3> QED
      BY <1>1, <3>1, ClockNumbers, WithinWeaker
  <2>2. Still' = FALSE
    BY <1>b DEF Still
  <2>3. host' = "CONNECTED"
          => Within(pongAge', alarmIn', late', faults'["loss"], Still')
    BY <1>2, <2>1, <2>2, Zenon
  <2> QED
    BY <2>3 DEF Budget
<1>3. CASE MasterVoice
  <2>1. toPeer = <<>> /\ toPeer' = <<"DMRD">> /\ UNCHANGED <<toMaster, master>>
    BY <1>3 DEF MasterVoice
  <2>2. toPeer' = Sent(toPeer, "DMRD")
    BY <2>1 DEF Sent
  <2>3. Budget'
    <3>1. toPeer' # <<>>
      BY <2>1
    <3> QED
      BY <1>b, <3>1
  <2> QED
    BY <1>2, <2>1, <2>2, <2>3, ReplySession DEF Replies, Answers
<1>4. CASE MasterRx
  <2> DEFINE m == Head(toMaster)
  <2>1. toMaster # <<>> /\ toMaster' = Tail(toMaster)
    BY <1>4 DEF MasterRx
  <2>2. m \in Requests /\ m = toMaster[1] /\ 1 \in 1..Len(toMaster)
    BY <1>1, <2>1, TailShape
  <2>3. m # "RPTCL" /\ (m = "RPTPING" => master = "registered")
    BY <2>2 DEF Session, RequestsOrderly
  <2>4. \/ /\ Granted(m) # "none"
           /\ master' = Granted(m)
           /\ toPeer' = Sent(toPeer, IF m = "RPTPING" THEN "MSTPONG"
                                                      ELSE "RPTACK")
        \/ /\ Granted(m) = "none"
           /\ m \notin {"RPTCL", "RPTPING"}
           /\ master' = "none"
           /\ toPeer' = Sent(toPeer, "MSTNAK")
        \/ /\ Granted(m) = "none"
           /\ m = "RPTPING"
           /\ UNCHANGED master
           /\ toPeer' = IF NakUnknown THEN Sent(toPeer, "MSTNAK") ELSE toPeer
    BY <1>4, <2>3 DEF MasterRx
  <2>5. CASE m \in Handshake
    <3>1. m # "RPTPING" /\ m # "RPTCL"
      BY <2>5 DEF Handshake
    <3>2. \/ toPeer' = Sent(toPeer, "MSTNAK")
          \/ /\ toPeer' = Sent(toPeer, "RPTACK")
             /\ Granted(m) # "none" /\ master' = Granted(m)
      BY <2>4, <3>1
    <3>3. host = "CONNECTING" => m = RequestOf(phase) /\ phase \in 0..3
      BY <1>1, <2>1, <2>5, HeadOnly DEF PhaseAgrees
    <3>4. host = "CONNECTING" /\ Granted(m) # "none" => Granted(m) = GrantOf(phase)
      <4> SUFFICES ASSUME host = "CONNECTING", Granted(m) # "none"
                   PROVE  Granted(m) = GrantOf(phase)
        OBVIOUS
      <4>1. m = RequestOf(phase) /\ phase \in 0..3
        BY <3>3
      <4> HIDE DEF m
      <4>2. CASE phase = 0
        BY <4>1, <4>2 DEF Granted, GrantOf, RequestOf
      <4>3. CASE phase = 1
        BY <4>1, <4>3 DEF Granted, GrantOf, RequestOf
      <4>4. CASE phase = 2
        BY <4>1, <4>4 DEF Granted, GrantOf, RequestOf
      <4>5. CASE phase = 3
        BY <4>1, <4>5 DEF Granted, GrantOf, RequestOf
      <4> QED
        BY <4>1, <4>2, <4>3, <4>4, <4>5
    <3>5. \/ toPeer' = Sent(toPeer, "MSTNAK")
          \/ /\ toPeer' = Sent(toPeer, "RPTACK")
             /\ host = "CONNECTING" => master' = GrantOf(phase)
      BY <3>2, <3>4
    <3> QED
      BY <1>2, <2>1, <2>5, <3>5, AnsweredSession
  <2>6. CASE m = "RPTPING"
    <3>1. Granted(m) = "registered" /\ master = "registered"
      BY <2>3, <2>6 DEF Granted
    <3>2. UNCHANGED master /\ toPeer' = Sent(toPeer, "MSTPONG")
      BY <2>4, <2>6, <3>1
    <3>3. m \notin Handshake /\ "MSTPONG" \in Replies /\ "MSTPONG" \notin Answers
      BY <2>6 DEF Handshake, Replies, Answers
    <3>4. toPeer' # <<>>
      BY <1>1, <3>2, <3>3, SentShape
    <3>6. Budget'
      BY <1>b, <3>4
    <3> QED
      BY <1>2, <2>1, <3>2, <3>3, <3>6, ReplySession
  <2> QED
    BY <2>2, <2>3, <2>5, <2>6 DEF Requests, Handshake
<1> QED
  BY <1>3, <1>4

\* The faults that leave the session sound: a login turned down, a datagram
\* lost.
LEMMA FaultSession ==
  ASSUME IInv, Session, MasterReject \/ Lose
  PROVE  Session'
<1>1. faults \in [FaultKinds -> Nat] /\ faults["loss"] \in Nat /\ TypeOK
  BY DEF IInv, TypeOK, FaultKinds
<1>2. UNCHANGED client /\ UNCHANGED <<host, pongAge, alarmIn, late>>
  BY DEF MasterReject, Lose, Fault, client, clock
<1>3. CASE MasterReject
  <2>1. /\ toMaster # <<>> /\ Head(toMaster) \in Handshake
        /\ toMaster' = Tail(toMaster) /\ toPeer' = Sent(toPeer, "MSTNAK")
    BY <1>3 DEF MasterReject, Handshake
  <2> QED
    BY <1>2, <2>1, AnsweredSession
<1>4. CASE Lose
  <2>1. faults'["loss"] = faults["loss"] + 1
    BY <1>1, <1>4 DEF Lose, Fault, Faulty, FaultKinds
  <2>2. Budget'
    <3> SUFFICES ASSUME host = "CONNECTED"
                 PROVE  Within(pongAge', alarmIn', late', faults'["loss"], Still')
      BY <1>2 DEF Budget
    <3>1. Within(pongAge, alarmIn, late, faults["loss"], Still)
      BY DEF Session, Budget
    <3>2. Still' \in BOOLEAN
      BY DEF Still
    <3>3. Within(pongAge, alarmIn, late, faults["loss"] + 1, Still')
      BY <1>1, <3>1, <3>2, ClockNumbers, WithinLost
    <3> QED
      BY <1>2, <2>1, <3>3, Zenon
  <2>3. UNCHANGED master
    BY <1>4 DEF Lose
  <2> QED
    BY <1>1, <1>2, <1>4, <2>1, <2>2, <2>3, ShorterSession DEF Lose
<1> QED
  BY <1>3, <1>4

\* A second passes, also while something is in flight: it then counts as late.
LEMMA SecondSession ==
  ASSUME IInv, Session, Prompt, Second
  PROVE  Session'
<1>1. TypeOK /\ PhaseAgrees /\ phase \in 0..4
  BY DEF IInv, TypeOK
<1>2. /\ UNCHANGED <<host, phase, toMaster, toPeer, master, faults>>
      /\ LateBy(Awaited) /\ AlarmClock /\ pongAge' = Older(pongAge)
  BY DEF Second, network
<1>3. /\ pongAge' \in Nat /\ pongAge' <= pongAge + 1
      /\ LoginTimeout' = LoginTimeout
  BY <1>1, <1>2, ClockNumbers DEF Older, LoginTimeout
<1>4. /\ NoRequest' <=> NoRequest
      /\ NoAnswer' <=> NoAnswer
      /\ RequestsOrderly' /\ AnswersOrderly'
  BY <1>2 DEF NoRequest, NoAnswer, Session, RequestsOrderly, AnswersOrderly
<1>5. /\ late' \in Nat /\ late' \in 0..MaxLate
      /\ Awaited => late' = late + 1
      /\ ~Awaited => late' = 0
  BY <1>1, <1>2, ClockNumbers DEF LateBy
<1>6. ASSUME host = "CONNECTING", ~(NoRequest /\ NoAnswer)
      PROVE  /\ pongAge' <= phase * MaxLate + late'
             /\ pongAge' <= LoginTimeout
  <2>1. Awaited
    <3>1. toMaster # <<>> \/ toPeer # <<>>
      BY <1>6 DEF NoRequest, NoAnswer
    <3> QED
      BY <3>1 DEF Awaited
  <2>2. pongAge <= phase * MaxLate + late /\ late' = late + 1
    BY <1>5, <1>6, <2>1 DEF Session, Punctual
  <2>3. phase \in 0..3
    BY <1>1, <1>6 DEF PhaseAgrees
  <2> DEFINE x == phase * MaxLate
  <2>4. x \in Nat /\ x <= 3 * MaxLate
    BY <1>1, <2>3, ClockNumbers
  <2>5. pongAge <= x + late
    BY <2>2
  <2> HIDE DEF x
  <2>6. pongAge' <= x + late'
    BY <1>1, <1>3, <2>2, <2>4, <2>5, ClockNumbers
  <2>7. pongAge' <= LoginTimeout
    <3>1. /\ late' \in Nat /\ late' <= MaxLate /\ MaxLate \in Nat
          /\ LoginTimeout \in Nat /\ pongAge' \in Nat
      BY <1>1, <1>3, <1>5, ClockNumbers
    <3>2. PICK a \in Nat, l \in Nat : a = pongAge' /\ l = late'
      BY <3>1
    <3>3. a <= x + l /\ l <= MaxLate
      BY <2>6, <3>1, <3>2, Zenon
    <3>4. 4 * MaxLate <= LoginTimeout
      BY DEF Prompt
    <3>5. a <= LoginTimeout
      BY <2>4, <3>1, <3>3, <3>4
    <3> QED
      BY <3>2, <3>5, Zenon
  <2> QED
    BY <2>6, <2>7 DEF x
<1>7. Punctual' /\ QuietIsIdle' /\ Registered'
  <2>1. Punctual'
    BY <1>2, <1>4, <1>6 DEF Punctual
  <2>2. QuietIsIdle'
    <3>1. CASE host = "CONNECTING"
      <4>1. ~(NoRequest /\ NoAnswer) => ~Quiet'
        BY <1>1, <1>2, <1>3, <1>6, <3>1, ClockNumbers DEF Quiet
      <4> QED
        BY <1>4, <4>1 DEF QuietIsIdle
    <3>2. CASE host # "CONNECTING"
      BY <1>2, <1>4, <3>2 DEF Session, QuietIsIdle, Quiet
    <3> QED
      BY <3>1, <3>2
  <2> QED
    BY <1>2, <2>1, <2>2 DEF Session, Registered
<1>8. Budget'
  <2> SUFFICES ASSUME host = "CONNECTED"
               PROVE  Within(pongAge', alarmIn', late', faults'["loss"], Still')
    BY <1>2 DEF Budget
  <2>1. Within(pongAge, alarmIn, late, faults["loss"], Still)
    BY DEF Session, Budget
  <2>2. Still' \in BOOLEAN
    BY DEF Still
  <2>3. alarmIn' = IF alarmIn = 1 THEN ALARM ELSE alarmIn - 1
    BY <1>2 DEF AlarmClock
  <2>4. ~Awaited => Still
    BY DEF Awaited, Still
  <2>5. late' = late + 1 \/ (Still /\ late' = 0)
    BY <1>5, <2>4
  <2>6. Still' => Still /\ alarmIn # 1
    BY <1>2 DEF Still, AlarmClock
  <2>n. /\ pongAge \in Nat /\ alarmIn \in 1..ALARM /\ late \in Nat
        /\ faults["loss"] \in Nat /\ Still \in BOOLEAN
    BY <1>1, ClockNumbers
  <2>m. pongAge' \in Nat /\ pongAge' <= pongAge + 1 /\ late' \in Nat
    BY <1>3, <1>5
  <2>s. SecondPassed(pongAge, alarmIn, late, Still,
                     pongAge', alarmIn', late', Still')
    BY <2>3, <2>5, <2>6, <2>m DEF SecondPassed
  <2>7. Within(pongAge', alarmIn', late', faults["loss"], Still')
    BY <2>1, <2>2, <2>n, <2>m, <2>s, WithinSecond
  <2>8. faults' = faults
    BY <1>2
  <2> QED
    BY <2>7, <2>8, Zenon
<1> QED
  BY <1>4, <1>7, <1>8 DEF Session

\* Every step keeps the session's invariant.
LEMMA StepSession == IInv /\ SessionInv /\ [Next]_vars => SessionInv'
<1> SUFFICES ASSUME IInv, SessionInv, [Next]_vars, Sound'
             PROVE  Session'
  BY DEF SessionInv
<1>1. Session
  BY SoundBefore DEF SessionInv, IInv
<1>2. CASE Tick \/ Rx \/ Alarm
  BY <1>1, <1>2, TickSession, RxSession, AlarmSession
<1>3. CASE MasterRx \/ MasterVoice \/ MasterReject \/ Lose \/ Second
  BY <1>1, <1>3, MasterSession, FaultSession, SecondSession, SoundBefore
  DEF Sound, IInv
<1>4. ~Sigint
  BY DEF Sigint, Sound
<1>5. ~MasterRestart /\ ~Duplicate
  <2>1. faults \in [FaultKinds -> Nat]
    BY DEF IInv, TypeOK
  <2> QED
    BY <2>1 DEF MasterRestart, Duplicate, Fault, Faulty, Sound, FaultKinds
<1>6. CASE UNCHANGED vars
  BY <1>1, <1>6
  DEF vars, client, network, clock, Session, RequestsOrderly, AnswersOrderly,
      QuietIsIdle, Quiet, NoRequest, NoAnswer, Registered, Punctual, Budget, Still,
      LoginTimeout
<1> QED
  BY <1>2, <1>3, <1>4, <1>5, <1>6 DEF Next, Client, Environment

\* A login that completes finds the master's registration: the state before it
\* has the last acknowledgement in flight.
LEMMA CompletesRegistered ==
  ASSUME IInv, SessionInv, [Next]_vars, host # "CONNECTED", host' = "CONNECTED",
         faults["dup"] = 0, faults["restart"] = 0, Prompt
  PROVE  master = "registered"
<1>1. Rx
  BY DEF Next, Client, Environment, Tick, TickLogin, TickKeepaliveLost,
         TickLoginLost, Alarm, Sigint, MasterRx, MasterVoice, MasterReject,
         MasterRestart, Lose, Duplicate, Fault, Second, vars, client
<1>2. /\ host = "CONNECTING" /\ Head(toPeer) = "RPTACK" /\ AckStep
      /\ toPeer # <<>> /\ running
  BY <1>1 DEF Rx
<1>3. phase \in 2..3
  BY <1>2 DEF AckStep, Request
<1>4. toPeer[1] = "RPTACK" /\ 1 \in 1..Len(toPeer)
  <2>1. toPeer \in Seq(Replies)
    BY DEF IInv, TypeOK
  <2> QED
    BY <1>2, <2>1, TailShape
<1>5. Session
  BY <1>2 DEF SessionInv, Sound
<1>6. master = GrantOf(phase)
  BY <1>2, <1>4, <1>5 DEF Session, AnswersOrderly, Answers
<1> QED
  BY <1>3, <1>6 DEF GrantOf

\* peer_dmr_tick gives no session up while what was lost makes no silence of
\* TIMEOUT.
LEMMA KeptWhileAnswered ==
  ASSUME IInv, SessionInv, faults["dup"] = 0, faults["restart"] = 0, Prompt,
         Silence(faults["loss"]) <= TIMEOUT
  PROVE  ~TickKeepaliveLost
<1> SUFFICES ASSUME TickKeepaliveLost PROVE FALSE
  OBVIOUS
<1>1. running /\ host = "CONNECTED" /\ pongAge > TIMEOUT
  BY DEF TickKeepaliveLost
<1>2. Within(pongAge, alarmIn, late, faults["loss"], Still)
  BY <1>1 DEF SessionInv, Sound, Session, Budget
<1>3. pongAge <= Silence(faults["loss"])
  BY <1>2, ClockNumbers, WithinSilence DEF IInv
<1>4. Silence(faults["loss"]) \in Nat /\ pongAge \in Nat /\ TIMEOUT \in Nat
  BY ClockNumbers, ReachNumbers, PeerDmrAssumption DEF IInv
<1> QED
  BY <1>1, <1>3, <1>4

\* The client is never CONNECTED to a master that does not know it, unless a
\* datagram was duplicated, the master restarted or answers come later than a
\* login lasts: for every period, delay, network and number of losses and
\* refusals (handle_rx against an RPTACK that names no request).
THEOREM LoginAlwaysRegisters == Spec => ConnectedIsRegistered
<1>1. /\ IInv /\ SessionInv /\ [Next]_vars
      => (/\ host # "CONNECTED" /\ host' = "CONNECTED"
          /\ faults["dup"] = 0 /\ faults["restart"] = 0
          /\ Prompt
          => master = "registered")
  BY CompletesRegistered
<1> QED
  BY <1>1, InitIInv, StepIInv, InitSession, StepSession, PTL
  DEF Spec, ConnectedIsRegistered

\* No session is given up before enough datagrams of it were lost to make a
\* silence of TIMEOUT, counting boundaries of seconds and with a loop and a
\* network that may be MaxLate of them behind each time: the keepalive of
\* peer_dmr_on_alarm against the timeout of peer_dmr_tick, for every pair of
\* periods, every delay and whatever the network holds.
THEOREM SessionsNeverTimeOutSpuriously == Spec => NoSpuriousTimeout
<1>1. /\ IInv /\ SessionInv
      => (/\ faults["dup"] = 0 /\ faults["restart"] = 0 /\ Prompt
          /\ Silence(faults["loss"]) <= TIMEOUT
          => ~TickKeepaliveLost)
  BY KeptWhileAnswered
<1> QED
  BY <1>1, InitIInv, StepIInv, InitSession, StepSession, PTL
  DEF Spec, NoSpuriousTimeout

-----------------------------------------------------------------------------
(***************************************************************************)
(* The YSF client.  What keeps its link is the answer to a YSFP, so the    *)
(* silence is bounded by the losses as that of a DMR session is.  A full   *)
(* channel drops the YSFP of an alarm; it then holds another one, because  *)
(* a YSFD is only sent behind a YSFP.                                      *)
(***************************************************************************)

Out == {"YSFP", "YSFD", "YSFU"}
In  == {"YSFP", "YSFD"}

Polls(net) == \E i \in 1..Len(net) : net[i] = "YSFP"

\* While the program runs nobody has said goodbye, and the YSFD of a
\* reconnection was sent behind its YSFP.
Paired ==
  \A i \in 1..Len(toReflector) :
    /\ toReflector[i] # "YSFU"
    /\ toReflector[i] = "YSFD" =>
         MaxNet >= 2 /\ (i = 1 \/ toReflector[i - 1] = "YSFP")

\* The silence on a link against the datagrams lost.
LinkStill == ~alarmPending /\ ~Polls(toReflector) /\ toClient = <<>>

LinkBudget ==
  linked /\ ~pending
    => Within(rxAge, alarmIn, late, faults["loss"], LinkStill)

LinkInv == YsfTypeOK /\ (ysfRunning => Paired /\ LinkBudget)

\* The datagrams of either direction.
LEMMA YsfDatagrams ==
  /\ "YSFP" \in Out /\ "YSFD" \in Out /\ "YSFU" \in Out
  /\ "YSFP" \in In /\ "YSFD" \in In
BY DEF Out, In

\* The numbers of a step.
LEMMA YsfNumbers ==
  ASSUME YsfTypeOK
  PROVE  /\ alarmIn \in 1..ALARM /\ alarmIn \in Nat /\ alarmPending \in BOOLEAN
         /\ late \in 0..MaxLate /\ late \in Nat /\ MaxLate \in Nat /\ ALARM \in Nat
         /\ rxAge \in Nat /\ LOST_TIMEOUT \in Nat
         /\ faults["loss"] \in Nat
         /\ LinkStill \in BOOLEAN
<1>1. /\ alarmIn \in 1..ALARM /\ late \in 0..MaxLate /\ alarmPending \in BOOLEAN
      /\ faults \in [FaultKinds -> Nat] /\ rxAge \in 0..(LOST_TIMEOUT + 1)
  BY DEF YsfTypeOK, ClockTypeOK
<1>2. ALARM \in Nat /\ MaxLate \in Nat /\ LOST_TIMEOUT \in Nat
  BY PeerUdpAssumption, PeerYsfAssumption
<1>3. LinkStill \in BOOLEAN
  BY DEF LinkStill
<1> QED
  BY <1>1, <1>2, <1>3 DEF FaultKinds

\* peer_ysf_open: nothing is in flight and the link is down.
LEMMA InitLink == YsfInit => LinkInv
<1> SUFFICES ASSUME YsfInit PROVE LinkInv
  OBVIOUS
<1>1. YsfTypeOK
  <2>1. /\ ysfRunning = TRUE /\ linked = FALSE /\ pending = TRUE /\ known = FALSE
        /\ toReflector = <<>> /\ toClient = <<>>
    BY DEF YsfInit
  <2>2. rxAge \in 0..(LOST_TIMEOUT + 1)
    BY PeerYsfAssumption DEF YsfInit
  <2>3. ClockTypeOK
    <3>1. alarmIn = ALARM /\ alarmPending = FALSE /\ late = 0
      BY DEF YsfInit, ClockInit
    <3>2. alarmIn \in 1..ALARM /\ late \in 0..MaxLate
      BY <3>1, PeerUdpAssumption
    <3>3. alarmPending \in BOOLEAN
      BY <3>1
    <3> QED
      BY <3>2, <3>3 DEF ClockTypeOK
  <2>4. faults \in [FaultKinds -> Nat]
    BY DEF YsfInit
  <2>5. toReflector \in Seq(Out) /\ toClient \in Seq(In)
    BY <2>1
  <2>6. /\ ysfRunning \in BOOLEAN /\ linked \in BOOLEAN /\ pending \in BOOLEAN
        /\ known \in BOOLEAN
    BY <2>1
  <2> QED
    BY <2>1, <2>2, <2>3, <2>4, <2>5, <2>6 DEF YsfTypeOK, Out, In
<1>2. toReflector = <<>> /\ ~linked
  BY DEF YsfInit
<1> QED
  BY <1>1, <1>2 DEF LinkInv, Paired, LinkBudget

\* What is sent behind a paired channel leaves it paired.
LEMMA PollPaired ==
  ASSUME NEW net \in Seq(Out), NEW net2, net2 = Sent(net, "YSFP"),
         NEW i \in 1..Len(net2)
  PROVE  /\ net2 \in Seq(Out)
         /\ \/ i \in 1..Len(net) /\ net2[i] = net[i]
               /\ (i # 1 => net2[i - 1] = net[i - 1])
            \/ net2[i] = "YSFP"
<1>1. CASE Len(net) < MaxNet
  <2>1. net2 = Append(net, "YSFP")
    BY <1>1 DEF Sent
  <2> QED
    BY <2>1, YsfDatagrams
<1>2. CASE ~(Len(net) < MaxNet)
  BY <1>2 DEF Sent
<1> QED
  BY <1>1, <1>2

\* The alarm's clock keeps its types; where no alarm falls none was due.
LEMMA ClockStep ==
  ASSUME alarmIn \in 1..ALARM, alarmPending \in BOOLEAN, AlarmClock
  PROVE  /\ alarmIn' = IF alarmIn = 1 THEN ALARM ELSE alarmIn - 1
         /\ alarmIn' \in 1..ALARM /\ alarmPending' \in BOOLEAN
         /\ ~alarmPending' => ~alarmPending /\ alarmIn # 1
<1>1. /\ alarmIn' = IF alarmIn = 1 THEN ALARM ELSE alarmIn - 1
      /\ alarmPending' = (alarmPending \/ alarmIn = 1)
  BY DEF AlarmClock
<1>2. alarmIn' \in 1..ALARM
  BY <1>1, PeerUdpAssumption
<1>3. alarmPending' \in BOOLEAN
  BY <1>1
<1>4. ~alarmPending' => ~alarmPending /\ alarmIn # 1
  BY <1>1
<1> QED
  BY <1>1, <1>2, <1>3, <1>4

\* A reconnection sends a YSFP and a YSFD and starts the clock.
LEMMA ReconnectLink ==
  ASSUME LinkInv, TickReconnect
  PROVE  LinkInv'
<1> DEFINE one == Sent(toReflector, "YSFP")
<1>1. /\ ysfRunning /\ linked' = FALSE /\ pending' = FALSE /\ rxAge' = 0
      /\ ysfRunning' = ysfRunning /\ toClient' = toClient /\ known' = known
      /\ faults' = faults /\ late' = 0
      /\ toReflector' = Sent(one, "YSFD")
      /\ toReflector \in Seq(Out)
      /\ YsfTypeOK /\ Paired
  BY DEF TickReconnect, LinkInv, YsfTypeOK, Out
<1>2. one \in Seq(Out) /\ toReflector' \in Seq(Out)
  BY <1>1, SentType, YsfDatagrams
<1>3. Paired'
  <2> SUFFICES ASSUME NEW i \in 1..Len(toReflector')
               PROVE  /\ toReflector'[i] # "YSFU"
                      /\ toReflector'[i] = "YSFD" =>
                           MaxNet >= 2 /\ (i = 1 \/ toReflector'[i - 1] = "YSFP")
    BY DEF Paired
  <2>1. CASE Len(toReflector) < MaxNet
    <3>1. one = Append(toReflector, "YSFP")
      BY <2>1 DEF Sent
    <3>2. CASE Len(one) < MaxNet
      <4>1. toReflector' = Append(Append(toReflector, "YSFP"), "YSFD")
        BY <1>1, <3>1, <3>2 DEF Sent
      <4>2. MaxNet >= 2
        BY <1>1, <3>1, <3>2, PeerUdpAssumption
      <4>3. CASE i \in 1..Len(toReflector)
        <5>1. \A k \in 1..Len(toReflector) : toReflector'[k] = toReflector[k]
          BY <1>1, <4>1
        <5>2. i # 1 => i - 1 \in 1..Len(toReflector)
          BY <1>1, <4>3
        <5> QED
          BY <1>1, <4>3, <5>1, <5>2 DEF Paired
      <4>4. CASE i = Len(toReflector) + 1
        BY <1>1, <4>1, <4>4
      <4>5. CASE i = Len(toReflector) + 2
        BY <1>1, <4>1, <4>2, <4>5
      <4> QED
        BY <1>1, <4>1, <4>3, <4>4, <4>5
    <3>3. CASE ~(Len(one) < MaxNet)
      <4>1. toReflector' = Append(toReflector, "YSFP")
        BY <1>1, <3>1, <3>3 DEF Sent
      <4>2. toReflector' = Sent(toReflector, "YSFP")
        BY <2>1, <4>1 DEF Sent
      <4> QED
        BY <1>1, <4>2, PollPaired DEF Paired
    <3> QED
      BY <3>2, <3>3
  <2>2. CASE ~(Len(toReflector) < MaxNet)
    <3>1. toReflector' = toReflector
      BY <1>1, <2>2 DEF Sent
    <3> QED
      BY <1>1, <3>1 DEF Paired
  <2> QED
    BY <2>1, <2>2
<1>4. YsfTypeOK'
  <2>1. rxAge' \in 0..(LOST_TIMEOUT + 1)
    BY <1>1, YsfNumbers
  <2>2. ClockTypeOK'
    <3>1. alarmIn' \in 1..ALARM /\ alarmPending' \in BOOLEAN
      BY <1>1, YsfNumbers, ClockStep DEF TickReconnect
    <3> QED
      BY <1>1, <3>1, YsfNumbers DEF ClockTypeOK
  <2> QED
    BY <1>1, <1>2, <2>1, <2>2 DEF YsfTypeOK, Out
<1> QED
  BY <1>1, <1>3, <1>4 DEF LinkInv, LinkBudget

\* The poll of an alarm.
LEMMA AlarmLink ==
  ASSUME LinkInv, YsfAlarm
  PROVE  LinkInv'
<1>1. /\ ysfRunning /\ alarmPending /\ alarmPending' = FALSE
      /\ UNCHANGED <<ysfRunning, linked, pending, rxAge, alarmIn, late, toClient,
                     known, faults>>
      /\ toReflector' = IF linked THEN Sent(toReflector, "YSFP") ELSE toReflector
      /\ toReflector \in Seq(Out)
      /\ YsfTypeOK /\ Paired /\ LinkBudget
  BY DEF YsfAlarm, LinkInv, YsfTypeOK, Out
<1>2. toReflector' \in Seq(Out)
  BY <1>1, SentType, YsfDatagrams
<1>3. YsfTypeOK'
  BY <1>1, <1>2 DEF YsfTypeOK, ClockTypeOK, Out
<1>4. Paired'
  <2>1. CASE linked
    <3>1. toReflector' = Sent(toReflector, "YSFP")
      BY <1>1, <2>1
    <3> SUFFICES ASSUME NEW i \in 1..Len(toReflector')
                 PROVE  /\ toReflector'[i] # "YSFU"
                        /\ toReflector'[i] = "YSFD" =>
                             MaxNet >= 2 /\ (i = 1 \/ toReflector'[i - 1] = "YSFP")
      BY DEF Paired
    <3>2. \/ i \in 1..Len(toReflector) /\ toReflector'[i] = toReflector[i]
             /\ (i # 1 => toReflector'[i - 1] = toReflector[i - 1])
          \/ toReflector'[i] = "YSFP"
      BY <1>1, <3>1, PollPaired
    <3> QED
      BY <1>1, <3>2 DEF Paired
  <2>2. CASE ~linked
    BY <1>1, <2>2 DEF Paired
  <2> QED
    BY <2>1, <2>2
<1>5. linked => ~LinkStill'
  <2> SUFFICES ASSUME linked PROVE Polls(toReflector')
    BY DEF LinkStill
  <2>1. toReflector' = Sent(toReflector, "YSFP")
    BY <1>1
  <2>2. CASE Len(toReflector) < MaxNet
    <3>1. toReflector' = Append(toReflector, "YSFP")
      BY <2>1, <2>2 DEF Sent
    <3>2. /\ Len(toReflector) + 1 \in 1..Len(toReflector')
          /\ toReflector'[Len(toReflector) + 1] = "YSFP"
      BY <1>1, <3>1
    <3> QED
      BY <3>2 DEF Polls
  <2>3. CASE ~(Len(toReflector) < MaxNet)
    <3>1. toReflector' = toReflector
      BY <2>1, <2>3 DEF Sent
    <3>2. Len(toReflector) \in Nat /\ Len(toReflector) >= MaxNet
          /\ MaxNet \in Nat /\ MaxNet >= 1
      BY <1>1, <2>3, PeerUdpAssumption
    <3>3. 1 \in 1..Len(toReflector) /\ toReflector[1] \in Out /\ toReflector[1] # "YSFU"
      BY <1>1, <3>2 DEF Paired
    <3>4. CASE toReflector[1] = "YSFP"
      BY <3>1, <3>3, <3>4 DEF Polls
    <3>5. CASE toReflector[1] = "YSFD"
      <4>1. MaxNet >= 2
        BY <1>1, <3>3, <3>5 DEF Paired
      <4>2. 2 \in 1..Len(toReflector) /\ toReflector[2] \in Out
            /\ toReflector[2] # "YSFU"
        BY <1>1, <3>2, <4>1 DEF Paired
      <4>3. toReflector[2] # "YSFD"
        <5> SUFFICES ASSUME toReflector[2] = "YSFD" PROVE FALSE
          OBVIOUS
        <5>1. toReflector[2 - 1] = "YSFP"
          BY <1>1, <4>2 DEF Paired
        <5>2. 2 - 1 = 1
          OBVIOUS
        <5> QED
          BY <3>5, <5>1, <5>2
      <4> QED
        BY <3>1, <4>2, <4>3 DEF Polls, Out
    <3> QED
      BY <3>3, <3>4, <3>5 DEF Out
  <2> QED
    BY <2>2, <2>3
<1>6. LinkBudget'
  <2> SUFFICES ASSUME linked, ~pending
               PROVE  Within(rxAge', alarmIn', late', faults'["loss"], LinkStill')
    BY <1>1 DEF LinkBudget
  <2>1. Within(rxAge, alarmIn, late, faults["loss"], LinkStill)
    BY <1>1 DEF LinkBudget
  <2>2. LinkStill \in BOOLEAN /\ LinkStill' \in BOOLEAN
    BY DEF LinkStill
  <2>3. Within(rxAge, alarmIn, late, faults["loss"], LinkStill')
    BY <1>5, <2>1, <2>2, WithinWeaker
  <2> QED
    BY <1>1, <2>3, Zenon
<1> QED
  BY <1>1, <1>3, <1>4, <1>6 DEF LinkInv

\* The client's other steps.
LEMMA ClientLink ==
  ASSUME LinkInv, TickLost \/ YsfRx \/ YsfSigint
  PROVE  LinkInv'
<1>0. YsfTypeOK /\ (ysfRunning => Paired /\ LinkBudget)
  BY DEF LinkInv
<1>1. CASE TickLost
  <2>1. /\ linked' = FALSE /\ pending' = TRUE
        /\ UNCHANGED <<ysfRunning, rxAge, alarmIn, alarmPending, late, toReflector,
                       toClient, known, faults>>
    BY <1>1 DEF TickLost, ysfNetwork, clock
  <2>2. YsfTypeOK'
    BY <1>0, <2>1 DEF YsfTypeOK, ClockTypeOK
  <2> QED
    BY <1>0, <2>1, <2>2 DEF LinkInv, Paired, LinkBudget
<1>2. CASE YsfRx
  <2>1. /\ rxAge' = 0 /\ late' = 0 /\ linked' = TRUE /\ ysfRunning
        /\ UNCHANGED <<ysfRunning, pending, alarmIn, alarmPending, toReflector,
                       known, faults>>
        /\ toClient' = Tail(toClient) /\ toClient # <<>>
    BY <1>2 DEF YsfRx
  <2>2. toClient \in Seq(In)
    BY <1>0 DEF YsfTypeOK, In
  <2>3. toClient' \in Seq(In)
    BY <2>1, <2>2
  <2>4. YsfTypeOK'
    <3>1. rxAge' \in 0..(LOST_TIMEOUT + 1) /\ late' \in 0..MaxLate
      BY <1>0, <2>1, YsfNumbers
    <3> QED
      BY <1>0, <2>1, <2>3, <3>1 DEF YsfTypeOK, ClockTypeOK, In
  <2>5. Within(rxAge', alarmIn', late', faults'["loss"], LinkStill')
    <3>1. LinkStill' \in BOOLEAN
      BY DEF LinkStill
    <3>2. Within(0, alarmIn, 0, faults["loss"], LinkStill')
      BY <1>0, <3>1, YsfNumbers, WithinFresh
    <3> QED
      BY <2>1, <3>2, Zenon
  <2>6. LinkBudget'
    BY <2>5 DEF LinkBudget
  <2> QED
    BY <1>0, <2>1, <2>4, <2>6 DEF LinkInv, Paired
<1>3. CASE YsfSigint
  <2>1. /\ ysfRunning' = FALSE
        /\ UNCHANGED <<linked, pending, rxAge, alarmIn, alarmPending, late, toClient,
                       known, faults>>
        /\ toReflector' = Sent(toReflector, "YSFU")
    BY <1>3 DEF YsfSigint, clock
  <2>2. toReflector' \in Seq(Out)
    BY <1>0, <2>1, SentType, YsfDatagrams DEF YsfTypeOK, Out
  <2>3. YsfTypeOK'
    BY <1>0, <2>1, <2>2 DEF YsfTypeOK, ClockTypeOK, Out
  <2> QED
    BY <2>1, <2>3 DEF LinkInv
<1> QED
  BY <1>1, <1>2, <1>3

\* Taking the first datagram leaves a channel paired.
LEMMA TailPaired ==
  ASSUME Paired, toReflector \in Seq(Out), toReflector # <<>>,
         toReflector' = Tail(toReflector)
  PROVE  Paired' /\ toReflector' \in Seq(Out)
<1>1. /\ toReflector' \in Seq(Out)
      /\ \A i \in 1..Len(toReflector') :
           /\ toReflector'[i] = toReflector[i + 1]
           /\ i + 1 \in 1..Len(toReflector)
  BY TailShape
<1> SUFFICES ASSUME NEW i \in 1..Len(toReflector')
             PROVE  /\ toReflector'[i] # "YSFU"
                    /\ toReflector'[i] = "YSFD" =>
                         MaxNet >= 2 /\ (i = 1 \/ toReflector'[i - 1] = "YSFP")
  BY <1>1 DEF Paired
<1>2. /\ toReflector'[i] = toReflector[i + 1] /\ i + 1 \in 1..Len(toReflector)
      /\ i \in Nat /\ i >= 1 /\ (i + 1) - 1 = i /\ (i - 1) + 1 = i
  BY <1>1
<1>3. /\ toReflector[i + 1] # "YSFU"
      /\ toReflector[i + 1] = "YSFD" =>
           MaxNet >= 2 /\ (i + 1 = 1 \/ toReflector[(i + 1) - 1] = "YSFP")
  BY <1>2 DEF Paired
<1>4. i # 1 => toReflector'[i - 1] = toReflector[i]
  <2> SUFFICES ASSUME i # 1 PROVE toReflector'[i - 1] = toReflector[i]
    OBVIOUS
  <2>1. i - 1 \in 1..Len(toReflector')
    BY <1>1, <1>2
  <2> QED
    BY <1>1, <1>2, <2>1
<1> QED
  BY <1>2, <1>3, <1>4

\* A step that starts nothing anew and ends nothing under way.
LEMMA OthersLink ==
  ASSUME YsfTypeOK, ysfRunning => LinkBudget,
         UNCHANGED <<ysfRunning, linked, pending, rxAge, alarmIn, late>>,
         faults'["loss"] = faults["loss"], LinkStill' => LinkStill
  PROVE  ysfRunning' => LinkBudget'
<1> SUFFICES ASSUME ysfRunning, linked, ~pending
             PROVE  Within(rxAge', alarmIn', late', faults'["loss"], LinkStill')
  BY DEF LinkBudget
<1>1. Within(rxAge, alarmIn, late, faults["loss"], LinkStill)
  BY DEF LinkBudget
<1>2. LinkStill \in BOOLEAN /\ LinkStill' \in BOOLEAN
  BY DEF LinkStill
<1>3. Within(rxAge, alarmIn, late, faults["loss"], LinkStill')
  BY <1>1, <1>2, WithinWeaker
<1> QED
  BY <1>3, Zenon

\* The reflector takes a datagram, and answers a YSFP.
LEMMA ReflectorLink ==
  ASSUME LinkInv, ReflectorRx
  PROVE  LinkInv'
<1>0. YsfTypeOK /\ (ysfRunning => Paired) /\ (ysfRunning => LinkBudget)
  BY DEF LinkInv
<1>1. /\ UNCHANGED <<ysfRunning, linked, pending, rxAge, alarmIn, alarmPending, late>>
      /\ faults' = faults
      /\ toReflector # <<>> /\ toReflector' = Tail(toReflector)
      /\ toReflector \in Seq(Out) /\ toClient \in Seq(In)
  BY <1>0 DEF ReflectorRx, ysfClient, clock, YsfTypeOK, Out, In
<1>2. /\ toReflector' \in Seq(Out)
      /\ Head(toReflector) = toReflector[1] /\ 1 \in 1..Len(toReflector)
      /\ Len(toReflector') = Len(toReflector) - 1
      /\ \A i \in 1..Len(toReflector') :
           /\ toReflector'[i] = toReflector[i + 1]
           /\ i + 1 \in 1..Len(toReflector)
  BY <1>1, TailShape
<1>3. ysfRunning' => Paired'
  BY <1>0, <1>1, TailPaired
<1>4. /\ toClient' \in Seq(In) /\ known' \in BOOLEAN
      /\ toClient' # <<>> \/ (toClient' = toClient /\ Head(toReflector) # "YSFP")
  <2>1. CASE Head(toReflector) = "YSFP"
    <3>1. toClient' = Sent(toClient, "YSFP") /\ known' = TRUE
      BY <2>1 DEF ReflectorRx
    <3> QED
      BY <1>1, <3>1, SentType, SentShape, YsfDatagrams
  <2>2. CASE Head(toReflector) # "YSFP"
    <3>1. toClient' = toClient /\ known' \in BOOLEAN
      BY <1>0, <2>2 DEF ReflectorRx, YsfTypeOK
    <3> QED
      BY <1>1, <2>2, <3>1
  <2> QED
    BY <2>1, <2>2
<1>5. LinkStill' => LinkStill
  <2> SUFFICES ASSUME ~alarmPending', ~Polls(toReflector'), toClient' = <<>>
               PROVE  ~alarmPending /\ ~Polls(toReflector) /\ toClient = <<>>
    BY DEF LinkStill
  <2>1. toClient = <<>> /\ Head(toReflector) # "YSFP"
    BY <1>4
  <2>2. ASSUME NEW i \in 1..Len(toReflector), toReflector[i] = "YSFP"
        PROVE  FALSE
    <3>1. i # 1
      BY <1>2, <2>1, <2>2
    <3>2. i - 1 \in 1..Len(toReflector') /\ (i - 1) + 1 = i
      BY <1>1, <1>2, <3>1
    <3> QED
      BY <1>2, <2>2, <3>2 DEF Polls
  <2> QED
    BY <1>1, <2>1, <2>2 DEF Polls
<1>6. ysfRunning' => LinkBudget'
  BY <1>0, <1>1, <1>5, OthersLink
<1>7. YsfTypeOK'
  BY <1>0, <1>1, <1>2, <1>4 DEF YsfTypeOK, ClockTypeOK, Out, In
<1> QED
  BY <1>3, <1>6, <1>7 DEF LinkInv

\* Voice of others, a restart and a loss.
LEMMA OutsideLink ==
  ASSUME LinkInv,
         ReflectorVoice \/ ReflectorRestart \/ YsfLose
  PROVE  LinkInv'
<1>0. YsfTypeOK /\ (ysfRunning => Paired) /\ (ysfRunning => LinkBudget)
  BY DEF LinkInv
<1>1. UNCHANGED <<ysfRunning, linked, pending, rxAge, alarmIn, alarmPending, late>>
  BY DEF ReflectorVoice, ReflectorRestart, YsfLose, YsfFault, ysfClient, clock
<1>2. CASE ReflectorVoice
  <2>1. /\ toClient' = <<"YSFD">> /\ toReflector' = toReflector
        /\ known' = known /\ faults' = faults
    BY <1>2 DEF ReflectorVoice
  <2>2. toClient' # <<>> /\ toClient' \in Seq(In)
    BY <2>1 DEF In
  <2>3. ysfRunning' => LinkBudget'
    BY <1>0, <1>1, <2>1, <2>2, OthersLink DEF LinkStill
  <2>4. YsfTypeOK'
    BY <1>0, <1>1, <2>1, <2>2 DEF YsfTypeOK, ClockTypeOK, In
  <2> QED
    BY <1>0, <1>1, <2>1, <2>3, <2>4 DEF LinkInv, Paired
<1>3. CASE ReflectorRestart
  <2>1. /\ toClient' = toClient /\ toReflector' = toReflector /\ known' = FALSE
        /\ faults' = [faults EXCEPT !["restart"] = @ + 1]
    BY <1>3 DEF ReflectorRestart, YsfFault, Faulty, ysfNetwork
  <2>2. faults' \in [FaultKinds -> Nat] /\ faults'["loss"] = faults["loss"]
    BY <1>0, <2>1 DEF YsfTypeOK, FaultKinds
  <2>3. LinkStill' => LinkStill
    BY <1>1, <2>1 DEF LinkStill, Polls
  <2>4. ysfRunning' => LinkBudget'
    BY <1>0, <1>1, <2>2, <2>3, OthersLink
  <2>5. YsfTypeOK'
    BY <1>0, <1>1, <2>1, <2>2 DEF YsfTypeOK, ClockTypeOK
  <2> QED
    BY <1>0, <1>1, <2>1, <2>4, <2>5 DEF LinkInv, Paired
<1>4. CASE YsfLose
  <2>1. /\ known' = known
        /\ faults' = [faults EXCEPT !["loss"] = @ + 1]
        /\ toReflector \in Seq(Out) /\ toClient \in Seq(In)
        /\ \/ /\ toReflector # <<>> /\ toReflector' = Tail(toReflector)
              /\ toClient' = toClient
           \/ /\ toClient # <<>> /\ toClient' = Tail(toClient)
              /\ toReflector' = toReflector
    BY <1>0, <1>4 DEF YsfLose, YsfFault, Faulty, YsfTypeOK, Out, In
  <2>2. /\ toReflector' \in Seq(Out) /\ toClient' \in Seq(In)
        /\ ysfRunning' => Paired'
    <3>1. CASE /\ toReflector # <<>> /\ toReflector' = Tail(toReflector)
               /\ toClient' = toClient
      <4>1. toReflector' \in Seq(Out)
        BY <2>1, <3>1, TailShape
      <4> QED
        BY <1>0, <1>1, <2>1, <3>1, <4>1, TailPaired
    <3>2. CASE /\ toClient # <<>> /\ toClient' = Tail(toClient)
               /\ toReflector' = toReflector
      BY <1>0, <1>1, <2>1, <3>2 DEF Paired
    <3> QED
      BY <2>1, <3>1, <3>2
  <2>3. faults' \in [FaultKinds -> Nat] /\ faults'["loss"] = faults["loss"] + 1
    BY <1>0, <2>1 DEF YsfTypeOK, FaultKinds
  <2>4. YsfTypeOK'
    BY <1>0, <1>1, <2>1, <2>2, <2>3 DEF YsfTypeOK, ClockTypeOK, Out, In
  <2>5. ysfRunning' => LinkBudget'
    <3> SUFFICES ASSUME ysfRunning, linked, ~pending
                 PROVE  Within(rxAge', alarmIn', late', faults'["loss"], LinkStill')
      BY <1>1 DEF LinkBudget
    <3>1. Within(rxAge, alarmIn, late, faults["loss"], LinkStill)
      BY <1>0 DEF LinkBudget
    <3>2. LinkStill' \in BOOLEAN
      BY DEF LinkStill
    <3>3. Within(rxAge, alarmIn, late, faults["loss"] + 1, LinkStill')
      BY <1>0, <3>1, <3>2, YsfNumbers, WithinLost
    <3> QED
      BY <1>1, <2>3, <3>3, Zenon
  <2> QED
    BY <2>2, <2>4, <2>5 DEF LinkInv
<1> QED
  BY <1>2, <1>3, <1>4

\* A second passes, also while something is in flight: it then counts as late.
LEMMA SecondLink ==
  ASSUME LinkInv, YsfSecond
  PROVE  LinkInv'
<1>0. YsfTypeOK /\ (ysfRunning => Paired) /\ (ysfRunning => LinkBudget)
  BY DEF LinkInv
<1>1. /\ UNCHANGED <<ysfRunning, linked, pending, toReflector, toClient, known, faults>>
      /\ LateBy(YsfAwaited) /\ AlarmClock /\ rxAge' = YsfOlder(rxAge) /\ ysfRunning
  BY DEF YsfSecond, ysfNetwork
<1>2. /\ rxAge' \in 0..(LOST_TIMEOUT + 1) /\ rxAge' \in Nat /\ rxAge' <= rxAge + 1
  BY <1>0, <1>1, YsfNumbers DEF YsfOlder, YsfTypeOK
<1>3. /\ late' \in Nat /\ late' \in 0..MaxLate
      /\ YsfAwaited => late' = late + 1
      /\ ~YsfAwaited => late' = 0
  BY <1>0, <1>1, YsfNumbers DEF LateBy
<1>4. /\ alarmIn' = IF alarmIn = 1 THEN ALARM ELSE alarmIn - 1
      /\ alarmIn' \in 1..ALARM /\ alarmPending' \in BOOLEAN
      /\ ~alarmPending' => ~alarmPending /\ alarmIn # 1
  BY <1>0, <1>1, YsfNumbers, ClockStep
<1>5. YsfTypeOK'
  BY <1>0, <1>1, <1>2, <1>3, <1>4 DEF YsfTypeOK, ClockTypeOK
<1>6. LinkBudget'
  <2> SUFFICES ASSUME linked, ~pending
               PROVE  Within(rxAge', alarmIn', late', faults'["loss"], LinkStill')
    BY <1>1 DEF LinkBudget
  <2>1. Within(rxAge, alarmIn, late, faults["loss"], LinkStill)
    BY <1>0, <1>1 DEF LinkBudget
  <2>2. LinkStill' \in BOOLEAN
    BY DEF LinkStill
  <2>3. ~YsfAwaited => LinkStill
    BY DEF YsfAwaited, LinkStill, Polls
  <2>4. late' = late + 1 \/ (LinkStill /\ late' = 0)
    BY <1>3, <2>3
  <2>5. LinkStill' => LinkStill /\ alarmIn # 1
    BY <1>1, <1>4 DEF LinkStill, Polls
  <2>6. SecondPassed(rxAge, alarmIn, late, LinkStill,
                     rxAge', alarmIn', late', LinkStill')
    BY <1>2, <1>4, <2>4, <2>5 DEF SecondPassed
  <2>n. /\ rxAge \in Nat /\ alarmIn \in 1..ALARM /\ late \in Nat
        /\ faults["loss"] \in Nat /\ LinkStill \in BOOLEAN
    BY <1>0, YsfNumbers
  <2>m. rxAge' \in Nat /\ late' \in Nat
    BY <1>2, <1>3
  <2>7. Within(rxAge', alarmIn', late', faults["loss"], LinkStill')
    BY <2>1, <2>2, <2>n, <2>m, <2>6, WithinSecond
  <2>8. faults' = faults
    BY <1>1
  <2> QED
    BY <2>7, <2>8, Zenon
<1> QED
  BY <1>0, <1>1, <1>5, <1>6 DEF LinkInv, Paired

\* Every step of the client, the reflector and the network keeps the invariant.
LEMMA StepLink ==
  ASSUME LinkInv, [YsfNext]_ysfVars
  PROVE  LinkInv'
<1>1. CASE UNCHANGED ysfVars
  BY <1>1 DEF LinkInv, YsfTypeOK, ClockTypeOK, Paired, LinkBudget, LinkStill, Polls,
              ysfVars, ysfClient, ysfNetwork, clock
<1>2. CASE YsfNext
  BY <1>2, ReconnectLink, AlarmLink, ClientLink, ReflectorLink, OutsideLink,
     SecondLink DEF YsfNext, YsfTick
<1> QED
  BY <1>1, <1>2

\* The state of the YSF client never leaves its types (YsfTypeOK).
THEOREM YsfTypeCorrect == YsfSpec => []YsfTypeOK
<1>1. LinkInv => YsfTypeOK
  BY DEF LinkInv
<1>2. LinkInv /\ [YsfNext]_ysfVars => LinkInv'
  BY StepLink
<1> QED
  BY <1>1, <1>2, InitLink, PTL DEF YsfSpec

\* No link is given up before enough datagrams of it were lost to make a
\* silence of LOST_TIMEOUT, counting boundaries of seconds and with a loop and
\* a network that may be MaxLate of them behind each time (SurvivesLoss): for
\* every pair of periods, every delay, whatever the network holds and however
\* often the reflector restarts (peer_ysf_on_alarm against peer_ysf_tick).
THEOREM LinksSurviveLoss == YsfSpec => SurvivesLoss
<1>1. /\ LinkInv /\ [YsfNext]_ysfVars
      => (/\ linked /\ ~pending /\ ysfRunning
          /\ Silence(faults["loss"]) <= LOST_TIMEOUT
          => linked')
  <2> SUFFICES ASSUME LinkInv, [YsfNext]_ysfVars, linked, ~pending, ysfRunning,
                      Silence(faults["loss"]) <= LOST_TIMEOUT
               PROVE  linked'
    OBVIOUS
  <2>1. YsfTypeOK /\ Within(rxAge, alarmIn, late, faults["loss"], LinkStill)
    BY DEF LinkInv, LinkBudget
  <2>2. rxAge <= Silence(faults["loss"])
    BY <2>1, YsfNumbers, WithinSilence
  <2>3. Silence(faults["loss"]) \in Nat
    BY <2>1, YsfNumbers, ReachNumbers
  <2>4. ~(rxAge > LOST_TIMEOUT)
    BY <2>1, <2>2, <2>3, YsfNumbers
  <2> QED
    BY <2>4 DEF YsfNext, YsfTick, TickReconnect, TickLost, YsfRx,
      YsfAlarm, YsfSigint, ReflectorRx, ReflectorVoice,
      ReflectorRestart, YsfLose, YsfFault, YsfSecond, ysfVars, ysfClient
<1>2. LinkInv /\ [YsfNext]_ysfVars => LinkInv'
  BY StepLink
<1> QED
  BY <1>1, <1>2, InitLink, PTL DEF YsfSpec, SurvivesLoss
=============================================================================
