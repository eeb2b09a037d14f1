------------------------------ MODULE PeerUdp ------------------------------
(***************************************************************************)
(* What the DMR and the YSF client have in common: the main loop of        *)
(* src/ysf2dmrcon.c that runs them, its alarm, and UDP.  In mode ysf-dmr   *)
(* both run in one loop, on one alarm.  PeerDmr and PeerYsf extend it.     *)
(*                                                                         *)
(* The code compares stamps of time(NULL), which are whole seconds: what   *)
(* counts is how many boundaries of a second lie between two readings, not *)
(* how much time.  Time is therefore counted in boundaries, and one may    *)
(* pass at any point: between a request and its answer however fast that   *)
(* is, and again and again while the loop is held up, as by the download   *)
(* of an alias table (ysf2dmrcon.c:165-171) or the sleep of a reconnect.   *)
(* How many may pass while something is due or on its way is MaxLate.  1   *)
(* stands for a loop and a network without any delay worth mentioning.     *)
(***************************************************************************)
EXTENDS Naturals, Sequences

CONSTANTS
  ALARM,      \* alarm(5): seconds between two keepalives
  MaxLate,    \* seconds that may pass while something is due or on its way
  Faults,     \* which kinds of fault may happen
  MaxFaults,  \* bound: how many faults happen in a behaviour, all kinds
  MaxNet      \* bound: datagrams in flight per direction; more are dropped

FaultKinds == {"loss", "dup", "restart", "reject"}

ASSUME PeerUdpAssumption ==
  /\ ALARM \in Nat \ {0}
  /\ MaxLate \in Nat
  /\ Faults \subseteq FaultKinds
  /\ MaxFaults \in Nat
  /\ MaxNet \in Nat \ {0}

VARIABLES
  alarmIn,       \* seconds until the next SIGALRM
  alarmPending,  \* alarm_pending
  late,          \* seconds passed while something was due or on its way
  faults         \* how many faults of each kind have happened

clock == <<alarmIn, alarmPending, late>>

ClockTypeOK ==
  /\ alarmIn \in 1..ALARM
  /\ alarmPending \in BOOLEAN
  /\ late \in 0..MaxLate

ClockInit == alarmIn = ALARM /\ alarmPending = FALSE /\ late = 0

\* sendto() on a UDP socket: a full channel loses the datagram.
Sent(net, m) == IF Len(net) < MaxNet THEN Append(net, m) ELSE net

\* on_signal, a second later: SIGALRM sets the flag and arms the next alarm,
\* whether or not the loop has got round to the last one.
AlarmClock ==
  /\ alarmPending' = (alarmPending \/ alarmIn = 1)
  /\ alarmIn' = IF alarmIn = 1 THEN ALARM ELSE alarmIn - 1

\* A second may pass: at any time if nothing is awaited, MaxLate times if so.
LateBy(awaited) ==
  IF awaited THEN late < MaxLate /\ late' = late + 1 ELSE late' = 0

\* A fault of this kind happens.
Faulty(kind) ==
  /\ kind \in Faults
  /\ faults["loss"] + faults["dup"] + faults["restart"] + faults["reject"]
       < MaxFaults
  /\ faults' = [faults EXCEPT ![kind] = @ + 1]

\* No longer is a server that answers silent while so many datagrams are lost.
\* A lost one costs an alarm period; alarms that fall into one delay are one.
Period == ALARM * (1 + MaxLate \div ALARM)

Silence(lost) == Period * lost + ALARM + MaxLate
=============================================================================
