------------------------------ MODULE PeerYsf ------------------------------
(***************************************************************************)
(* The YSF reflector client of src/peer_ysf.c: link setup, keepalive and   *)
(* reconnection over UDP.                                                  *)
(*                                                                         *)
(* Time is counted through an age, in boundaries of time(NULL) (PeerUdp):  *)
(* rxAge is now - last_rx.  peer_ysf_reconnect lets one pass by itself.    *)
(*                                                                         *)
(* The reflector is external: it is modelled from what peer_ysf_poll waits *)
(* for.  A YSFP registers the client and is answered, a YSFU ends that.    *)
(***************************************************************************)
EXTENDS PeerUdp

CONSTANTS
  LOST_TIMEOUT  \* #define LOST_TIMEOUT

ASSUME PeerYsfAssumption == LOST_TIMEOUT \in Nat \ {0}

VARIABLES
  ysfRunning,   \* keep_running, and the socket is open
  linked,       \* p->linked, what the bridge reads
  pending,      \* p->reconnect_pending
  rxAge,        \* seconds since last_rx
  toReflector,  \* datagrams on their way to the reflector
  toClient,     \* datagrams on their way to the client
  known         \* the reflector has the client registered

ysfClient == <<ysfRunning, linked, pending, rxAge, clock>>
ysfNetwork == <<toReflector, toClient>>
ysfVars == <<ysfClient, ysfNetwork, known, faults>>

\* An age stops counting once its comparison with LOST_TIMEOUT is decided.
YsfOlder(age) == IF age > LOST_TIMEOUT THEN age ELSE age + 1

YsfTypeOK ==
  /\ ysfRunning \in BOOLEAN
  /\ linked \in BOOLEAN
  /\ pending \in BOOLEAN
  /\ rxAge \in 0..(LOST_TIMEOUT + 1)
  /\ ClockTypeOK
  /\ toReflector \in Seq({"YSFP", "YSFD", "YSFU"})
  /\ toClient \in Seq({"YSFP", "YSFD"})
  /\ known \in BOOLEAN
  /\ faults \in [FaultKinds -> Nat]

\* peer_ysf_open.
YsfInit ==
  /\ ysfRunning = TRUE
  /\ linked = FALSE
  /\ pending = TRUE
  /\ rxAge = 0
  /\ ClockInit
  /\ toReflector = <<>>
  /\ toClient = <<>>
  /\ known = FALSE
  /\ faults = [kind \in FaultKinds |-> 0]

-----------------------------------------------------------------------------
(* The client *)

\* peer_ysf_tick, a reconnection pending: peer_ysf_reconnect polls, sleeps for
\* a second unless SIGALRM cuts that short, sends the DG-ID activation frames
\* and starts the clock again.  What has come in meanwhile waits in the socket.
TickReconnect ==
  /\ ysfRunning
  /\ pending
  /\ pending' = FALSE
  /\ linked' = FALSE
  /\ toReflector' = Sent(Sent(toReflector, "YSFP"), "YSFD")
  /\ rxAge' = 0
  /\ late' = 0
  /\ AlarmClock \/ UNCHANGED <<alarmIn, alarmPending>>
  /\ UNCHANGED <<ysfRunning, toClient, known, faults>>

\* Fault: the timeout is only looked at while linked.
TickLostLinked ==
  /\ ysfRunning
  /\ ~pending
  /\ rxAge > LOST_TIMEOUT
  /\ linked
  /\ linked' = FALSE
  /\ pending' = TRUE
  /\ UNCHANGED <<ysfRunning, rxAge, clock, ysfNetwork, known, faults>>

\* peer_ysf_tick, nothing heard for LOST_TIMEOUT seconds.
TickLost ==
  /\ ysfRunning
  /\ ~pending
  /\ rxAge > LOST_TIMEOUT
  /\ linked' = FALSE
  /\ pending' = TRUE
  /\ UNCHANGED <<ysfRunning, rxAge, clock, ysfNetwork, known, faults>>

YsfTick == TickReconnect \/ TickLost

\* Fault: only voice is taken for a sign of life, the answer to a poll is not.
YsfRxVoiceOnly ==
  /\ ysfRunning
  /\ toClient # <<>>
  /\ toClient' = Tail(toClient)
  /\ linked' = TRUE
  /\ rxAge' = IF Head(toClient) = "YSFD" THEN 0 ELSE rxAge
  /\ late' = 0
  /\ UNCHANGED <<ysfRunning, pending, alarmIn, alarmPending, toReflector, known,
                 faults>>

\* peer_ysf_poll: whatever the reflector sends is a sign of life.
YsfRx ==
  /\ ysfRunning
  /\ toClient # <<>>
  /\ toClient' = Tail(toClient)
  /\ linked' = TRUE
  /\ rxAge' = 0
  /\ late' = 0
  /\ UNCHANGED <<ysfRunning, pending, alarmIn, alarmPending, toReflector, known,
                 faults>>

\* service_alarm + peer_ysf_on_alarm.
YsfAlarm ==
  /\ ysfRunning
  /\ alarmPending
  /\ alarmPending' = FALSE
  /\ toReflector' = IF linked THEN Sent(toReflector, "YSFP") ELSE toReflector
  /\ UNCHANGED <<ysfRunning, linked, pending, rxAge, alarmIn, late, toClient,
                 known, faults>>

\* SIGINT: peer_ysf_on_sigint says goodbye and closes.
YsfSigint ==
  /\ ysfRunning
  /\ ysfRunning' = FALSE
  /\ toReflector' = Sent(toReflector, "YSFU")
  /\ UNCHANGED <<linked, pending, rxAge, clock, toClient, known, faults>>

-----------------------------------------------------------------------------
(* The reflector and the network (external) *)

ReflectorRx ==
  /\ toReflector # <<>>
  /\ toReflector' = Tail(toReflector)
  /\ \/ /\ Head(toReflector) = "YSFP"
        /\ known' = TRUE
        /\ toClient' = Sent(toClient, "YSFP")
     \/ /\ Head(toReflector) = "YSFU"
        /\ known' = FALSE
        /\ UNCHANGED toClient
     \/ /\ Head(toReflector) = "YSFD"
        /\ UNCHANGED <<known, toClient>>
  /\ UNCHANGED <<ysfClient, faults>>

\* Another station talks, 100 ms from frame to frame.
ReflectorVoice ==
  /\ known
  /\ toClient = <<>>
  /\ toClient' = <<"YSFD">>
  /\ UNCHANGED <<ysfClient, toReflector, known, faults>>

YsfFault(kind) == Faulty(kind) /\ UNCHANGED ysfClient

\* The reflector restarts and forgets its clients.
ReflectorRestart ==
  /\ YsfFault("restart")
  /\ known
  /\ known' = FALSE
  /\ UNCHANGED ysfNetwork

YsfLose ==
  /\ YsfFault("loss")
  /\ \/ toReflector # <<>> /\ toReflector' = Tail(toReflector) /\ UNCHANGED toClient
     \/ toClient # <<>> /\ toClient' = Tail(toClient) /\ UNCHANGED toReflector
  /\ UNCHANGED known

\* The client waits for something: a tick or an alarm that is due, or what is
\* on its way.
YsfAwaited ==
  \/ pending
  \/ rxAge > LOST_TIMEOUT
  \/ alarmPending
  \/ toReflector # <<>>
  \/ toClient # <<>>

\* time(NULL) moves on, whatever is under way.
YsfSecond ==
  /\ ysfRunning
  /\ LateBy(YsfAwaited)
  /\ AlarmClock
  /\ rxAge' = YsfOlder(rxAge)
  /\ UNCHANGED <<ysfRunning, linked, pending, ysfNetwork, known, faults>>

-----------------------------------------------------------------------------

YsfNext ==
  \/ YsfTick \/ YsfRx \/ YsfAlarm \/ YsfSigint
  \/ ReflectorRx \/ ReflectorVoice \/ ReflectorRestart \/ YsfLose
  \/ YsfSecond

YsfSpec == YsfInit /\ [][YsfNext]_ysfVars

\* The loop keeps running, time passes whatever the traffic, and a reflector
\* that is up answers.
YsfFairness ==
  /\ WF_ysfVars(YsfTick) /\ WF_ysfVars(YsfRx) /\ WF_ysfVars(YsfAlarm)
  /\ WF_ysfVars(ReflectorRx)
  /\ SF_ysfVars(YsfSecond)

-----------------------------------------------------------------------------
(* Properties *)

\* An established link is given up only for cause: no fewer losses end one than
\* make a silence of LOST_TIMEOUT, seconds being truncated and the loop up to
\* MaxLate of them behind (peer_ysf_tick).  The code's 5 and 10 leave no room:
\* a single lost poll may unlink as soon as one boundary of a second falls
\* between a poll and its answer, and so may a loop held up for 6 seconds.  (A
\* link heard of while a reconnection is pending is torn down.)
SurvivesLoss ==
  [][/\ linked /\ ~pending /\ ysfRunning
     /\ Silence(faults["loss"]) <= LOST_TIMEOUT
     => linked']_ysfVars

\* A reflector that has forgotten the client knows it again: the keepalive is
\* itself the registration, unlike a DMR master's ping.
RegistrationRenewed == ~known ~> (known \/ ~ysfRunning)
=============================================================================
