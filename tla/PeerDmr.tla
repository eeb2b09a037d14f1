------------------------------ MODULE PeerDmr ------------------------------
(***************************************************************************)
(* The Homebrew (HBP) client of src/peer_dmr.c: login handshake, keepalive *)
(* and re-login, against a DMR master over UDP.                            *)
(*                                                                         *)
(* Time is counted through ages instead of absolute stamps, in boundaries  *)
(* of time(NULL) (PeerUdp): pongAge is now - pong_time1 and holdoff is     *)
(* login_fail_until - now.                                                 *)
(*                                                                         *)
(* The master is external: it is modelled from the replies handle_rx       *)
(* waits for (RPTACK, MSTNAK, MSTPONG) and holds one registration.         *)
(***************************************************************************)
EXTENDS PeerUdp

CONSTANTS
  TIMEOUT,     \* #define TIMEOUT: seconds of silence before a re-login
  NAK_HOLD,    \* seconds handle_rx waits after a MSTNAK
  Options,     \* TRUE iff [dmr] options is not empty (an RPTO is sent)
  NakUnknown   \* TRUE iff the master answers a stranger's ping with MSTNAK

ASSUME PeerDmrAssumption ==
  /\ TIMEOUT \in Nat \ {0}
  /\ NAK_HOLD \in Nat
  /\ Options \in BOOLEAN
  /\ NakUnknown \in BOOLEAN

VARIABLES
  running,   \* keep_running, and the socket is open
  host,      \* host1_connect_status, the client's own state
  status,    \* p->status, what the bridge reads (peer_dmr_connected)
  phase,     \* p->login_phase
  pongAge,   \* seconds since pong_time1
  holdoff,   \* seconds until login_fail_until
  toMaster,  \* datagrams on their way to the master
  toPeer,    \* datagrams on their way to the client
  master     \* the master's record of this peer

client  == <<running, host, status, phase, pongAge, holdoff, clock>>
network == <<toMaster, toPeer>>
vars    == <<client, network, master, faults>>

Status   == {"DISCONNECTED", "CONNECTING", "CONNECTED"}
Requests == {"RPTL", "RPTK", "RPTC", "RPTO", "RPTPING", "RPTCL"}
Replies  == {"RPTACK", "MSTNAK", "MSTPONG", "DMRD"}
\* The steps of a registration, in the order the master grants them.
Records  == {"none", "challenged", "authenticated", "registered"}

LoginTimeout == TIMEOUT * 2

\* An age stops counting once every comparison with it is decided.
Older(age) == IF age > LoginTimeout THEN age ELSE age + 1

TypeOK ==
  /\ running \in BOOLEAN
  /\ host \in Status
  /\ status \in Status
  /\ phase \in 0..4
  /\ pongAge \in 0..(LoginTimeout + 1)
  /\ holdoff \in 0..NAK_HOLD
  /\ ClockTypeOK
  /\ toMaster \in Seq(Requests)
  /\ toPeer \in Seq(Replies)
  /\ master \in Records
  /\ faults \in [FaultKinds -> Nat]

\* peer_dmr_open: disconnected, pong_time1 = now, no hold-off.
Init ==
  /\ running = TRUE
  /\ host = "DISCONNECTED"
  /\ status = "DISCONNECTED"
  /\ phase = 0
  /\ pongAge = 0
  /\ holdoff = 0
  /\ ClockInit
  /\ toMaster = <<>>
  /\ toPeer = <<>>
  /\ master = "none"
  /\ faults = [kind \in FaultKinds |-> 0]

-----------------------------------------------------------------------------
(* The client *)

\* Fault: the hold-off is not waited for.
TickLoginEager ==
  /\ running
  /\ host = "DISCONNECTED"
  /\ host' = "CONNECTING"
  /\ status' = "CONNECTING"
  /\ phase' = 0
  /\ pongAge' = 0
  /\ toMaster' = Sent(toMaster, "RPTL")
  /\ late' = 0
  /\ UNCHANGED <<running, holdoff, alarmIn, alarmPending, toPeer, master,
                 faults>>

\* peer_dmr_tick while disconnected and past the hold-off: send RPTL.
TickLogin ==
  /\ running
  /\ host = "DISCONNECTED"
  /\ holdoff = 0
  /\ host' = "CONNECTING"
  /\ status' = "CONNECTING"
  /\ phase' = 0
  /\ pongAge' = 0
  /\ toMaster' = Sent(toMaster, "RPTL")
  /\ late' = 0
  /\ UNCHANGED <<running, holdoff, alarmIn, alarmPending, toPeer, master,
                 faults>>

\* peer_dmr_tick while connected: no traffic for TIMEOUT seconds.
TickKeepaliveLost ==
  /\ running
  /\ host = "CONNECTED"
  /\ pongAge > TIMEOUT
  /\ host' = "DISCONNECTED"
  /\ status' = "DISCONNECTED"
  /\ UNCHANGED <<running, phase, pongAge, holdoff, clock, network, master,
                 faults>>

\* Fault: the login timeout is never taken.
TickLoginLostNever == FALSE /\ UNCHANGED vars

\* peer_dmr_tick while connecting: the handshake did not finish in time.
\* p->status was copied before the test, so it lags until the next tick.
TickLoginLost ==
  /\ running
  /\ host = "CONNECTING"
  /\ pongAge > LoginTimeout
  /\ host' = "DISCONNECTED"
  /\ status' = "CONNECTING"
  /\ UNCHANGED <<running, phase, pongAge, holdoff, clock, network, master,
                 faults>>

Tick == TickLogin \/ TickKeepaliveLost \/ TickLoginLost

\* One of peer_dmr_tick's branches is due.
TickDue ==
  \/ host = "DISCONNECTED" /\ holdoff = 0
  \/ host = "CONNECTED" /\ pongAge > TIMEOUT
  \/ host = "CONNECTING" /\ pongAge > LoginTimeout

\* The client waits for something: a tick or an alarm that is due, or what is
\* on its way.
Awaited == TickDue \/ alarmPending \/ toMaster # <<>> \/ toPeer # <<>>

\* The next request of the handshake, and the end of it.
Request(m, next) ==
  /\ toMaster' = Sent(toMaster, m)
  /\ phase' = next
  /\ UNCHANGED <<host, pongAge>>

\* Fault: completing the handshake counts login_phase on past its last value.
LoginCompletePhaseLost ==
  /\ host' = "CONNECTED"
  /\ phase' = phase + 2
  /\ pongAge' = 0
  /\ UNCHANGED toMaster

LoginComplete ==
  /\ host' = "CONNECTED"
  /\ phase' = 4
  /\ pongAge' = 0
  /\ UNCHANGED toMaster

\* Fault: the acknowledgement of RPTK ends the handshake.
AckStepEager ==
  \/ phase = 0 /\ Request("RPTK", 1)
  \/ phase \in 1..3 /\ LoginComplete

\* handle_rx, RPTACK while connecting: an acknowledgement carries nothing
\* that names the request it answers, so login_phase alone says what is next.
\* (The switch's default is never reached while connecting: PhaseAgrees.)
AckStep ==
  \/ phase = 0 /\ Request("RPTK", 1)
  \/ phase = 1 /\ Request("RPTC", 2)
  \/ phase = 2 /\ Options /\ Request("RPTO", 3)
  \/ (phase = 3 \/ (phase = 2 /\ ~Options)) /\ LoginComplete

\* Fault: only voice is taken for a sign of life, the answer to a ping is not.
RxVoiceOnly ==
  /\ running
  /\ toPeer # <<>>
  /\ toPeer' = Tail(toPeer)
  /\ \/ /\ host = "CONNECTED"               \* any traffic is a sign of life
        /\ pongAge' = IF Head(toPeer) = "DMRD" THEN 0 ELSE pongAge
        /\ late' = 0
        /\ UNCHANGED <<host, phase, holdoff, toMaster>>
     \/ /\ host = "CONNECTING"
        /\ Head(toPeer) = "RPTACK"
        /\ AckStep
        /\ late' = 0
        /\ UNCHANGED holdoff
     \/ /\ host = "CONNECTING"
        /\ Head(toPeer) = "MSTNAK"
        /\ host' = "DISCONNECTED"
        /\ holdoff' = NAK_HOLD
        /\ UNCHANGED <<phase, pongAge, toMaster, late>>
     \/ /\ \/ host = "DISCONNECTED"
           \/ host = "CONNECTING" /\ Head(toPeer) \notin {"RPTACK", "MSTNAK"}
        /\ UNCHANGED <<host, phase, pongAge, holdoff, toMaster, late>>
  /\ status' = host'
  /\ UNCHANGED <<running, alarmIn, alarmPending, master, faults>>

\* peer_dmr_poll + handle_rx: one datagram from the master's address.  What
\* the client waited for is there, and the next wait starts.
Rx ==
  /\ running
  /\ toPeer # <<>>
  /\ toPeer' = Tail(toPeer)
  /\ \/ /\ host = "CONNECTED"               \* any traffic is a sign of life
        /\ pongAge' = 0
        /\ late' = 0
        /\ UNCHANGED <<host, phase, holdoff, toMaster>>
     \/ /\ host = "CONNECTING"
        /\ Head(toPeer) = "RPTACK"
        /\ AckStep
        /\ late' = 0
        /\ UNCHANGED holdoff
     \/ /\ host = "CONNECTING"
        /\ Head(toPeer) = "MSTNAK"
        /\ host' = "DISCONNECTED"
        /\ holdoff' = NAK_HOLD
        /\ UNCHANGED <<phase, pongAge, toMaster, late>>
     \/ /\ \/ host = "DISCONNECTED"
           \/ host = "CONNECTING" /\ Head(toPeer) \notin {"RPTACK", "MSTNAK"}
        /\ UNCHANGED <<host, phase, pongAge, holdoff, toMaster, late>>
  /\ status' = host'
  /\ UNCHANGED <<running, alarmIn, alarmPending, master, faults>>

\* service_alarm + peer_dmr_on_alarm: the loop sees the flag.
Alarm ==
  /\ running
  /\ alarmPending
  /\ alarmPending' = FALSE
  /\ toMaster' = IF host = "CONNECTED" THEN Sent(toMaster, "RPTPING")
                                       ELSE toMaster
  /\ UNCHANGED <<running, host, status, phase, pongAge, holdoff, alarmIn, late,
                 toPeer, master, faults>>

\* SIGINT: the loop ends, peer_dmr_on_sigint says goodbye and closes.
Sigint ==
  /\ running
  /\ running' = FALSE
  /\ toMaster' = IF host = "CONNECTED" THEN Sent(toMaster, "RPTCL")
                                       ELSE toMaster
  /\ UNCHANGED <<host, status, phase, pongAge, holdoff, clock, toPeer, master,
                 faults>>

-----------------------------------------------------------------------------
(* The master and the network (external) *)

\* The master's record and its reply to request m.
Granted(m) ==
  CASE m = "RPTL" -> "challenged"
    [] m = "RPTK" /\ master = "challenged" -> "authenticated"
    [] m = "RPTC" /\ master \in {"authenticated", "registered"} -> "registered"
    [] m = "RPTO" /\ master = "registered" -> "registered"
    [] m = "RPTPING" /\ master = "registered" -> "registered"
    [] OTHER -> "none"

MasterRx ==
  /\ toMaster # <<>>
  /\ toMaster' = Tail(toMaster)
  /\ LET m == Head(toMaster)
     IN  \/ /\ Granted(m) # "none"
            /\ master' = Granted(m)
            /\ toPeer' = Sent(toPeer, IF m = "RPTPING" THEN "MSTPONG"
                                                       ELSE "RPTACK")
         \/ /\ Granted(m) = "none"
            /\ m \notin {"RPTCL", "RPTPING"}
            /\ master' = "none"
            /\ toPeer' = Sent(toPeer, "MSTNAK")
         \/ /\ Granted(m) = "none"
            /\ m = "RPTPING"
            /\ UNCHANGED master
            /\ toPeer' = IF NakUnknown THEN Sent(toPeer, "MSTNAK") ELSE toPeer
         \/ /\ m = "RPTCL"
            /\ master' = "none"
            /\ UNCHANGED toPeer
  /\ UNCHANGED <<client, faults>>

\* Another station talks: the master relays DMRD to a registered peer, 60 ms
\* apart and so into a channel that has delivered the one before.
MasterVoice ==
  /\ master = "registered"
  /\ toPeer = <<>>
  /\ toPeer' = <<"DMRD">>
  /\ UNCHANGED <<client, toMaster, master, faults>>

Fault(kind) == Faulty(kind) /\ UNCHANGED client

\* The master turns a login down (wrong password, identity in use).
MasterReject ==
  /\ Fault("reject")
  /\ toMaster # <<>>
  /\ Head(toMaster) \in {"RPTK", "RPTC"}
  /\ toMaster' = Tail(toMaster)
  /\ master' = "none"
  /\ toPeer' = Sent(toPeer, "MSTNAK")

\* The master restarts and forgets its peers.
MasterRestart ==
  /\ Fault("restart")
  /\ master # "none"
  /\ master' = "none"
  /\ UNCHANGED network

Lose ==
  /\ Fault("loss")
  /\ \/ toMaster # <<>> /\ toMaster' = Tail(toMaster) /\ UNCHANGED toPeer
     \/ toPeer # <<>> /\ toPeer' = Tail(toPeer) /\ UNCHANGED toMaster
  /\ UNCHANGED master

Duplicate ==
  /\ Fault("dup")
  /\ toPeer # <<>>
  /\ Len(toPeer) < MaxNet
  /\ toPeer' = <<Head(toPeer)>> \o toPeer
  /\ UNCHANGED <<toMaster, master>>

\* time(NULL) moves on, whatever is under way.
Second ==
  /\ running
  /\ LateBy(Awaited)
  /\ AlarmClock
  /\ pongAge' = Older(pongAge)
  /\ holdoff' = IF holdoff = 0 THEN 0 ELSE holdoff - 1
  /\ UNCHANGED <<running, host, status, phase, network, master, faults>>

-----------------------------------------------------------------------------

Client == Tick \/ Rx \/ Alarm \/ Sigint
Environment ==
  MasterRx \/ MasterVoice \/ MasterReject \/ MasterRestart \/ Lose \/ Duplicate

Next == Client \/ Environment \/ Second

Spec == Init /\ [][Next]_vars

\* The loop keeps running, time passes (strongly: traffic does not stop the
\* clock) and a master that is up answers.  Nobody has to talk or to fail.
Fairness ==
  /\ WF_vars(Tick)
  /\ WF_vars(Rx)
  /\ WF_vars(Alarm)
  /\ WF_vars(MasterRx)
  /\ SF_vars(Second)

LiveSpec == Spec /\ Fairness

-----------------------------------------------------------------------------
(* Properties *)

\* The four answers of a login, each as late as can be, come within the time
\* that peer_dmr_tick gives it: delays of up to 15 seconds with the code's 60.
Prompt == 4 * MaxLate <= LoginTimeout

\* What the bridge is told (p->status) and the client's own state agree on
\* being connected: voice is never paced into a session the client has given
\* up, nor withheld from one it holds (peer_dmr_tick, handle_rx).
StatusAgrees == status = "CONNECTED" <=> host = "CONNECTED"

\* The phase counter and the connection state move together: only a finished
\* handshake is CONNECTED, an unfinished one has a phase handle_rx knows, and
\* phase 3 (RPTO sent) exists only with options (peer_dmr.c:240-266).
PhaseAgrees ==
  /\ host = "CONNECTED" => phase = 4
  /\ host = "CONNECTING" => phase \in 0..3
  /\ phase = 3 => Options

\* A client that waits out a MSTNAK is disconnected: no request leaves before
\* the hold-off ends, whatever the network still delivers (peer_dmr.c:203).
HoldoffIsSilent == holdoff > 0 => host = "DISCONNECTED"

\* The client completes its login only once the master holds its registration:
\* the acknowledgement that ends the handshake answers the last request of
\* this very login, whatever was lost or turned down before.  RPTACK names no
\* request, so this needs that none is duplicated, that the master does not
\* restart, and that none of the four answers of a login comes so late that
\* the login has been given up meanwhile (handle_rx, peer_dmr.c:237).
ConnectedIsRegistered ==
  [][/\ host # "CONNECTED" /\ host' = "CONNECTED"
     /\ faults["dup"] = 0 /\ faults["restart"] = 0
     /\ Prompt
     => master = "registered"]_vars

\* A session is given up only for cause: as long as the master remembers the
\* client, no fewer losses end one than make a silence of TIMEOUT, seconds
\* being truncated and the loop up to MaxLate of them behind (peer_dmr_tick).
\* With the code's 5 and 30 four losses are harmless, and the fifth ends the
\* session as soon as one boundary of a second falls between a ping and its
\* answer; a loop held up for 26 seconds may lose it without any loss.
NoSpuriousTimeout ==
  [][/\ faults["dup"] = 0 /\ faults["restart"] = 0 /\ Prompt
     /\ Silence(faults["loss"]) <= TIMEOUT
     => ~TickKeepaliveLost]_vars

\* A client that keeps running is registered again and again, or for good:
\* whatever datagrams were lost, a login that got stuck is started over.  Only
\* where answers are always later than Prompt says does none ever complete.
EventuallyConnected == []<>(host = "CONNECTED" \/ ~running)

\* "UDP peers, reconnect" (README.md:194): a client whose registration is gone
\* notices and leaves the CONNECTED state.  It does where the master does not
\* answer strangers; a MSTNAK in answer to the ping is taken for a sign of life
\* like any other datagram, and the client stays (handle_rx, peer_dmr.c:234).
LostRegistrationNoticed ==
  (host = "CONNECTED" /\ master = "none")
    ~> (host # "CONNECTED" \/ master = "registered" \/ ~running)
=============================================================================
