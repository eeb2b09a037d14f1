------------------------------- MODULE PeerEl -------------------------------
(***************************************************************************)
(* The EchoLink peer of src/peer_echolink.c: directory logins and look-ups *)
(* on a worker thread, the RTCP keepalive and the link to a conference on  *)
(* the main loop.                                                          *)
(*                                                                         *)
(* A thread is the list of operations it has yet to do, each of them the   *)
(* stretch between two points where another thread may come in: the        *)
(* mutexes dir_mu and proxy.mu, and the blocking directory connections.    *)
(* Where the code calls a function, the list gets that function's          *)
(* operations in front.                                                    *)
(*                                                                         *)
(* Time is in seconds as time(NULL) counts them: an age is the number of   *)
(* times the second has changed.  The loop comes round some hundred times  *)
(* a second, so a second passes when it has ticked and polled, while it is *)
(* blocked in a directory operation, or while something else holds it up:  *)
(* the alias files, a connection to the proxy, the vocoder.  What is sent  *)
(* arrives, or is lost, within the second.                                 *)
(*                                                                         *)
(* Of the proxy's connection only what decides whether a datagram goes out *)
(* is here; its frames are module ElProxy's.                               *)
(*                                                                         *)
(* The directory and the conference are external.  The conference accepts  *)
(* a member's SDES, and a stranger's after an OPEN that the directory      *)
(* relays; it forgets a member it has not heard of for CONF_TIMEOUT        *)
(* (ConfMemberTimeout in the comments of the code).                        *)
(***************************************************************************)
EXTENDS Naturals, Sequences

CONSTANTS
  EL_SDES_INTERVAL,   \* seconds between two SDES
  EL_PEER_STALE_SEC,  \* silence after which the peer counts as gone
  FIRST_RELOGIN,      \* EL_FIRST_RELOGIN_DELAY
  LoginInterval,      \* p->login_interval
  ListInterval,       \* p->station_list_interval, 0 for none
  RTP_FRAMES,         \* EL_RTP_SAMPLES in blocks of 160 samples
  STICKY,             \* seconds after the last RTP the talker is kept: 2
  CONF_TIMEOUT,       \* the conference's ConfMemberTimeout
  RECONNECT_SEC,      \* el_proxy.c's, until a lost proxy is tried again
  DirTime,            \* bound: seconds a directory operation takes
  MaxHeld,            \* bound: seconds the loop is held up before it comes round
  ProxyThread,        \* bound: outcomes of pthread_create with a proxy
  DirectThread,       \* bound: and without one
  Addrs,              \* addresses the conference may have
  MaxFaults           \* bound: datagrams lost, look-ups failed, restarts,
                      \* connections to the proxy lost or refused

ASSUME PeerElAssumption ==
  /\ EL_SDES_INTERVAL \in Nat \ {0}
  /\ EL_PEER_STALE_SEC \in Nat \ {0}
  /\ FIRST_RELOGIN \in Nat \ {0}
  /\ LoginInterval \in Nat \ {0}
  /\ ListInterval \in Nat
  /\ RTP_FRAMES \in Nat \ {0}
  /\ STICKY \in Nat \ {0}
  /\ CONF_TIMEOUT \in Nat \ {0}
  /\ RECONNECT_SEC \in Nat \ {0}
  /\ DirTime \in Nat
  /\ MaxHeld \in Nat
  /\ ProxyThread \in (SUBSET BOOLEAN) \ {{}}
  /\ DirectThread \in (SUBSET BOOLEAN) \ {{}}
  /\ Addrs \subseteq Nat \ {0}
  /\ Addrs # {}
  /\ MaxFaults \in Nat

VARIABLES
  proxy,     \* p->use_proxy, from the configuration
  on,        \* p->dir_thread_on
  phase,     \* start, run, write (in peer_el_write_pcm), join, closed
  todo,      \* what each thread has yet to do
  asleep,    \* the worker is in pthread_cond_wait
  exited,    \* the worker has returned, or was never started
  job,       \* p->dir_job
  busy,      \* p->dir_busy
  stop,      \* p->dir_stop
  proxyMu,   \* the thread that holds p->proxy.mu between two operations
  addr,      \* the peer's address, 0 while not peer_resolved
  linked,    \* p->linked
  talker,    \* p->remote_talker: the host's own name, or a user's
  explicit,  \* p->remote_talker_explicit
  pending,   \* p->sdes_reply_pending
  sdesAge,   \* seconds since last_sdes
  rtcpAge,   \* seconds since last_peer_rtcp
  rtpAge,    \* seconds since last_rtp_rx, up to STICKY
  loginIn,   \* seconds until next_login_time
  listIn,    \* seconds until next_station_list_time
  pcmOut,    \* p->pcm_out_count
  ticked,    \* peer_el_tick has run in this second
  opTime,    \* seconds each thread has been in its directory operation
  held,      \* seconds the loop has been held up since it came round
  toConf,    \* <<message, address>> on their way
  toUs,      \* messages on their way from the conference
  px,        \* el_proxy_ready
  backIn,    \* seconds until proxy.next_reconnect
  cut,       \* history: the connection to the proxy has been lost
  confAddr,  \* the address the conference has, as the directory knows it
  member,    \* the conference counts us as a member
  opened,    \* the conference has got our OPEN
  confAge,   \* seconds since the conference heard of us
  dropped,   \* history: the conference has forgotten a running client
  faults

control == <<phase, todo, asleep, exited, job, busy, stop>>
link    == <<addr, linked, talker, explicit, pending>>
clocks  == <<sdesAge, rtcpAge, rtpAge, loginIn, listIn, ticked, opTime, held>>
conn    == <<px, backIn, cut>>
network == <<toConf, toUs, conn>>
conf    == <<confAddr, member, opened, confAge, dropped>>
vars == <<proxy, on, control, proxyMu, link, clocks, pcmOut, network, conf, faults>>

Threads == {"main", "worker"}
Jobs == {"NONE", "LOGIN", "LIST", "LOGIN_LIST"}

\* What the client sends, with the address it sends it to.
Datagrams == {"SDES", "OPEN"} \X Addrs

Op(name, arg) == <<name, arg>>

\* el_send_sdes: build under dir_mu, send afterwards
SendSdes == <<Op("build", 0)>>

\* el_send_connect_handshake
SendHandshake == <<Op("build", 0), Op("open", 0)>>

\* el_dir_op_begin, the directory operations of a job, el_dir_op_end:
\* el_login_and_list, el_station_list_only and the switch of the worker.
JobOps(j) ==
  SendSdes
  \o (IF j \in {"LOGIN", "LOGIN_LIST"} THEN <<Op("login", 0)>> ELSE <<>>)
  \o (IF j \in {"LIST", "LOGIN_LIST"} /\ ListInterval > 0
      THEN <<Op("list", 0)>> ELSE <<>>)
  \o SendSdes

OpNames == {"build", "emit", "open", "login", "list", "apply",
            "done", "thread", "keepalive", "stale", "callback", "unlock", "reply"}

TypeOK ==
  /\ proxy \in BOOLEAN
  /\ on \in BOOLEAN
  /\ phase \in {"start", "run", "write", "join", "closed"}
  /\ todo \in [Threads -> Seq(OpNames \X Nat)]
  /\ asleep \in BOOLEAN
  /\ exited \in BOOLEAN
  /\ job \in Jobs
  /\ busy \in BOOLEAN
  /\ stop \in BOOLEAN
  /\ proxyMu \in Threads \union {"none"}
  /\ addr \in Addrs \union {0}
  /\ linked \in BOOLEAN
  /\ talker \in {"host", "user"}
  /\ explicit \in BOOLEAN
  /\ pending \in BOOLEAN
  /\ sdesAge \in 0..EL_SDES_INTERVAL
  /\ rtcpAge \in 0..EL_PEER_STALE_SEC
  /\ rtpAge \in 0..STICKY
  /\ loginIn \in Nat
  /\ listIn \in Nat
  /\ pcmOut \in 0..RTP_FRAMES
  /\ ticked \in BOOLEAN
  /\ opTime \in [Threads -> 0..DirTime]
  /\ held \in 0..MaxHeld
  /\ px \in BOOLEAN
  /\ backIn \in 0..RECONNECT_SEC
  /\ cut \in BOOLEAN
  /\ toConf \subseteq Datagrams
  /\ toUs \subseteq {"RTP", "OPEN", "HOST", "USER"}
  /\ confAddr \in Addrs
  /\ member \in BOOLEAN
  /\ opened \in BOOLEAN
  /\ confAge \in 0..CONF_TIMEOUT
  /\ dropped \in BOOLEAN
  /\ faults \in 0..MaxFaults

\* peer_el_open before its directory operations, which block; then the
\* worker is started.
Init ==
  /\ proxy \in BOOLEAN
  /\ on = FALSE
  /\ phase = "start"
  /\ todo = [t \in Threads |->
               IF t = "main"
               THEN (IF ListInterval > 0 THEN JobOps("LOGIN_LIST") ELSE <<Op("login", 0)>>)
                    \o <<Op("thread", 0)>>
               ELSE <<>>]
  /\ asleep = FALSE
  /\ exited = TRUE
  /\ job = "NONE"
  /\ busy = FALSE
  /\ stop = FALSE
  /\ proxyMu = "none"
  /\ addr = 0
  /\ linked = FALSE
  /\ talker = "host"
  /\ explicit = FALSE
  /\ pending = FALSE
  /\ sdesAge = EL_SDES_INTERVAL
  /\ rtcpAge = 0
  /\ rtpAge = STICKY
  /\ loginIn = FIRST_RELOGIN
  /\ listIn = ListInterval
  /\ pcmOut = 0
  /\ ticked = FALSE
  /\ opTime = [t \in Threads |-> 0]
  /\ held = 0
  /\ px = proxy
  /\ backIn = 0
  /\ cut = FALSE
  /\ toConf = {}
  /\ toUs = {}
  /\ confAddr = CHOOSE a \in Addrs : TRUE
  /\ member = FALSE
  /\ opened = FALSE
  /\ confAge = 0
  /\ dropped = FALSE
  /\ faults = 0

-----------------------------------------------------------------------------
\* Thread t is at operation name.
At(t, name) == todo[t] # <<>> /\ Head(todo[t])[1] = name

Arg(t) == Head(todo[t])[2]

\* Thread t goes on, with ops first.
Continue(t, ops) == todo' = [todo EXCEPT ![t] = ops \o Tail(@)]

\* The connection to the proxy is down.
Down == proxy /\ ~px

\* mark_disconnected_locked: also of a connection that is already down.
MarkDisconnected == px' = FALSE /\ backIn' = RECONNECT_SEC

\* el_proxy_ensure returns 0: the connection is there, or is made.
Ensured ==
  /\ proxy => proxyMu = "none"
  /\ Down => backIn = 0
  /\ px' = proxy
  /\ backIn' = 0
  /\ UNCHANGED cut

\* It does not: it is too early, or the proxy refuses.
NotEnsured ==
  /\ Down
  /\ proxyMu = "none"
  /\ IF backIn > 0
     THEN UNCHANGED <<backIn, faults>>
     ELSE /\ faults < MaxFaults
          /\ faults' = faults + 1
          /\ backIn' = RECONNECT_SEC
  /\ UNCHANGED <<px, cut>>

\* Fault: a linked peer gets no more of them.
BuildUnlessLinked(t) ==
  /\ At(t, "build")
  /\ IF addr # 0 /\ ~linked
     THEN sdesAge' = 0 /\ Continue(t, <<Op("emit", addr)>>)
     ELSE UNCHANGED sdesAge /\ Continue(t, <<>>)
  /\ UNCHANGED <<proxy, on, phase, asleep, exited, job, busy, stop, proxyMu, link,
                 rtcpAge, rtpAge, loginIn, listIn, ticked, opTime, held, pcmOut,
                 network, conf, faults>>

\* el_send_sdes under dir_mu: nothing is sent to an unresolved peer.
Build(t) ==
  /\ At(t, "build")
  /\ IF addr # 0
     THEN sdesAge' = 0 /\ Continue(t, <<Op("emit", addr)>>)
     ELSE UNCHANGED sdesAge /\ Continue(t, <<>>)
  /\ UNCHANGED <<proxy, on, phase, asleep, exited, job, busy, stop, proxyMu, link,
                 rtcpAge, rtpAge, loginIn, listIn, ticked, opTime, held, pcmOut,
                 network, conf, faults>>

\* el_send_udp_rtcp: el_proxy_udp_ctrl takes proxy.mu.  Without a connection the
\* datagrams ds are lost, and the next attempt to connect is put off.
SendUdpRtcp(ds) ==
  /\ proxy => proxyMu = "none"
  /\ IF Down
     THEN UNCHANGED toConf /\ MarkDisconnected
     ELSE toConf' = toConf \union ds /\ UNCHANGED <<px, backIn>>

Emit(t) ==
  /\ At(t, "emit")
  /\ Continue(t, <<>>)
  /\ SendUdpRtcp({<<"SDES", Arg(t)>>})
  /\ UNCHANGED <<proxy, on, phase, asleep, exited, job, busy, stop, proxyMu, link,
                 clocks, pcmOut, toUs, cut, conf, faults>>

\* el_send_firewall_open: the directory is asked to relay an OPEN to the address
\* the peer has by then.
FirewallOpen(t) ==
  /\ At(t, "open")
  /\ Continue(t, <<>>)
  /\ IF addr # 0 THEN SendUdpRtcp({<<"OPEN", addr>>}) ELSE UNCHANGED <<toConf, px, backIn>>
  /\ UNCHANGED <<proxy, on, phase, asleep, exited, job, busy, stop, proxyMu, link,
                 clocks, pcmOut, toUs, cut, conf, faults>>

\* el_try_directory_login: el_dir_connect connects to the proxy if need be; some
\* server accepts, or none does.  The outcome shows only in p->status, which
\* nothing reads.
Login(t) ==
  /\ At(t, "login")
  /\ Continue(t, <<>>)
  /\ (Ensured /\ UNCHANGED faults) \/ NotEnsured
  /\ UNCHANGED <<proxy, on, phase, asleep, exited, job, busy, stop, proxyMu, link,
                 clocks, pcmOut, toConf, toUs, conf>>

\* el_resolve_peer: the station list has the node, with the address it had
\* when the list was made, or the directory cannot be reached.
Found(t) ==
  /\ At(t, "list")
  /\ Continue(t, <<Op("apply", confAddr)>>)
  /\ Ensured
  /\ UNCHANGED <<proxy, on, phase, asleep, exited, job, busy, stop, proxyMu, link,
                 clocks, pcmOut, toConf, toUs, conf, faults>>

NotFound(t) ==
  /\ At(t, "list")
  /\ Continue(t, <<>>)
  /\ (Ensured /\ faults < MaxFaults /\ faults' = faults + 1) \/ NotEnsured
  /\ UNCHANGED <<proxy, on, phase, asleep, exited, job, busy, stop, proxyMu, link,
                 clocks, pcmOut, toConf, toUs, conf>>

\* Fault: an address that is already known is not replaced.
ApplyOnce(t) ==
  /\ At(t, "apply")
  /\ IF addr # 0
     THEN UNCHANGED addr /\ Continue(t, <<>>)
     ELSE addr' = Arg(t) /\ Continue(t, SendHandshake)
  /\ UNCHANGED <<proxy, on, phase, asleep, exited, job, busy, stop, proxyMu, linked,
                 talker, explicit, pending, clocks, pcmOut, network, conf,
                 faults>>

\* The rest of el_station_list_refresh_peer, under dir_mu, then the handshake.
Apply(t) ==
  /\ At(t, "apply")
  /\ IF addr = Arg(t)
     THEN UNCHANGED addr /\ Continue(t, <<>>)
     ELSE addr' = Arg(t) /\ Continue(t, SendHandshake)
  /\ UNCHANGED <<proxy, on, phase, asleep, exited, job, busy, stop, proxyMu, linked,
                 talker, explicit, pending, clocks, pcmOut, network, conf,
                 faults>>

-----------------------------------------------------------------------------
\* el_dir_thread_main: the top of its loop
WorkerTop ==
  /\ ~exited
  /\ ~asleep
  /\ todo["worker"] = <<>>
  /\ IF stop
     THEN exited' = TRUE /\ UNCHANGED <<asleep, job, busy, todo>>
     ELSE IF job = "NONE"
     THEN asleep' = TRUE /\ UNCHANGED <<exited, job, busy, todo>>
     ELSE /\ job' = "NONE"
          /\ busy' = TRUE
          /\ todo' = [todo EXCEPT !["worker"] = JobOps(job) \o <<Op("done", 0)>>]
          /\ UNCHANGED <<asleep, exited>>
  /\ UNCHANGED <<proxy, on, phase, stop, proxyMu, link, clocks, pcmOut, network,
                 conf, faults>>

WorkerDone ==
  /\ At("worker", "done")
  /\ busy' = FALSE
  /\ opTime' = [opTime EXCEPT !["worker"] = 0]
  /\ Continue("worker", <<>>)
  /\ UNCHANGED <<proxy, on, phase, asleep, exited, job, stop, proxyMu, link, sdesAge,
                 rtcpAge, rtpAge, loginIn, listIn, ticked, held, pcmOut, network, conf,
                 faults>>

\* The end of peer_el_open: el_dir_thread_start.  pthread_create may fail, and
\* directory operations then block the loop.
ThreadStart ==
  /\ At("main", "thread")
  /\ on' \in IF proxy THEN ProxyThread ELSE DirectThread
  /\ exited' = ~on'
  /\ phase' = "run"
  /\ Continue("main", <<>>)
  /\ UNCHANGED <<proxy, asleep, job, busy, stop, proxyMu, link, clocks, pcmOut,
                 network, conf, faults>>

Idle == phase = "run" /\ todo["main"] = <<>>

\* The directory job that is due.
DueJob ==
  LET login == loginIn = 0
      list  == ListInterval > 0 /\ listIn = 0
  IN  IF login THEN IF list THEN "LOGIN_LIST" ELSE "LOGIN"
      ELSE IF list THEN "LIST" ELSE "NONE"

\* peer_el_tick, which first makes sure of the proxy.  The timers go on whether or
\* not el_dir_schedule takes the job, which it does not while the worker has one.
Tick ==
  /\ Idle
  /\ ~ticked
  /\ (Ensured /\ UNCHANGED faults) \/ NotEnsured
  /\ ticked' = TRUE
  /\ opTime' = [opTime EXCEPT !["main"] = 0]
  /\ loginIn' = IF DueJob \in {"LOGIN", "LOGIN_LIST"} THEN LoginInterval ELSE loginIn
  /\ listIn' = IF DueJob \in {"LIST", "LOGIN_LIST"} THEN ListInterval ELSE listIn
  /\ IF on /\ DueJob # "NONE" /\ ~busy /\ job = "NONE"
     THEN job' = DueJob /\ asleep' = FALSE
     ELSE UNCHANGED <<job, asleep>>
  /\ todo' = [todo EXCEPT !["main"] =
                (IF ~on /\ DueJob # "NONE" THEN JobOps(DueJob) ELSE <<>>)
                \o <<Op("keepalive", 0), Op("stale", 0)>>]
  /\ UNCHANGED <<proxy, on, phase, exited, busy, stop, proxyMu, link, sdesAge,
                 rtcpAge, rtpAge, held, pcmOut, toConf, toUs, conf>>

\* The keepalive of peer_el_tick
Keepalive ==
  /\ At("main", "keepalive")
  /\ Continue("main", IF addr # 0 /\ sdesAge >= EL_SDES_INTERVAL
                      THEN IF linked THEN SendSdes ELSE SendHandshake
                      ELSE <<>>)
  /\ UNCHANGED <<proxy, on, phase, asleep, exited, job, busy, stop, proxyMu, link,
                 clocks, pcmOut, network, conf, faults>>

\* Fault: the talker of the lost link is kept.
StaleKeepsTalker ==
  /\ At("main", "stale")
  /\ IF linked /\ rtcpAge >= EL_PEER_STALE_SEC
     THEN /\ linked' = FALSE
          /\ Continue("main", SendHandshake)
     ELSE UNCHANGED <<linked>> /\ Continue("main", <<>>)
  /\ UNCHANGED <<proxy, on, phase, asleep, exited, job, busy, stop, proxyMu, addr,
                 talker, explicit, pending, clocks, pcmOut, network, conf, faults>>

\* The end of peer_el_tick: a silent peer is taken for gone.
Stale ==
  /\ At("main", "stale")
  /\ IF linked /\ rtcpAge >= EL_PEER_STALE_SEC
     THEN /\ linked' = FALSE
          /\ explicit' = FALSE
          /\ talker' = "host"
          /\ Continue("main", SendHandshake)
     ELSE UNCHANGED <<linked, explicit, talker>> /\ Continue("main", <<>>)
  /\ UNCHANGED <<proxy, on, phase, asleep, exited, job, busy, stop, proxyMu, addr,
                 pending, clocks, pcmOut, network, conf, faults>>

-----------------------------------------------------------------------------
\* peer_el_poll without a connection to the proxy: it tries to get one.
PollDown ==
  /\ Idle
  /\ Down
  /\ backIn = 0
  /\ (Ensured /\ UNCHANGED faults) \/ NotEnsured
  /\ UNCHANGED <<proxy, on, control, proxyMu, link, clocks, pcmOut, toConf, toUs, conf>>

\* peer_el_poll: directly, or through el_proxy_poll, which calls back with
\* proxy.mu held; the reply then waits until it is released.
Poll ==
  /\ Idle
  /\ toUs # {}
  /\ ~Down
  /\ IF proxy
     THEN /\ proxyMu = "none"
          /\ proxyMu' = "main"
          /\ todo' = [todo EXCEPT !["main"] =
                        <<Op("callback", 0), Op("unlock", 0), Op("reply", 0)>>]
     ELSE /\ todo' = [todo EXCEPT !["main"] = <<Op("callback", 0)>>]
          /\ UNCHANGED proxyMu
  /\ UNCHANGED <<proxy, on, phase, asleep, exited, job, busy, stop, link,
                 clocks, pcmOut, network, conf, faults>>

\* el_apply_remote_sdes with the station the SDES names, and whether it was
\* named as the one who talks.  A weaker hint does not replace the talker
\* while his voice is coming in.
ApplyRemoteSdes(name, fromParen) ==
  IF ~fromParen /\ explicit /\ talker # name /\ rtpAge < STICKY
  THEN UNCHANGED <<talker, explicit>>
  ELSE /\ talker' = name
       /\ explicit' = IF talker = name THEN explicit \/ fromParen ELSE fromParen

\* Fault: at once, with proxy.mu held.
ReplyAtOnce ==
  /\ UNCHANGED pending
  /\ Continue("main", SendSdes)

\* The answer to an SDES: at once, or after proxy.mu has been released.
Reply ==
  IF proxy
  THEN pending' = TRUE /\ Continue("main", <<>>)
  ELSE UNCHANGED pending /\ Continue("main", SendSdes)

\* el_handle_rtcp on an SDES: el_parse_sdes_packet, then linked under dir_mu.
HandleRtcp ==
  /\ At("main", "callback")
  /\ \E m \in toUs \ {"RTP"} :
       /\ toUs' = toUs \ {m}
       /\ IF m = "OPEN"
          THEN UNCHANGED <<linked, talker, explicit, rtcpAge>>
          ELSE /\ ApplyRemoteSdes(IF m = "HOST" THEN "host" ELSE "user", m = "USER")
               /\ rtcpAge' = 0
               /\ linked' = TRUE
  /\ Reply
  /\ UNCHANGED <<proxy, on, phase, asleep, exited, job, busy, stop, proxyMu, addr,
                 sdesAge, rtpAge, loginIn, listIn, ticked, opTime, held, pcmOut, toConf,
                 conn, conf, faults>>

\* el_handle_rtp, without dir_mu
HandleRtp ==
  /\ At("main", "callback")
  /\ "RTP" \in toUs
  /\ toUs' = toUs \ {"RTP"}
  /\ rtpAge' = 0
  /\ rtcpAge' = 0
  /\ linked' = TRUE
  /\ Continue("main", <<>>)
  /\ UNCHANGED <<proxy, on, phase, asleep, exited, job, busy, stop, proxyMu, addr,
                 talker, explicit, pending, sdesAge, loginIn, listIn, ticked,
                 opTime, held, pcmOut, toConf, conn, conf, faults>>

\* The end of el_proxy_poll, and of peer_el_poll
Unlock ==
  /\ At("main", "unlock")
  /\ proxyMu' = "none"
  /\ Continue("main", <<>>)
  /\ UNCHANGED <<proxy, on, phase, asleep, exited, job, busy, stop, link,
                 clocks, pcmOut, network, conf, faults>>

DeferredReply ==
  /\ At("main", "reply")
  /\ pending' = FALSE
  /\ Continue("main", IF pending THEN SendSdes ELSE <<>>)
  /\ UNCHANGED <<proxy, on, phase, asleep, exited, job, busy, stop, proxyMu, addr,
                 linked, talker, explicit, clocks, pcmOut, network, conf,
                 faults>>

-----------------------------------------------------------------------------
\* What the bridge calls.  peer_el_write_pcm takes a block of 160 samples.
WritePcm ==
  /\ Idle
  /\ phase' = "write"
  /\ UNCHANGED <<proxy, on, todo, asleep, exited, job, busy, stop, proxyMu, link,
                 clocks, pcmOut, network, conf, faults>>

\* el_flush_rtp_tx: the buffer is emptied into a packet, if there is a peer, and
\* the packet is sent, like an SDES, or lost.
Flushed(n) == IF addr # 0 THEN 0 ELSE n

RtpSent ==
  IF addr # 0 /\ Down THEN MarkDisconnected ELSE UNCHANGED <<px, backIn>>

\* Fault: it does not look for room.
WriteLoopUnchecked ==
  /\ phase = "write"
  /\ IF pcmOut + 1 = RTP_FRAMES
     THEN pcmOut' = Flushed(RTP_FRAMES) /\ RtpSent
     ELSE pcmOut' = pcmOut + 1 /\ UNCHANGED <<px, backIn>>
  /\ phase' = "run"
  /\ UNCHANGED <<proxy, on, todo, asleep, exited, job, busy, stop, proxyMu, link,
                 clocks, toConf, toUs, cut, conf, faults>>

\* Once round the loop of peer_el_write_pcm, which flushes a full buffer and
\* comes round again when there was no room.
WriteLoop ==
  /\ phase = "write"
  /\ IF pcmOut < RTP_FRAMES
     THEN /\ phase' = "run"
          /\ IF pcmOut + 1 = RTP_FRAMES
             THEN pcmOut' = Flushed(RTP_FRAMES) /\ RtpSent
             ELSE pcmOut' = pcmOut + 1 /\ UNCHANGED <<px, backIn>>
     ELSE /\ pcmOut' = Flushed(pcmOut)
          /\ RtpSent
          /\ UNCHANGED phase
  /\ UNCHANGED <<proxy, on, todo, asleep, exited, job, busy, stop, proxyMu, link,
                 clocks, toConf, toUs, cut, conf, faults>>

\* peer_el_flush_pcm
FlushPcm ==
  /\ Idle
  /\ pcmOut > 0
  /\ pcmOut' = Flushed(pcmOut)
  /\ RtpSent
  /\ UNCHANGED <<proxy, on, control, proxyMu, link, clocks, toConf, toUs, cut, conf,
                 faults>>

\* peer_el_set_talker_name with another name.  Its SDES puts the keepalive off,
\* and with it the OPEN that only the keepalive sends; that talkers change so
\* often that it is put off for ever is left out.
SetTalkerName ==
  /\ Idle
  /\ ~ticked
  /\ sdesAge < EL_SDES_INTERVAL
  /\ todo' = [todo EXCEPT !["main"] = SendSdes]
  /\ UNCHANGED <<proxy, on, phase, asleep, exited, job, busy, stop, proxyMu, link,
                 clocks, pcmOut, network, conf, faults>>

\* peer_el_clear_remote_talker
ClearRemoteTalker ==
  /\ Idle
  /\ explicit' = FALSE
  /\ talker' = "host"
  /\ UNCHANGED <<proxy, on, control, proxyMu, addr, linked, pending, clocks,
                 pcmOut, network, conf, faults>>

\* peer_el_close: el_dir_thread_stop wakes the worker and waits for it.
Stop ==
  /\ Idle
  /\ ticked
  /\ stop' = on
  /\ asleep' = FALSE
  /\ phase' = "join"
  /\ UNCHANGED <<proxy, on, todo, exited, job, busy, proxyMu, link, clocks, pcmOut,
                 network, conf, faults>>

\* pthread_join returns; the sockets, the proxy and the mutex are taken down.
Join ==
  /\ phase = "join"
  /\ exited
  /\ phase' = "closed"
  /\ on' = FALSE
  /\ busy' = FALSE
  /\ job' = "NONE"
  /\ linked' = FALSE
  /\ addr' = 0
  /\ px' = FALSE
  /\ backIn' = 0
  /\ UNCHANGED <<proxy, todo, asleep, exited, stop, proxyMu, talker, explicit,
                 pending, clocks, pcmOut, toConf, toUs, cut, conf, faults>>

-----------------------------------------------------------------------------
\* What the conference sends gets as far as a proxy that is connected.
Heard(m) == IF Down THEN toUs ELSE toUs \union {m}

\* The conference gets an SDES or an OPEN, if it is where it was sent to.
ConfReceives(m) ==
  /\ m \in toConf
  /\ toConf' = toConf \ {m}
  /\ IF m[2] # confAddr THEN UNCHANGED <<toUs, member, opened, confAge>>
     ELSE IF m[1] = "OPEN"
     THEN opened' = TRUE /\ UNCHANGED <<toUs, member, confAge>>
     ELSE IF member \/ opened
     THEN /\ member' = TRUE
          /\ confAge' = 0
          /\ toUs' = IF member THEN toUs ELSE Heard("HOST")
          /\ UNCHANGED opened
     ELSE UNCHANGED <<toUs, member, opened, confAge>>
  /\ UNCHANGED <<proxy, on, control, proxyMu, link, clocks, pcmOut, conn, confAddr,
                 dropped, faults>>

\* Thread t waits for a directory server, and may go on doing so.
Blocked(t) == (At(t, "login") \/ At(t, "list")) /\ opTime[t] < DirTime

\* The loop has come round in this second.
CameRound == Idle /\ ticked /\ toUs = {}

\* It has not, because something holds it up between two ticks.
HeldUp == Idle /\ ~ticked /\ held < MaxHeld

MainWaits == CameRound \/ HeldUp \/ Blocked("main")

WorkerWaits == todo["worker"] = <<>> \/ Blocked("worker")

\* A user of the conference talks; or the conference has not heard of us and
\* asks for the link, with an OPEN.  What comes in is not looked at before the
\* loop polls, so it is enough that it comes while the loop is idle.
ConfTalks ==
  /\ Idle
  /\ WorkerWaits
  /\ ~ticked
  /\ ~Down
  /\ toUs = {}
  /\ toConf = {}
  /\ \E m \in {"RTP", "USER", "OPEN"} :
       /\ (m = "OPEN") = ~member
       /\ toUs' = {m}
       /\ opened' = (opened \/ m = "OPEN")
  /\ UNCHANGED <<proxy, on, control, proxyMu, link, clocks, pcmOut, toConf, conn,
                 confAddr, member, confAge, dropped, faults>>

\* A datagram is lost, also one the worker has read from the proxy while it
\* waited for the directory; or the conference restarts, perhaps elsewhere.
Fault ==
  /\ faults < MaxFaults
  /\ faults' = faults + 1
  /\ \/ /\ \E m \in toConf : toConf' = toConf \ {m}
        /\ UNCHANGED <<toUs, confAddr, member, opened>>
     \/ /\ ~At("main", "callback")
        /\ \E m \in toUs : toUs' = toUs \ {m}
        /\ UNCHANGED <<toConf, confAddr, member, opened>>
     \/ /\ Idle
        /\ WorkerWaits
        /\ toConf = {}
        /\ confAddr' \in Addrs
        /\ member' = FALSE
        /\ opened' = FALSE
        /\ UNCHANGED <<toConf, toUs>>
  /\ UNCHANGED <<proxy, on, control, proxyMu, link, clocks, pcmOut, conn, confAge,
                 dropped>>

\* The connection to the proxy ends, which either thread finds when it reads or
\* writes; what was on its way through it is lost, or has got through.
ProxyLost ==
  /\ px
  /\ proxyMu = "none"
  /\ faults < MaxFaults
  /\ faults' = faults + 1
  /\ MarkDisconnected
  /\ cut' = TRUE
  /\ toUs' = {}
  /\ toConf' \in {toConf, {}}
  /\ UNCHANGED <<proxy, on, control, proxyMu, link, clocks, pcmOut, conf>>

Older(age, max) == IF age < max THEN age + 1 ELSE age

Sooner(left) == IF left > 0 THEN left - 1 ELSE left

\* A second passes; a conference sends its members an SDES.
Second ==
  /\ phase \in {"start", "run"}
  /\ toConf = {}
  /\ MainWaits
  /\ WorkerWaits
  /\ opTime' = [t \in Threads |-> IF Blocked(t) THEN opTime[t] + 1 ELSE opTime[t]]
  /\ held' = IF CameRound THEN 0 ELSE IF HeldUp THEN held + 1 ELSE held
  /\ ticked' = FALSE
  /\ sdesAge' = Older(sdesAge, EL_SDES_INTERVAL)
  /\ rtcpAge' = Older(rtcpAge, EL_PEER_STALE_SEC)
  /\ rtpAge' = Older(rtpAge, STICKY)
  /\ loginIn' = Sooner(loginIn)
  /\ listIn' = Sooner(listIn)
  /\ backIn' = Sooner(backIn)
  /\ IF member /\ confAge + 1 >= CONF_TIMEOUT
     THEN /\ member' = FALSE
          /\ opened' = FALSE
          /\ dropped' = TRUE
          /\ confAge' = 0
          /\ UNCHANGED toUs
     ELSE /\ confAge' = IF member THEN confAge + 1 ELSE 0
          /\ toUs' = IF member THEN Heard("HOST") ELSE toUs
          /\ UNCHANGED <<member, opened, dropped>>
  /\ UNCHANGED <<proxy, on, control, proxyMu, link, pcmOut, toConf, px, cut, confAddr,
                 faults>>

-----------------------------------------------------------------------------
Directory(t) ==
  \/ Build(t)
  \/ Emit(t)
  \/ FirewallOpen(t)
  \/ Login(t)
  \/ Found(t)
  \/ NotFound(t)
  \/ Apply(t)

Main ==
  \/ Directory("main")
  \/ ThreadStart
  \/ Keepalive
  \/ Stale
  \/ HandleRtcp
  \/ HandleRtp
  \/ Unlock
  \/ DeferredReply
  \/ WriteLoop
  \/ Join

Worker == Directory("worker") \/ WorkerTop \/ WorkerDone

Bridge == WritePcm \/ FlushPcm \/ SetTalkerName \/ ClearRemoteTalker

Next ==
  \/ Main
  \/ Tick
  \/ Poll
  \/ PollDown
  \/ Worker
  \/ Bridge
  \/ Stop
  \/ \E m \in Datagrams : ConfReceives(m)
  \/ ConfTalks
  \/ Fault
  \/ ProxyLost
  \/ Second

Spec == Init /\ [][Next]_vars

\* Both threads run, the loop keeps coming round, datagrams arrive and time
\* passes.
Fairness ==
  /\ WF_vars(Main)
  /\ WF_vars(Worker)
  /\ SF_vars(Tick)
  /\ SF_vars(Poll)
  /\ \A m \in Datagrams : WF_vars(ConfReceives(m))
  /\ SF_vars(Second)

LiveSpec == Spec /\ Fairness

-----------------------------------------------------------------------------
\* peer_el_write_pcm comes round and round: there is no room and no peer.
Hung == phase = "write" /\ pcmOut = RTP_FRAMES /\ addr = 0

(* A talker is known only on a link: the bridge never announces a station   *)
(* heard on a link that is gone (peer_el_tick, el_apply_remote_sdes).       *)
TalkerNeedsLink == phase # "closed" /\ (explicit \/ talker # "host") => linked

(* The conference does not forget a running client: neither a directory     *)
(* operation, on the worker or on the loop itself, nor a loop held up for   *)
(* MaxHeld, nor the loss of fewer SDES than it waits for, keeps the         *)
(* keepalive from it (el_dir_op_begin).  A proxy that was lost excepts it.  *)
KeptAlive == dropped => cut

(* The main loop comes round for ever or ends: no mutex is waited for by    *)
(* the thread that holds it, peer_el_write_pcm returns once the peer is     *)
(* resolved, and closing does not wait for a worker that sleeps.            *)
LoopRuns == []<>(Idle \/ phase = "closed" \/ Hung)

(* After a restart of the conference, at another address too, and any loss  *)
(* of datagrams, the link comes back, unless the proxy has been lost        *)
(* (peer_el_tick, el_station_list_refresh_peer).                            *)
LinkRecovers ==
  []<>((linked /\ member) \/ phase \in {"join", "closed"} \/ Hung \/ cut)

(* A lost connection to the proxy is made again ("Ensure connected          *)
(* (reconnect if needed)", el_proxy.h:63; el_proxy_ensure).                 *)
ProxyReconnects == []<>(~Down \/ phase \in {"join", "closed"} \/ Hung)
=============================================================================
